----------------------- MODULE WorkflowSessionProofs -----------------------
(***************************************************************************)
(* Proofs about WorkflowSession, for any set of runs, any delivery of      *)
(* their events and any number of faults and closes.                       *)
(*                                                                         *)
(* First the types and the chain in the file; then that every handler call *)
(* is recorded at most once and exactly when it is told so, that close()   *)
(* loses nothing that was queued before it, that a failure stays where it  *)
(* happened, and that the emitter implements the audit trail.              *)
(***************************************************************************)
EXTENDS WorkflowSession, SequenceTheorems, TLAPS

QueueItem == JobType \cup {CloseMarker}

\* What the type invariant needs to be inductive: prevReceipt is a receipt as
\* soon as there is a session, and without one nothing is queued or written.
SessionInv ==
  /\ session = "live" => prev \in ReceiptType
  /\ session # "live" => file = <<>> /\ queue = <<>>

TypeInv == TypeOK /\ SessionInv

-----------------------------------------------------------------------------
\* Lemmas about receipts and the head of the queue.

\* A manifest is a receipt.
LEMMA ManifestType ==
  ASSUME NEW id \in Nat \ {0}
  PROVE  Manifest(id) \in ReceiptType
BY DEF Manifest, ReceiptType, NullHash, NoCall

\* chainReceipt sets the two chain fields and leaves the others.
LEMMA ChainType ==
  ASSUME NEW u \in ReceiptType, NEW p \in ReceiptType, u.wf = p.wf
  PROVE  LET d == ChainReceipt(u, p)
         IN  /\ d \in ReceiptType
             /\ d # NoReceipt
             /\ Links(d, p)
             /\ d.id = u.id /\ d.call = u.call /\ d.named = u.named
             /\ d.before = u.before /\ d.after = u.after
<1> DEFINE v == [u EXCEPT !.prev = p.id]
           w == [v EXCEPT !.seq = p.seq + 1]
<1>1. ChainReceipt(u, p) = w
  BY DEF ChainReceipt, Digest
<1>2. p.id \in Nat \ {0} /\ p.seq \in Nat
  BY DEF ReceiptType
<1>3. /\ v \in ReceiptType /\ v.prev = p.id /\ v.wf = u.wf
      /\ v.id = u.id /\ v.call = u.call /\ v.named = u.named
      /\ v.before = u.before /\ v.after = u.after
  BY <1>2 DEF ReceiptType
<1> HIDE DEF v
<1>4. /\ w \in ReceiptType /\ w.prev = v.prev /\ w.seq = p.seq + 1 /\ w.wf = v.wf
      /\ w.id = v.id /\ w.call = v.call /\ w.named = v.named
      /\ w.before = v.before /\ w.after = v.after
  BY <1>2, <1>3 DEF ReceiptType
<1> HIDE DEF w
<1>5. w # NoReceipt
  BY <1>4 DEF ReceiptType, NoReceipt
<1>6. QED
  BY <1>1, <1>3, <1>4, <1>5 DEF Links, Digest

\* Chaining what a job signs gives a receipt of the job's call, linked to
\* prevReceipt.
LEMMA DraftType ==
  ASSUME nextId \in Nat \ {0}, prev \in ReceiptType, NEW j \in JobType
  PROVE  LET d == ChainReceipt(Unsigned(j), prev)
         IN  /\ d \in ReceiptType
             /\ d # NoReceipt
             /\ Links(d, prev)
             /\ d.id = nextId
             /\ d.call = j.call
             /\ d.named = j.named
             /\ d.before = prev.seq
             /\ d.after \in {prev.seq, prev.seq + 1}
<1>1. Unsigned(j) \in ReceiptType
  <2>1. /\ prev.seq \in Nat /\ prev.wf \in Nat
        /\ j.dead \in BOOLEAN /\ j.named \in BOOLEAN /\ j.call \in Calls /\ j.enq \in Nat
    BY DEF ReceiptType, JobType
  <2>2. (IF j.dead THEN prev.seq ELSE prev.seq + 1) \in Nat
    BY <2>1
  <2>3. QED BY <2>1, <2>2 DEF Unsigned, ReceiptType, NullHash
<1>2. /\ Unsigned(j).id = nextId
      /\ Unsigned(j).wf = prev.wf
      /\ Unsigned(j).call = j.call
      /\ Unsigned(j).named = j.named
      /\ Unsigned(j).before = prev.seq
      /\ Unsigned(j).after \in {prev.seq, prev.seq + 1}
  BY DEF Unsigned
<1>3. QED
  BY <1>1, <1>2, ChainType

\* NoReceipt is not a receipt.
LEMMA NoReceiptIsNone == NoReceipt \notin ReceiptType
BY DEF NoReceipt, ReceiptType

\* The head of the queue, when it is not a close marker, is a job.
LEMMA HeadIsJob ==
  ASSUME queue \in Seq(QueueItem), queue # <<>>, ~Head(queue).close
  PROVE  /\ Head(queue) \in JobType
         /\ Head(queue) = queue[1]
         /\ 1 \in 1..Len(queue)
         /\ Head(queue).call \in Calls
         /\ Head(queue).draft # NoReceipt => Head(queue).draft \in ReceiptType
<1>1. Head(queue) \in QueueItem BY HeadTailProperties
<1>2. Head(queue) # CloseMarker BY DEF CloseMarker
<1>3. Head(queue) \in JobType BY <1>1, <1>2 DEF QueueItem
<1>4. Head(queue) = queue[1] /\ 1 \in 1..Len(queue) BY EmptySeq, LenProperties
<1>5. QED BY <1>3, <1>4 DEF JobType

\* A job is a job.
LEMMA JobIsJob ==
  ASSUME NEW c \in Calls, NEW dead \in BOOLEAN, NEW named \in BOOLEAN, prev.seq \in Nat
  PROVE  Job(c, dead, named) \in JobType
BY DEF Job, JobType

-----------------------------------------------------------------------------
LEMMA TypeInit == Init => TypeInv
<1> SUFFICES ASSUME Init PROVE TypeInv OBVIOUS
<1>1. queue \in Seq(JobType \cup {CloseMarker}) BY EmptySeq DEF Init
<1>2. file \in Seq(ReceiptType) BY EmptySeq DEF Init
<1>3. calls \in [Calls -> Statuses] BY DEF Init, Statuses
<1>4. nextId \in Nat \ {0} /\ faults \in Nat /\ closes \in Nat BY DEF Init
<1>5. QED BY <1>1, <1>2, <1>3, <1>4 DEF Init, TypeInv, TypeOK, SessionInv

\* The part of the type invariant a handler call can disturb when it queues.
LEMMA EnqueueType ==
  ASSUME TypeInv, session = "live", NEW c \in Calls, NEW dead \in BOOLEAN,
         NEW named \in BOOLEAN, Enqueue(Job(c, dead, named))
  PROVE  queue' \in Seq(QueueItem)
<1>1. Job(c, dead, named) \in JobType
  BY JobIsJob DEF TypeInv, SessionInv, ReceiptType
<1>2. QED
  BY <1>1, AppendProperties DEF Enqueue, TypeInv, TypeOK, QueueItem

LEMMA TypeNext == TypeInv /\ [Next]_vars => TypeInv'
<1> SUFFICES ASSUME TypeInv, [Next]_vars PROVE TypeInv' OBVIOUS
<1> USE DEF TypeInv, SessionInv
<1>q. queue \in Seq(QueueItem) /\ (TypeOK' <=> (/\ calls' \in [Calls -> Statuses]
         /\ session' \in {"none", "creating", "live"}
         /\ pending' \in SUBSET Runs
         /\ queue' \in Seq(QueueItem)
         /\ prev' \in ReceiptType \cup {NoReceipt}
         /\ file' \in Seq(ReceiptType)
         /\ fdOpen' \in BOOLEAN
         /\ nextId' \in Nat \ {0}
         /\ faults' \in Nat
         /\ closes' \in Nat))
  BY DEF TypeOK, QueueItem, ReceiptType, JobType, Calls, CloseMarker, NoReceipt, NoCall, Events, Statuses, Settled, Unsettled
<1>1. ASSUME NEW c \in Calls, Call(c) PROVE TypeInv'
  BY <1>1, <1>q DEF TypeOK, Call, Settle, Statuses, Unsettled
<1>2. CASE CreateSucceeds
  <2>1. prev' \in ReceiptType /\ nextId' \in Nat \ {0}
    BY <1>2, ManifestType DEF CreateSucceeds, TypeOK
  <2>2. file' \in Seq(ReceiptType)
    BY <1>2, <2>1, AppendProperties DEF CreateSucceeds, TypeOK
  <2>3. QED BY <1>2, <1>q, <2>1, <2>2 DEF CreateSucceeds, TypeOK
<1>3. CASE CreateFails
  BY <1>3, <1>q DEF CreateFails, Fault, TypeOK, Statuses, Settled
<1>4. ASSUME NEW c \in Calls, StartPends(c) PROVE TypeInv'
  BY <1>4, <1>q DEF StartPends, Resumes, Settle, TypeOK, Statuses, Settled, Calls
<1>5. ASSUME NEW c \in Calls, StartDeadLetters(c) PROVE TypeInv'
  <2>1. queue' \in Seq(QueueItem) BY <1>5, EnqueueType DEF StartDeadLetters, Resumes
  <2>2. QED BY <1>5, <2>1, <1>q
            DEF StartDeadLetters, Resumes, Settle, Waiting, TypeOK, Statuses, Unsettled
<1>6. ASSUME NEW c \in Calls, EndFinalizes(c) PROVE TypeInv'
  <2>1. queue' \in Seq(QueueItem) BY <1>6, EnqueueType DEF EndFinalizes, Resumes
  <2>2. QED BY <1>6, <2>1, <1>q
            DEF EndFinalizes, Resumes, TakePending, Settle, Waiting, TypeOK, Statuses, Unsettled
<1>7. ASSUME NEW c \in Calls, EndThrows(c) PROVE TypeInv'
  BY <1>7, <1>q DEF EndThrows, Resumes, TakePending, Settle, Fault, TypeOK, Statuses, Settled
<1>8. ASSUME NEW c \in Calls, EndSkips(c) PROVE TypeInv'
  BY <1>8, <1>q DEF EndSkips, Resumes, Settle, TypeOK, Statuses, Settled
<1>9. ASSUME NEW c \in Calls, ErrorDeadLetters(c) PROVE TypeInv'
  <2> DEFINE known == c.run \in pending
  <2>1. known \in BOOLEAN OBVIOUS
  <2>2. session = "live" /\ Enqueue(Job(c, TRUE, known)) BY <1>9 DEF ErrorDeadLetters, Resumes
  <2> HIDE DEF known
  <2>3. queue' \in Seq(QueueItem) BY <2>1, <2>2, EnqueueType
  <2>4. QED BY <1>9, <2>3, <1>q
            DEF ErrorDeadLetters, Resumes, TakePending, Settle, Waiting, TypeOK, Statuses, Unsettled
<1>10. CASE EmitChains
  <2> DEFINE d == ChainReceipt(Unsigned(queue[1]), prev)
  <2>1. session = "live" BY <1>10 DEF EmitChains, Begins, TypeOK
  <2>2. queue[1] \in JobType /\ 1 \in 1..Len(queue)
    BY <1>10, <1>q, HeadIsJob DEF EmitChains, Begins
  <2>3. d \in ReceiptType BY <2>1, <2>2, DraftType DEF TypeOK
  <2>4. [queue[1] EXCEPT !.draft = d] \in QueueItem
    BY <2>2, <2>3 DEF JobType, QueueItem
  <2>5. queue' \in Seq(QueueItem)
    BY <1>10, <1>q, <2>2, <2>4, ExceptSeq DEF EmitChains
  <2>6. QED BY <1>10, <2>1, <2>5, <1>q DEF EmitChains, TypeOK
<1>11. CASE EmitThrows
  BY <1>11, <1>q, HeadIsJob, HeadTailProperties
  DEF EmitThrows, Begins, Settle, Fault, TypeOK, Statuses, Settled
<1>12. CASE EmitAppends
  <2>1. Head(queue).draft \in ReceiptType /\ Head(queue).call \in Calls
    BY <1>12, <1>q, HeadIsJob DEF EmitAppends, IsSigning
  <2>2. file' \in Seq(ReceiptType)
    BY <1>12, <2>1, AppendProperties DEF EmitAppends, TypeOK
  <2>3. queue' \in Seq(QueueItem)
    BY <1>12, <1>q, HeadTailProperties DEF EmitAppends, IsSigning
  <2>4. QED BY <1>12, <1>q, <2>1, <2>2, <2>3
            DEF EmitAppends, IsSigning, Settle, TypeOK, Statuses, Settled
<1>13. CASE EmitFails
  BY <1>13, <1>q, HeadIsJob, HeadTailProperties
  DEF EmitFails, IsSigning, Settle, Fault, TypeOK, Statuses, Settled
<1>14. CASE EmitRefused
  BY <1>14, <1>q, HeadIsJob, HeadTailProperties
  DEF EmitRefused, IsSigning, Settle, TypeOK, Statuses, Settled
<1>15. CASE CloseWriter
  BY <1>15, <1>q, HeadTailProperties DEF CloseWriter, TypeOK
<1>16. CASE Close
  BY <1>16, <1>q, AppendProperties DEF Close, TypeOK, QueueItem
<1>17. CASE UNCHANGED vars
  BY <1>17, <1>q DEF vars, TypeOK
<1>18. QED
  BY <1>1, <1>2, <1>3, <1>4, <1>5, <1>6, <1>7, <1>8, <1>9, <1>10, <1>11, <1>12,
     <1>13, <1>14, <1>15, <1>16, <1>17
  DEF Next, Create, Resume, Drain

\* The type invariant, with what makes it inductive, holds of the emitter.
THEOREM TypeCorrect == Spec => [](TypeOK /\ SessionInv)
<1>1. TypeInv /\ [Next]_vars => TypeInv' BY TypeNext
<1>2. QED BY TypeInit, <1>1, PTL DEF Spec, TypeInv

-----------------------------------------------------------------------------
(***************************************************************************)
(* The chain.  ChainLinked alone is not inductive: a line is appended      *)
(* after its receipt was chained, with an await in between.  What carries  *)
(* the link over the await is DraftInv: only the head of the queue can     *)
(* have been chained, and it was chained to what is still prevReceipt.     *)
(***************************************************************************)
DraftInv ==
  \A k \in 1..Len(queue) :
    ~queue[k].close /\ queue[k].draft # NoReceipt =>
      /\ k = 1
      /\ Links(queue[k].draft, prev)
      /\ queue[k].draft.call = queue[k].call
      /\ queue[k].draft.named = queue[k].named
      /\ queue[k].draft.before = prev.seq
      /\ queue[k].draft.after \in {prev.seq, prev.seq + 1}

\* Positions, sequence numbers and state versions of the lines agree.
LineInv ==
  \A i \in 1..Len(file) :
    /\ file[i].seq = i - 1
    /\ i > 1 => file[i].before = i - 2 /\ file[i].after \in {i - 2, i - 1}

ChainInv == ChainLinked /\ PrevIsLastLine /\ DraftInv /\ LineInv

\* Queueing a job or a close marker leaves the drafts as they are.
LEMMA DraftsAfterAppend ==
  ASSUME queue \in Seq(QueueItem), DraftInv, UNCHANGED prev, NEW x \in QueueItem,
         ~x.close => x.draft = NoReceipt, queue' = Append(queue, x)
  PROVE  DraftInv'
<1>1. /\ Len(queue') = Len(queue) + 1 /\ Len(queue) \in Nat
      /\ \A k \in 1..Len(queue) : queue'[k] = queue[k]
      /\ queue'[Len(queue) + 1] = x
  BY AppendProperties, LenProperties
<1>2. QED
  BY <1>1 DEF DraftInv

\* Taking the head off leaves no draft at all.
LEMMA DraftsAfterTail ==
  ASSUME queue \in Seq(QueueItem), queue # <<>>, DraftInv, queue' = Tail(queue)
  PROVE  DraftInv'
<1>1. /\ Len(queue') = Len(queue) - 1 /\ Len(queue) \in Nat
      /\ \A k \in 1..Len(queue') : queue'[k] = queue[k + 1]
  BY HeadTailProperties, LenProperties
<1>2. \A k \in 1..Len(queue') : queue'[k].close \/ queue'[k].draft = NoReceipt
  BY <1>1 DEF DraftInv
<1>3. QED
  BY <1>2 DEF DraftInv

\* A job that was just queued has no draft.
LEMMA JobIsFresh ==
  ASSUME NEW c, NEW dead, NEW named
  PROVE  Job(c, dead, named).draft = NoReceipt
BY DEF Job

\* A line linked to prevReceipt, with prevReceipt the last line, extends the
\* chain; prevReceipt advances to it.
LEMMA AppendExtendsChain ==
  ASSUME TypeInv, session = "live", ChainLinked, PrevIsLastLine, LineInv,
         NEW d \in ReceiptType, Links(d, prev),
         d.before = prev.seq, d.after \in {prev.seq, prev.seq + 1},
         file' = Append(file, d), prev' = d, UNCHANGED session
  PROVE  ChainLinked' /\ PrevIsLastLine' /\ LineInv'
<1>1. file # <<>> /\ prev = file[Len(file)] /\ Len(file) \in Nat \ {0}
  BY EmptySeq DEF PrevIsLastLine, TypeInv, TypeOK
<1>2. /\ Len(file') = Len(file) + 1
      /\ \A i \in 1..Len(file) : file'[i] = file[i]
      /\ file'[Len(file) + 1] = d
      /\ file' # <<>>
  BY AppendProperties DEF TypeInv, TypeOK
<1>3. ChainLinked'
  <2>1. file'[1] = file[1] BY <1>1, <1>2
  <2>2. HeadsChain(file[1]) BY <1>1 DEF ChainLinked
  <2>3. ASSUME NEW i \in 2..Len(file') PROVE Links(file'[i], file'[i-1])
    <3>1. CASE i \in 2..Len(file)
      <4>1. file'[i] = file[i] /\ file'[i-1] = file[i-1] BY <1>1, <1>2, <3>1
      <4>2. QED BY <4>1, <3>1 DEF ChainLinked
    <3>2. CASE i = Len(file) + 1
      <4>1. file'[i] = d /\ file'[i-1] = prev BY <1>1, <1>2, <3>2
      <4>2. QED BY <4>1
    <3>3. QED BY <3>1, <3>2, <1>1, <1>2
  <2>4. HeadsChain(file'[1]) BY <2>1, <2>2
  <2>5. QED BY <2>3, <2>4 DEF ChainLinked
<1>4. PrevIsLastLine'
  BY <1>1, <1>2 DEF PrevIsLastLine
<1>5. LineInv'
  <2>1. prev.seq = Len(file) - 1 BY <1>1 DEF LineInv
  <2>2. d.seq = Len(file) BY <2>1, <1>1 DEF Links
  <2>3. ASSUME NEW i \in 1..Len(file')
        PROVE  /\ file'[i].seq = i - 1
               /\ i > 1 => file'[i].before = i - 2 /\ file'[i].after \in {i - 2, i - 1}
    <3>1. CASE i \in 1..Len(file) BY <3>1, <1>2 DEF LineInv
    <3>2. CASE i = Len(file) + 1 BY <3>2, <1>1, <1>2, <2>1, <2>2
    <3>3. QED BY <3>1, <3>2, <1>1, <1>2
  <2>4. QED BY <2>3 DEF LineInv
<1>6. QED BY <1>3, <1>4, <1>5

LEMMA ChainInit == Init => ChainInv
BY EmptySeq DEF Init, ChainInv, ChainLinked, PrevIsLastLine, DraftInv, LineInv

\* Steps that touch neither the file, nor prevReceipt, nor the session, keep
\* the chain if they keep the drafts.
LEMMA ChainUntouched ==
  ASSUME ChainInv, DraftInv', UNCHANGED <<file, prev, session>>
  PROVE  ChainInv'
BY DEF ChainInv, ChainLinked, PrevIsLastLine, LineInv

LEMMA ChainNext == TypeInv /\ TypeInv' /\ ChainInv /\ [Next]_vars => ChainInv'
<1> SUFFICES ASSUME TypeInv, TypeInv', ChainInv, [Next]_vars PROVE ChainInv' OBVIOUS
<1>q. queue \in Seq(QueueItem) /\ DraftInv
  BY DEF TypeInv, TypeOK, QueueItem, ChainInv
<1>d. ASSUME UNCHANGED <<queue, prev>> PROVE DraftInv'
  BY <1>q, <1>d DEF DraftInv
<1>e. ASSUME NEW c \in Calls, NEW dead \in BOOLEAN, NEW named \in BOOLEAN,
             session = "live", Enqueue(Job(c, dead, named)), UNCHANGED prev
      PROVE  DraftInv'
  <2>1. Job(c, dead, named) \in QueueItem
    BY <1>e, JobIsJob DEF TypeInv, SessionInv, ReceiptType, QueueItem
  <2>2. QED BY <1>e, <1>q, <2>1, JobIsFresh, DraftsAfterAppend DEF Enqueue
<1>1. ASSUME NEW c \in Calls, Call(c) PROVE ChainInv'
  <2>1. DraftInv' BY <1>1, <1>d DEF Call
  <2>2. session' # "live" \/ UNCHANGED session BY <1>1 DEF Call
  <2>3. QED BY <1>1, <2>1, <2>2
            DEF Call, ChainInv, ChainLinked, PrevIsLastLine, LineInv
<1>2. CASE CreateSucceeds
  <2>1. file = <<>> /\ queue = <<>> BY <1>2 DEF CreateSucceeds, TypeInv, SessionInv
  <2>2. Manifest(nextId) \in ReceiptType BY ManifestType DEF TypeInv, TypeOK
  <2>3. Len(file') = 1 /\ file'[1] = Manifest(nextId) /\ prev' = Manifest(nextId) /\ file' # <<>>
    BY <1>2, <2>1, <2>2, EmptySeq, AppendProperties DEF CreateSucceeds
  <2>4. DraftInv' BY <1>2, <2>1, EmptySeq DEF CreateSucceeds, DraftInv
  <2>5. HeadsChain(Manifest(nextId)) /\ Manifest(nextId).seq = 0
    BY DEF HeadsChain, Manifest
  <2>6. ChainLinked' BY <2>3, <2>5 DEF ChainLinked
  <2>7. PrevIsLastLine' BY <2>3 DEF PrevIsLastLine
  <2>8. LineInv' BY <2>3, <2>5 DEF LineInv
  <2>9. QED BY <2>4, <2>6, <2>7, <2>8 DEF ChainInv
<1>3. CASE CreateFails
  <2>1. DraftInv' BY <1>3, <1>d DEF CreateFails
  <2>2. QED BY <1>3, <2>1 DEF CreateFails, ChainInv, ChainLinked, PrevIsLastLine, LineInv
<1>4. ASSUME NEW c \in Calls, StartPends(c) PROVE ChainInv'
  <2>1. DraftInv' BY <1>4, <1>d DEF StartPends
  <2>2. QED BY <1>4, <2>1, ChainUntouched DEF StartPends
<1>5. ASSUME NEW c \in Calls, StartDeadLetters(c) PROVE ChainInv'
  <2>1. DraftInv' BY <1>5, <1>e DEF StartDeadLetters, Resumes
  <2>2. QED BY <1>5, <2>1, ChainUntouched DEF StartDeadLetters
<1>6. ASSUME NEW c \in Calls, EndFinalizes(c) PROVE ChainInv'
  <2>1. DraftInv' BY <1>6, <1>e DEF EndFinalizes, Resumes
  <2>2. QED BY <1>6, <2>1, ChainUntouched DEF EndFinalizes
<1>7. ASSUME NEW c \in Calls, EndThrows(c) PROVE ChainInv'
  <2>1. DraftInv' BY <1>7, <1>d DEF EndThrows
  <2>2. QED BY <1>7, <2>1, ChainUntouched DEF EndThrows
<1>8. ASSUME NEW c \in Calls, EndSkips(c) PROVE ChainInv'
  <2>1. DraftInv' BY <1>8, <1>d DEF EndSkips
  <2>2. QED BY <1>8, <2>1, ChainUntouched DEF EndSkips
<1>9. ASSUME NEW c \in Calls, ErrorDeadLetters(c) PROVE ChainInv'
  <2> DEFINE known == c.run \in pending
  <2>1. known \in BOOLEAN OBVIOUS
  <2>2. session = "live" /\ Enqueue(Job(c, TRUE, known)) /\ UNCHANGED prev
    BY <1>9 DEF ErrorDeadLetters, Resumes
  <2> HIDE DEF known
  <2>3. DraftInv' BY <2>1, <2>2, <1>e
  <2>4. QED BY <1>9, <2>3, ChainUntouched DEF ErrorDeadLetters
<1>10. CASE EmitChains
  <2> DEFINE d == ChainReceipt(Unsigned(queue[1]), prev)
             x == [queue[1] EXCEPT !.draft = d]
  <2>1. prev \in ReceiptType /\ nextId \in Nat \ {0}
    BY <1>10 DEF EmitChains, Begins, TypeInv, SessionInv, TypeOK
  <2>2. queue[1] \in JobType /\ 1 \in 1..Len(queue)
    BY <1>10, <1>q, HeadIsJob DEF EmitChains, Begins
  <2>3. /\ d \in ReceiptType /\ Links(d, prev)
        /\ d.call = queue[1].call /\ d.named = queue[1].named
        /\ d.before = prev.seq /\ d.after \in {prev.seq, prev.seq + 1}
    BY <2>1, <2>2, DraftType
  <2> HIDE DEF d
  <2>4. x \in QueueItem /\ x.draft = d /\ x.call = queue[1].call /\ x.named = queue[1].named
    BY <2>2, <2>3 DEF JobType, QueueItem
  <2>5. queue' = [queue EXCEPT ![1] = x]
    BY <1>10 DEF EmitChains, d
  <2> HIDE DEF x
  <2>6. Len(queue') = Len(queue) /\ \A k \in 1..Len(queue) : queue'[k] = IF k = 1 THEN x ELSE queue[k]
    BY <1>q, <2>2, <2>4, <2>5, ExceptSeq
  <2>7. prev' = prev BY <1>10 DEF EmitChains
  <2>8. ASSUME NEW k \in 1..Len(queue'), ~queue'[k].close, queue'[k].draft # NoReceipt
        PROVE  k = 1
    <3>1. CASE k # 1
      <4>1. queue'[k] = queue[k] /\ k \in 1..Len(queue) BY <2>6, <3>1
      <4>2. QED BY <4>1, <2>8, <1>q DEF DraftInv
    <3>2. QED BY <3>1
  <2>9. queue'[1] = x BY <2>2, <2>6
  <2>10. DraftInv' BY <2>3, <2>4, <2>7, <2>8, <2>9 DEF DraftInv
  <2>11. QED BY <1>10, <2>10, ChainUntouched DEF EmitChains
<1>11. CASE EmitThrows
  <2>1. DraftInv' BY <1>11, <1>q, DraftsAfterTail DEF EmitThrows, Begins
  <2>2. QED BY <1>11, <2>1, ChainUntouched DEF EmitThrows
<1>12. CASE EmitAppends
  <2> DEFINE d == Head(queue).draft
  <2>1. session = "live" BY <1>12 DEF EmitAppends, IsSigning, TypeInv, SessionInv, TypeOK
  <2>2. /\ d \in ReceiptType /\ Links(d, prev)
        /\ d.before = prev.seq /\ d.after \in {prev.seq, prev.seq + 1}
    BY <1>12, <1>q, HeadIsJob DEF EmitAppends, IsSigning, DraftInv
  <2>3. file' = Append(file, d) /\ prev' = d /\ UNCHANGED session
    BY <1>12 DEF EmitAppends
  <2>4. ChainLinked' /\ PrevIsLastLine' /\ LineInv'
    BY <2>1, <2>2, <2>3, AppendExtendsChain DEF ChainInv
  <2>5. DraftInv' BY <1>12, <1>q, DraftsAfterTail DEF EmitAppends, IsSigning
  <2>6. QED BY <2>4, <2>5 DEF ChainInv
<1>13. CASE EmitFails
  <2>1. DraftInv' BY <1>13, <1>q, DraftsAfterTail DEF EmitFails, IsSigning
  <2>2. QED BY <1>13, <2>1, ChainUntouched DEF EmitFails
<1>14. CASE EmitRefused
  <2>1. DraftInv' BY <1>14, <1>q, DraftsAfterTail DEF EmitRefused, IsSigning
  <2>2. QED BY <1>14, <2>1, ChainUntouched DEF EmitRefused
<1>15. CASE CloseWriter
  <2>1. DraftInv' BY <1>15, <1>q, DraftsAfterTail DEF CloseWriter
  <2>2. QED BY <1>15, <2>1, ChainUntouched DEF CloseWriter
<1>16. CASE Close
  <2>1. DraftInv' BY <1>16, <1>q, DraftsAfterAppend DEF Close, CloseMarker, QueueItem
  <2>2. QED BY <1>16, <2>1, ChainUntouched DEF Close
<1>17. CASE UNCHANGED vars
  <2>1. DraftInv' BY <1>17, <1>d DEF vars
  <2>2. QED BY <1>17, <2>1, ChainUntouched DEF vars
<1>18. QED
  BY <1>1, <1>2, <1>3, <1>4, <1>5, <1>6, <1>7, <1>8, <1>9, <1>10, <1>11, <1>12,
     <1>13, <1>14, <1>15, <1>16, <1>17
  DEF Next, Create, Resume, Drain

LEMMA ChainAlways == Spec => []ChainInv
<1>1. TypeInv /\ TypeInv' /\ ChainInv /\ [Next]_vars => ChainInv' BY ChainNext
<1>2. QED BY ChainInit, <1>1, TypeCorrect, PTL DEF Spec, TypeInv

\* The receipt file is one linked chain in every reachable state.
THEOREM FileIsChained == Spec => []ChainLinked
<1>1. ChainInv => ChainLinked BY DEF ChainInv
<1>2. QED BY ChainAlways, <1>1, PTL

\* prevReceipt is always the last line of the file.
THEOREM PrevIsAlwaysLast == Spec => []PrevIsLastLine
<1>1. ChainInv => PrevIsLastLine BY DEF ChainInv
<1>2. QED BY ChainAlways, <1>1, PTL

\* State versions order the receipts they come from.
THEOREM VersionsOrderReceipts == Spec => []VersionsGiveOrder
<1>1. TypeInv /\ ChainInv => VersionsGiveOrder
  <2> SUFFICES ASSUME TypeInv, ChainInv, NEW i \in 2..Len(file), NEW j \in 2..Len(file),
                      file[i].after = file[j].before, i # j
               PROVE  i < j
    BY DEF VersionsGiveOrder
  <2>0. Len(file) \in Nat BY LenProperties DEF TypeInv, TypeOK
  <2>a. LineInv BY DEF ChainInv
  <2>b. /\ i \in 1..Len(file) /\ i > 1 /\ i \in Int
        /\ j \in 1..Len(file) /\ j > 1 /\ j \in Int
    BY ONLY <2>0, i \in 2..Len(file), j \in 2..Len(file)
  <2>1. file[i].after \in {i - 2, i - 1}
    <3>1. i > 1 => file[i].after \in {i - 2, i - 1} BY ONLY <2>a, <2>b DEF LineInv
    <3>2. QED BY ONLY <3>1, <2>b
  <2>2. file[j].before = j - 2
    <3>1. j > 1 => file[j].before = j - 2 BY ONLY <2>a, <2>b DEF LineInv
    <3>2. QED BY ONLY <3>1, <2>b
  <2>4. j - 2 \in {i - 2, i - 1}
    BY ONLY <2>1, <2>2, file[i].after = file[j].before
  <2>5. QED BY ONLY <2>b, <2>4, i # j
<1>2. QED BY ChainAlways, TypeCorrect, <1>1, PTL DEF TypeInv

-----------------------------------------------------------------------------
\* --------------- calls, close() and the audit trail ---------------

\* Every job of the queue belongs to a call that waits for it, and no two to
\* the same call.
QueueInv ==
  /\ \A k \in 1..Len(queue) :
       ~queue[k].close => queue[k].call \in Calls /\ calls[queue[k].call] \in {"queued", "late"}
  /\ \A k, l \in 1..Len(queue) :
       ~queue[k].close /\ ~queue[l].close /\ queue[k].call = queue[l].call => k = l

\* A job queued before the first close() has no close marker before it, and
\* its file is still open.
CloseInv ==
  /\ closes = 0 => \A k \in 1..Len(queue) : ~queue[k].close
  /\ closes = 0 /\ session = "live" => fdOpen
  /\ \A k \in 1..Len(queue) :
       ~queue[k].close /\ calls[queue[k].call] = "queued" =>
         fdOpen /\ \A l \in 1..k : ~queue[l].close

\* The lines behind the manifest are those of the calls that were told so.
WrittenInv ==
  /\ file # <<>> => file[1].call = NoCall
  /\ \A i \in 2..Len(file) : file[i].call \in Calls /\ calls[file[i].call] = "written"
  /\ \A c \in Calls : calls[c] = "written" => \E i \in 2..Len(file) : file[i].call = c
  /\ \A i, j \in 2..Len(file) : file[i].call = file[j].call => i = j

OnceInv == QueueInv /\ CloseInv /\ WrittenInv

-----------------------------------------------------------------------------
\* A call that is not queued and not written may take another such status.
LEMMA OnceAfterSettle ==
  ASSUME TypeInv, OnceInv, NEW c \in Calls, NEW s \in Statuses,
         calls[c] \in {"idle", "waiting"}, s \in Statuses \ {"queued", "late", "written"},
         Settle(c, s), UNCHANGED <<queue, file, fdOpen, closes>>,
         session' = "live" => session = "live"
  PROVE  OnceInv'
<1>1. /\ \A d \in Calls : calls'[d] = IF d = c THEN s ELSE calls[d]
      /\ calls'[c] \notin {"queued", "late", "written"}
  BY DEF Settle, TypeInv, TypeOK
<1>2. QueueInv' BY <1>1 DEF OnceInv, QueueInv
<1>3. CloseInv' BY <1>1 DEF OnceInv, QueueInv, CloseInv
<1>4. WrittenInv' BY <1>1 DEF OnceInv, WrittenInv
<1>5. QED BY <1>2, <1>3, <1>4 DEF OnceInv

\* A waiting call may be queued.
LEMMA OnceAfterEnqueue ==
  ASSUME TypeInv, OnceInv, NEW c \in Calls, NEW dead \in BOOLEAN, NEW named \in BOOLEAN,
         calls[c] = "waiting", session = "live",
         Enqueue(Job(c, dead, named)), Settle(c, Waiting),
         UNCHANGED <<session, file, fdOpen, closes>>
  PROVE  OnceInv'
<1> DEFINE j == Job(c, dead, named)
<1>1. /\ \A d \in Calls : calls'[d] = IF d = c THEN Waiting ELSE calls[d]
      /\ Waiting \in {"queued", "late"} /\ (Waiting = "queued" <=> closes = 0)
  BY DEF Settle, TypeInv, TypeOK, Waiting
<1>2. j \in QueueItem /\ ~j.close /\ j.call = c
  <2>1. j \in JobType BY JobIsJob DEF TypeInv, SessionInv, ReceiptType
  <2>2. QED BY <2>1 DEF Job, QueueItem
<1> HIDE DEF j
<1>3. /\ Len(queue') = Len(queue) + 1 /\ Len(queue) \in Nat
      /\ \A k \in 1..Len(queue) : queue'[k] = queue[k]
      /\ queue'[Len(queue) + 1] = j
  <2>1. queue \in Seq(QueueItem) BY DEF TypeInv, TypeOK, QueueItem
  <2>2. queue' = Append(queue, j) BY DEF Enqueue, j
  <2>3. QED BY <2>1, <2>2, <1>2, AppendProperties, LenProperties
<1>4. \A k \in 1..Len(queue) : ~queue[k].close => queue[k].call # c
  BY DEF OnceInv, QueueInv
<1>5. QueueInv'
  <2>1. ASSUME NEW k \in 1..Len(queue'), ~queue'[k].close
        PROVE  queue'[k].call \in Calls /\ calls'[queue'[k].call] \in {"queued", "late"}
    <3>1. CASE k \in 1..Len(queue) BY <2>1, <3>1, <1>1, <1>3, <1>4 DEF OnceInv, QueueInv
    <3>2. CASE k = Len(queue) + 1 BY <3>2, <1>1, <1>2, <1>3
    <3>3. QED BY <3>1, <3>2, <1>3
  <2>2. ASSUME NEW k \in 1..Len(queue'), NEW l \in 1..Len(queue'),
               ~queue'[k].close, ~queue'[l].close, queue'[k].call = queue'[l].call
        PROVE  k = l
    <3>1. CASE k \in 1..Len(queue) /\ l \in 1..Len(queue)
      BY <2>2, <3>1, <1>3 DEF OnceInv, QueueInv
    <3>2. CASE k \in 1..Len(queue) /\ l = Len(queue) + 1
      BY <2>2, <3>2, <1>2, <1>3, <1>4
    <3>3. CASE k = Len(queue) + 1 /\ l \in 1..Len(queue)
      BY <2>2, <3>3, <1>2, <1>3, <1>4
    <3>4. QED BY <3>1, <3>2, <3>3, <1>3
  <2>3. QED BY <2>1, <2>2 DEF QueueInv
<1>6. CloseInv'
  <2>1. closes' = 0 => \A k \in 1..Len(queue') : ~queue'[k].close
    BY <1>2, <1>3 DEF OnceInv, CloseInv
  <2>2. closes' = 0 /\ session' = "live" => fdOpen'
    BY DEF OnceInv, CloseInv
  <2>3. ASSUME NEW k \in 1..Len(queue'), ~queue'[k].close, calls'[queue'[k].call] = "queued"
        PROVE  fdOpen' /\ \A l \in 1..k : ~queue'[l].close
    <3>1. CASE k \in 1..Len(queue)
      <4>1. queue'[k] = queue[k] /\ queue[k].call \in Calls /\ queue[k].call # c
        BY <2>3, <3>1, <1>3, <1>4 DEF OnceInv, QueueInv
      <4>2. calls[queue[k].call] = "queued" BY <2>3, <4>1, <1>1
      <4>3. fdOpen /\ \A l \in 1..k : ~queue[l].close
        BY <2>3, <3>1, <4>1, <4>2 DEF OnceInv, CloseInv
      <4>4. \A l \in 1..k : queue'[l] = queue[l] BY <3>1, <1>3
      <4>5. QED BY <4>3, <4>4
    <3>2. CASE k = Len(queue) + 1
      <4>1. closes = 0 BY <2>3, <3>2, <1>1, <1>2, <1>3
      <4>2. fdOpen' BY <4>1 DEF OnceInv, CloseInv
      <4>3. \A l \in 1..k : ~queue'[l].close BY <3>2, <4>1, <2>1, <1>3
      <4>4. QED BY <4>2, <4>3
    <3>3. QED BY <3>1, <3>2, <1>3
  <2>4. QED BY <2>1, <2>2, <2>3 DEF CloseInv
<1>7. WrittenInv' BY <1>1 DEF OnceInv, WrittenInv
<1>8. QED BY <1>5, <1>6, <1>7 DEF OnceInv

\* The tail of the queue has what QueueInv and CloseInv ask, whatever happens
\* to the call of the head.
LEMMA OnceAfterTail ==
  ASSUME TypeInv, OnceInv, queue # <<>>, queue' = Tail(queue),
         UNCHANGED <<session, closes>>,
         fdOpen' = fdOpen \/ Head(queue).close,
         \A d \in Calls : (~Head(queue).close /\ d = Head(queue).call) \/ calls'[d] = calls[d]
  PROVE  QueueInv' /\ CloseInv'
<1>1. queue \in Seq(QueueItem) BY DEF TypeInv, TypeOK, QueueItem
<1>2. /\ Len(queue') = Len(queue) - 1 /\ Len(queue) \in Nat \ {0}
      /\ \A k \in 1..Len(queue') : k + 1 \in 2..Len(queue) /\ queue'[k] = queue[k + 1]
      /\ Head(queue) = queue[1]
  BY <1>1, HeadTailProperties, LenProperties, EmptySeq
<1>3. ASSUME NEW k \in 1..Len(queue'), ~queue'[k].close
      PROVE  /\ queue'[k].call \in Calls
             /\ calls'[queue'[k].call] = calls[queue[k + 1].call]
             /\ calls'[queue'[k].call] \in {"queued", "late"}
  BY <1>2, <1>3 DEF OnceInv, QueueInv
<1>4. QueueInv'
  <2>1. ASSUME NEW k \in 1..Len(queue'), NEW l \in 1..Len(queue'),
               ~queue'[k].close, ~queue'[l].close, queue'[k].call = queue'[l].call
        PROVE  k = l
    BY <2>1, <1>2 DEF OnceInv, QueueInv
  <2>2. QED BY <2>1, <1>3 DEF QueueInv
<1>5. CloseInv'
  <2>1. closes' = 0 => (\A k \in 1..Len(queue') : ~queue'[k].close) /\ ~Head(queue).close
    BY <1>2 DEF OnceInv, CloseInv
  <2>2. closes' = 0 /\ session' = "live" => fdOpen'
    BY <2>1 DEF OnceInv, CloseInv
  <2>3. ASSUME NEW k \in 1..Len(queue'), ~queue'[k].close, calls'[queue'[k].call] = "queued"
        PROVE  fdOpen' /\ \A l \in 1..k : ~queue'[l].close
    <3>1. fdOpen /\ \A l \in 1..(k + 1) : ~queue[l].close
      BY <2>3, <1>2, <1>3 DEF OnceInv, CloseInv
    <3>2. ~Head(queue).close BY <3>1, <1>2
    <3>3. \A l \in 1..k : l + 1 \in 1..(k + 1) /\ queue'[l] = queue[l + 1] BY <1>2
    <3>4. QED BY <3>1, <3>2, <3>3
  <2>4. QED BY <2>1, <2>2, <2>3 DEF CloseInv
<1>6. QED BY <1>4, <1>5

-----------------------------------------------------------------------------
LEMMA OnceInit == Init => OnceInv
<1> SUFFICES ASSUME Init PROVE OnceInv OBVIOUS
<1>1. QueueInv BY EmptySeq DEF Init, QueueInv
<1>2. CloseInv BY EmptySeq DEF Init, CloseInv
<1>3. WrittenInv BY EmptySeq DEF Init, WrittenInv
<1>4. QED BY <1>1, <1>2, <1>3 DEF OnceInv

\* A line is appended for the call that is told so.
LEMMA WrittenAfterAppend ==
  ASSUME TypeInv, OnceInv, NEW c \in Calls, calls[c] \in {"queued", "late"},
         NEW d \in ReceiptType, d.call = c, file # <<>>,
         file' = Append(file, d), Settle(c, "written")
  PROVE  WrittenInv'
<1>1. /\ Len(file') = Len(file) + 1 /\ Len(file) \in Nat \ {0}
      /\ \A i \in 1..Len(file) : file'[i] = file[i]
      /\ file'[Len(file) + 1] = d
      /\ file' # <<>>
  BY AppendProperties, EmptySeq DEF TypeInv, TypeOK
<1>2. \A e \in Calls : calls'[e] = IF e = c THEN "written" ELSE calls[e]
  BY DEF Settle, TypeInv, TypeOK
<1>3. \A i \in 2..Len(file) : file[i].call # c
  BY DEF OnceInv, WrittenInv
<1>4. file'[1].call = NoCall BY <1>1 DEF OnceInv, WrittenInv
<1>5. \A i \in 2..Len(file') : file'[i].call \in Calls /\ calls'[file'[i].call] = "written"
  BY <1>1, <1>2 DEF OnceInv, WrittenInv
<1>6. ASSUME NEW e \in Calls, calls'[e] = "written"
      PROVE  \E i \in 2..Len(file') : file'[i].call = e
  <2>1. CASE e = c
    <3>1. Len(file) + 1 \in 2..Len(file') /\ file'[Len(file) + 1].call = e BY <2>1, <1>1
    <3>2. QED BY <3>1
  <2>2. CASE e # c
    <3>1. PICK i \in 2..Len(file) : file[i].call = e
      BY <2>2, <1>2, <1>6 DEF OnceInv, WrittenInv
    <3>2. i \in 2..Len(file') /\ file'[i].call = e BY <3>1, <1>1
    <3>3. QED BY <3>2
  <2>3. QED BY <2>1, <2>2
<1>7. \A i, j \in 2..Len(file') : file'[i].call = file'[j].call => i = j
  <2> SUFFICES ASSUME NEW i \in 2..Len(file'), NEW j \in 2..Len(file'),
                      file'[i].call = file'[j].call
               PROVE  i = j
    OBVIOUS
  <2>1. CASE i \in 2..Len(file) /\ j \in 2..Len(file)
    BY <2>1, <1>1 DEF OnceInv, WrittenInv
  <2>2. CASE i = Len(file) + 1 /\ j \in 2..Len(file) BY <2>2, <1>1, <1>3
  <2>3. CASE i \in 2..Len(file) /\ j = Len(file) + 1 BY <2>3, <1>1, <1>3
  <2>4. QED BY <2>1, <2>2, <2>3, <1>1
<1>8. QED BY <1>4, <1>5, <1>6, <1>7 DEF WrittenInv

\* A job's call that fails was not written and is not now.
LEMMA WrittenAfterFailure ==
  ASSUME TypeInv, OnceInv, NEW c \in Calls, calls[c] \in {"queued", "late"},
         NEW s \in {"rejected", "badfd"}, Settle(c, s), UNCHANGED file
  PROVE  WrittenInv'
<1>1. \A e \in Calls : calls'[e] = IF e = c THEN s ELSE calls[e]
  BY DEF Settle, TypeInv, TypeOK
<1>2. QED BY <1>1 DEF OnceInv, WrittenInv

\* The head of the queue, as the steps of the queue find it.
LEMMA HeadCall ==
  ASSUME TypeInv, OnceInv, queue # <<>>, ~Head(queue).close
  PROVE  /\ Head(queue).call \in Calls
         /\ calls[Head(queue).call] \in {"queued", "late"}
         /\ fdOpen \/ calls[Head(queue).call] = "late"
         /\ session = "live"
<1>1. queue \in Seq(QueueItem) BY DEF TypeInv, TypeOK, QueueItem
<1>2. Head(queue) = queue[1] /\ 1 \in 1..Len(queue) BY <1>1, HeadIsJob
<1>3. QED BY <1>2 DEF OnceInv, QueueInv, CloseInv, TypeInv, SessionInv

\* What a failure of the head does to the invariant.
LEMMA OnceAfterFailure ==
  ASSUME TypeInv, OnceInv, queue # <<>>, ~Head(queue).close, queue' = Tail(queue),
         NEW s \in {"rejected", "badfd"}, Settle(Head(queue).call, s),
         UNCHANGED <<session, file, fdOpen, closes>>
  PROVE  OnceInv'
<1>1. Head(queue).call \in Calls /\ calls[Head(queue).call] \in {"queued", "late"}
  BY HeadCall
<1>2. \A d \in Calls : d = Head(queue).call \/ calls'[d] = calls[d]
  BY DEF Settle, TypeInv, TypeOK
<1>3. QueueInv' /\ CloseInv' BY <1>2, OnceAfterTail
<1>4. WrittenInv' BY <1>1, WrittenAfterFailure
<1>5. QED BY <1>3, <1>4 DEF OnceInv

LEMMA OnceNext == TypeInv /\ TypeInv' /\ ChainInv /\ OnceInv /\ [Next]_vars => OnceInv'
<1> SUFFICES ASSUME TypeInv, TypeInv', ChainInv, OnceInv, [Next]_vars PROVE OnceInv' OBVIOUS
<1>q. queue \in Seq(QueueItem)
  BY DEF TypeInv, TypeOK, QueueItem
<1>1. ASSUME NEW c \in Calls, Call(c) PROVE OnceInv'
  BY <1>1, OnceAfterSettle DEF Call, CallAllowed, Statuses, Unsettled
<1>2. CASE CreateSucceeds
  <2>1. file = <<>> /\ queue = <<>> BY <1>2 DEF CreateSucceeds, TypeInv, SessionInv
  <2>2. Len(file') = 1 /\ file'[1].call = NoCall
    <3>1. file' = <<Manifest(nextId)>> BY <1>2, <2>1 DEF CreateSucceeds
    <3>2. QED BY <3>1 DEF Manifest
  <2>3. \A c \in Calls : calls[c] # "written" BY <2>1, EmptySeq DEF OnceInv, WrittenInv
  <2>4. QueueInv' /\ CloseInv'
    BY <1>2, <2>1, EmptySeq DEF CreateSucceeds, QueueInv, CloseInv
  <2>5. WrittenInv' BY <1>2, <2>2, <2>3 DEF CreateSucceeds, WrittenInv
  <2>6. QED BY <2>4, <2>5 DEF OnceInv
<1>3. CASE CreateFails
  <2>1. file = <<>> /\ queue = <<>> BY <1>3 DEF CreateFails, TypeInv, SessionInv
  <2>2. \A c \in Calls : calls[c] # "written" /\ calls'[c] # "written"
    BY <1>3, <2>1, EmptySeq DEF CreateFails, OnceInv, WrittenInv
  <2>3. QueueInv' /\ CloseInv'
    BY <1>3, <2>1, EmptySeq DEF CreateFails, QueueInv, CloseInv
  <2>4. WrittenInv' BY <1>3, <2>1, <2>2, EmptySeq DEF CreateFails, WrittenInv
  <2>5. QED BY <2>3, <2>4 DEF OnceInv
<1>4. ASSUME NEW c \in Calls, StartPends(c) PROVE OnceInv'
  BY <1>4, OnceAfterSettle DEF StartPends, Resumes, Statuses, Settled
<1>5. ASSUME NEW c \in Calls, StartDeadLetters(c) PROVE OnceInv'
  BY <1>5, OnceAfterEnqueue DEF StartDeadLetters, Resumes
<1>6. ASSUME NEW c \in Calls, EndFinalizes(c) PROVE OnceInv'
  BY <1>6, OnceAfterEnqueue DEF EndFinalizes, Resumes
<1>7. ASSUME NEW c \in Calls, EndThrows(c) PROVE OnceInv'
  BY <1>7, OnceAfterSettle DEF EndThrows, Resumes, Statuses, Settled
<1>8. ASSUME NEW c \in Calls, EndSkips(c) PROVE OnceInv'
  BY <1>8, OnceAfterSettle DEF EndSkips, Resumes, Statuses, Settled
<1>9. ASSUME NEW c \in Calls, ErrorDeadLetters(c) PROVE OnceInv'
  <2> DEFINE known == c.run \in pending
  <2>1. known \in BOOLEAN OBVIOUS
  <2>2. /\ session = "live" /\ calls[c] = "waiting"
        /\ Enqueue(Job(c, TRUE, known)) /\ Settle(c, Waiting)
        /\ UNCHANGED <<session, file, fdOpen, closes>>
    BY <1>9 DEF ErrorDeadLetters, Resumes
  <2> HIDE DEF known
  <2>3. QED BY <2>1, <2>2, OnceAfterEnqueue
<1>10. CASE EmitChains
  <2> DEFINE x == [queue[1] EXCEPT !.draft = ChainReceipt(Unsigned(queue[1]), prev)]
  <2>1. queue[1] \in JobType /\ 1 \in 1..Len(queue)
    BY <1>10, <1>q, HeadIsJob DEF EmitChains, Begins
  <2>2. prev \in ReceiptType /\ nextId \in Nat \ {0}
    BY <1>10 DEF EmitChains, Begins, TypeInv, SessionInv, TypeOK
  <2>3. ChainReceipt(Unsigned(queue[1]), prev) \in ReceiptType BY <2>1, <2>2, DraftType
  <2>4. x \in QueueItem /\ x.close = queue[1].close /\ x.call = queue[1].call
    BY <2>1, <2>3 DEF JobType, QueueItem
  <2>5. queue' = [queue EXCEPT ![1] = x] BY <1>10 DEF EmitChains
  <2> HIDE DEF x
  <2>6. /\ Len(queue') = Len(queue)
        /\ \A k \in 1..Len(queue) : queue'[k] = IF k = 1 THEN x ELSE queue[k]
    BY <1>q, <2>1, <2>4, <2>5, ExceptSeq
  <2>7. \A k \in 1..Len(queue) : queue'[k].close = queue[k].close /\ queue'[k].call = queue[k].call
    BY <2>4, <2>6
  <2>8. UNCHANGED <<calls, session, file, fdOpen, closes>> BY <1>10 DEF EmitChains
  <2>9. Len(queue) \in Nat BY <1>q, LenProperties
  <2>10. QueueInv' BY <2>6, <2>7, <2>8, <2>9 DEF OnceInv, QueueInv
  <2>11. CloseInv' BY <2>6, <2>7, <2>8, <2>9 DEF OnceInv, QueueInv, CloseInv
  <2>12. WrittenInv' BY <2>8 DEF OnceInv, WrittenInv
  <2>13. QED BY <2>10, <2>11, <2>12 DEF OnceInv
<1>11. CASE EmitThrows
  BY <1>11, OnceAfterFailure DEF EmitThrows, Begins
<1>12. CASE EmitAppends
  <2>1. queue # <<>> /\ ~Head(queue).close BY <1>12 DEF EmitAppends, IsSigning
  <2>2. /\ Head(queue).call \in Calls /\ calls[Head(queue).call] \in {"queued", "late"}
        /\ session = "live"
    BY <2>1, HeadCall
  <2>3. /\ Head(queue).draft \in ReceiptType
        /\ Head(queue).draft.call = Head(queue).call
    BY <1>12, <1>q, HeadIsJob DEF EmitAppends, IsSigning, ChainInv, DraftInv
  <2>4. \A d \in Calls : d = Head(queue).call \/ calls'[d] = calls[d]
    BY <1>12 DEF EmitAppends, Settle, TypeInv, TypeOK
  <2>5. QueueInv' /\ CloseInv' BY <1>12, <2>1, <2>4, OnceAfterTail DEF EmitAppends
  <2>6. file # <<>> BY <2>2 DEF ChainInv, PrevIsLastLine
  <2>7. WrittenInv' BY <1>12, <2>2, <2>3, <2>6, WrittenAfterAppend DEF EmitAppends
  <2>8. QED BY <2>5, <2>7 DEF OnceInv
<1>13. CASE EmitFails
  BY <1>13, OnceAfterFailure DEF EmitFails, IsSigning
<1>14. CASE EmitRefused
  BY <1>14, OnceAfterFailure DEF EmitRefused, IsSigning
<1>15. CASE CloseWriter
  <2>1. QueueInv' /\ CloseInv' BY <1>15, OnceAfterTail DEF CloseWriter
  <2>2. WrittenInv' BY <1>15 DEF CloseWriter, OnceInv, WrittenInv
  <2>3. QED BY <2>1, <2>2 DEF OnceInv
<1>16. CASE Close
  <2>1. /\ Len(queue') = Len(queue) + 1 /\ Len(queue) \in Nat
        /\ \A k \in 1..Len(queue) : queue'[k] = queue[k]
        /\ queue'[Len(queue) + 1] = CloseMarker /\ CloseMarker.close
    BY <1>16, <1>q, AppendProperties, LenProperties DEF Close, CloseMarker, QueueItem
  <2>2. UNCHANGED <<calls, session, file, fdOpen>> /\ closes' # 0
    BY <1>16 DEF Close, TypeInv, TypeOK
  <2>3. QueueInv' BY <2>1, <2>2 DEF OnceInv, QueueInv
  <2>4. CloseInv' BY <2>1, <2>2 DEF OnceInv, QueueInv, CloseInv
  <2>5. WrittenInv' BY <2>2 DEF OnceInv, WrittenInv
  <2>6. QED BY <2>3, <2>4, <2>5 DEF OnceInv
<1>17. CASE UNCHANGED vars
  BY <1>17 DEF vars, OnceInv, QueueInv, CloseInv, WrittenInv
<1>18. QED
  BY <1>1, <1>2, <1>3, <1>4, <1>5, <1>6, <1>7, <1>8, <1>9, <1>10, <1>11, <1>12,
     <1>13, <1>14, <1>15, <1>16, <1>17
  DEF Next, Create, Resume, Drain

LEMMA OnceAlways == Spec => []OnceInv
<1>1. TypeInv /\ TypeInv' /\ ChainInv /\ OnceInv /\ [Next]_vars => OnceInv' BY OnceNext
<1>2. QED BY OnceInit, <1>1, TypeCorrect, ChainAlways, PTL DEF Spec, TypeInv

\* A call is told that it was written exactly when the file has its line, and
\* has no second one.
THEOREM WrittenOnce == Spec => []WrittenExactlyOnce
<1>1. TypeInv /\ OnceInv => WrittenExactlyOnce
  <2> SUFFICES ASSUME TypeInv, OnceInv PROVE WrittenExactlyOnce OBVIOUS
  <2>0. Len(file) \in Nat /\ (file # <<>> \/ Len(file) = 0)
    BY LenProperties, EmptySeq DEF TypeInv, TypeOK
  <2>1. NoCall \notin Calls BY DEF NoCall, Calls, Events
  <2>2. \A i \in 1..Len(file) : (i = 1 /\ file[i].call = NoCall) \/ i \in 2..Len(file)
    BY <2>0 DEF OnceInv, WrittenInv
  <2>3. ASSUME NEW c \in Calls
        PROVE  calls[c] = "written" <=> \E i \in 1..Len(file) : file[i].call = c
    BY <2>0, <2>1, <2>2 DEF OnceInv, WrittenInv
  <2>4. ASSUME NEW i \in 1..Len(file), NEW j \in 1..Len(file), file[i].call = file[j].call
        PROVE  i = j
    BY <2>1, <2>2, <2>4 DEF OnceInv, WrittenInv
  <2>5. QED BY <2>3, <2>4 DEF WrittenExactlyOnce
<1>2. QED BY OnceAlways, TypeCorrect, <1>1, PTL DEF TypeInv

\* close() refuses no call that was queued before it.
THEOREM CloseKeepsQueued == Spec => CloseLosesNothingQueued
<1>1. TypeInv /\ OnceInv /\ [Next]_vars
        => [\A c \in Calls : calls[c] = "queued" => calls'[c] # "badfd"]_vars
  <2> SUFFICES ASSUME TypeInv, OnceInv, Next, NEW c \in Calls, calls[c] = "queued"
               PROVE  calls'[c] # "badfd"
    OBVIOUS
  <2>1. CASE EmitRefused
    <3>1. queue # <<>> /\ ~Head(queue).close /\ ~fdOpen BY <2>1 DEF EmitRefused, IsSigning
    <3>2. calls[Head(queue).call] = "late" BY <3>1, HeadCall
    <3>3. QED BY <2>1, <3>2 DEF EmitRefused, Settle, TypeInv, TypeOK
  <2>2. CASE ~EmitRefused
    BY <2>2 DEF Next, Create, Resume, Drain, Call, CreateSucceeds, CreateFails, StartPends,
       StartDeadLetters, EndFinalizes, EndThrows, EndSkips, ErrorDeadLetters, EmitChains,
       EmitThrows, EmitAppends, EmitFails, CloseWriter, Close, Settle, Waiting, TypeInv, TypeOK
  <2>3. QED BY <2>1, <2>2
<1>2. QED BY OnceAlways, TypeCorrect, <1>1, PTL DEF Spec, TypeInv, CloseLosesNothingQueued

\* A failure costs the callers of the creation that failed, or one call.
THEOREM FailuresAreLocal == Spec => FailuresStayLocal
<1> DEFINE Local ==
      \A c \in Calls : calls[c] # "rejected" /\ calls'[c] = "rejected" =>
        /\ faults' = faults + 1
        /\ \/ session = "creating" /\ calls[c] = "waiting"
           \/ \A d \in Calls \ {c} : calls'[d] = calls[d]
<1>1. TypeOK /\ [Next]_vars => [Local]_vars
  <2> SUFFICES ASSUME TypeOK, Next, NEW c \in Calls, calls[c] # "rejected", calls'[c] = "rejected"
               PROVE  /\ faults' = faults + 1
                      /\ \/ session = "creating" /\ calls[c] = "waiting"
                         \/ \A d \in Calls \ {c} : calls'[d] = calls[d]
    OBVIOUS
  <2>1. CASE CreateFails
    BY <2>1 DEF CreateFails, Fault
  \* A call that is rejected by itself: nobody else is settled in that step.
  <2>2. CASE \E e \in Calls : Fault /\ Settle(e, "rejected")
    BY <2>2 DEF Settle, Fault, TypeOK
  <2>3. CASE (\E e \in Calls : EndThrows(e)) \/ EmitThrows \/ EmitFails
    <3>1. CASE \E e \in Calls : EndThrows(e)
      BY <3>1, <2>2 DEF EndThrows
    <3>2. ASSUME EmitThrows \/ EmitFails
          PROVE  Fault /\ Settle(Head(queue).call, "rejected") /\ queue # <<>> /\ ~Head(queue).close
      BY <3>2 DEF EmitThrows, EmitFails, Begins, IsSigning
    <3>3. CASE EmitThrows \/ EmitFails
      <4>1. queue \in Seq(QueueItem) BY DEF TypeOK, QueueItem
      <4>2. Head(queue).call \in Calls BY <3>2, <3>3, <4>1, HeadIsJob
      <4>3. QED BY <3>2, <3>3, <4>2, <2>2
    <3>4. QED BY <2>3, <3>1, <3>3
  <2>4. CASE ~(CreateFails \/ (\E e \in Calls : EndThrows(e)) \/ EmitThrows \/ EmitFails)
    BY <2>4 DEF Next, Create, Resume, Drain, Call, CreateSucceeds, StartPends, StartDeadLetters,
       EndFinalizes, EndSkips, ErrorDeadLetters, EmitChains, EmitAppends, EmitRefused, CloseWriter,
       Close, Settle, Waiting, TypeOK
  <2>5. QED BY <2>1, <2>3, <2>4
<1>2. QED BY TypeCorrect, <1>1, PTL DEF Spec, FailuresStayLocal

-----------------------------------------------------------------------------
(***************************************************************************)
(* Attestation.  A run is in one of three places at most: pending, in the  *)
(* queue under its own name, or in the file under its own name.  It cannot *)
(* be made pending again once it left, because its starts are settled      *)
(* before its end or error is delivered.                                   *)
(***************************************************************************)
OrderInv ==
  \A c, d \in Calls :
    c.event # "start" /\ calls[c] # "idle" /\ d.run = c.run /\ d.event = "start"
      => calls[d] \in Settled

NamedJob(j)  == ~j.close /\ j.named /\ j.call.event # "start"
NamedLine(r) == r.named /\ r.call.event # "start"

PlaceInv ==
  /\ \A k \in 1..Len(queue) : NamedJob(queue[k]) => queue[k].call.run \notin pending
  /\ \A i \in 2..Len(file) : NamedLine(file[i]) => file[i].call.run \notin pending
  /\ \A k, l \in 1..Len(queue) :
       NamedJob(queue[k]) /\ NamedJob(queue[l]) /\ queue[k].call.run = queue[l].call.run => k = l
  /\ \A i, j \in 2..Len(file) :
       NamedLine(file[i]) /\ NamedLine(file[j]) /\ file[i].call.run = file[j].call.run => i = j
  /\ \A k \in 1..Len(queue), i \in 2..Len(file) :
       NamedJob(queue[k]) /\ NamedLine(file[i]) => queue[k].call.run # file[i].call.run

\* Settled calls stay as they are and only a call that is made stops being idle.
LEMMA OrderNext == TypeInv /\ OnceInv /\ OrderInv /\ [Next]_vars => OrderInv'
<1> SUFFICES ASSUME TypeInv, OnceInv, OrderInv, [Next]_vars PROVE OrderInv' OBVIOUS
<1>t. calls \in [Calls -> Statuses] BY DEF TypeInv, TypeOK
<1>1. ASSUME NEW c \in Calls, NEW s \in Statuses, calls[c] \in Unsettled, s # "idle",
             Settle(c, s)
      PROVE  OrderInv'
  <2>1. \A d \in Calls : /\ calls'[d] = IF d = c THEN s ELSE calls[d]
                         /\ calls[d] \in Settled => calls'[d] = calls[d]
                         /\ calls[d] = "idle" => calls'[d] = "idle"
    BY <1>1, <1>t DEF Settle, Settled, Unsettled
  <2>2. ASSUME NEW d \in Calls, calls'[d] # "idle" PROVE calls[d] # "idle" BY <2>1, <2>2
  <2>3. QED BY <2>1, <2>2 DEF OrderInv
<1>2. ASSUME NEW c \in Calls, Call(c) PROVE OrderInv'
  <2>1. /\ calls[c] = "idle"
        /\ \A d \in Calls : calls'[d] = IF d = c THEN "waiting" ELSE calls[d]
    BY <1>2, <1>t DEF Call, CallAllowed, Settle
  <2>2. SUFFICES ASSUME NEW a \in Calls, NEW b \in Calls, a.event # "start",
                        calls'[a] # "idle", b.run = a.run, b.event = "start"
                 PROVE  calls'[b] \in Settled
    BY DEF OrderInv
  <2>3. CASE a = c
    <3>1. calls[b] \in Settled BY <1>2, <2>2, <2>3 DEF Call, CallAllowed
    <3>2. QED BY <3>1, <2>1 DEF Settled
  <2>4. CASE a # c
    <3>1. calls[b] \in Settled BY <2>1, <2>2, <2>4 DEF OrderInv
    <3>2. QED BY <3>1, <2>1 DEF Settled
  <2>5. QED BY <2>3, <2>4
<1>3. CASE CreateFails
  <2>1. \A d \in Calls : /\ calls[d] \in Settled => calls'[d] = calls[d]
                         /\ calls[d] = "idle" <=> calls'[d] = "idle"
    BY <1>3, <1>t DEF CreateFails, Settled
  <2>2. QED BY <2>1 DEF OrderInv
<1>4. ASSUME NEW c \in Calls, Resume(c) PROVE OrderInv'
  <2>1. calls[c] \in Unsettled
    BY <1>4 DEF Resume, StartPends, StartDeadLetters, EndFinalizes, EndThrows, EndSkips,
                ErrorDeadLetters, Resumes, Unsettled
  <2>2. \E s \in Statuses \ {"idle"} : Settle(c, s)
    <3>1. {"pended", "skipped", "rejected", Waiting} \subseteq Statuses \ {"idle"}
      BY DEF Statuses, Settled, Unsettled, Waiting
    <3>2. Settle(c, "pended") \/ Settle(c, "skipped") \/ Settle(c, "rejected") \/ Settle(c, Waiting)
      BY <1>4 DEF Resume, StartPends, StartDeadLetters, EndFinalizes, EndThrows, EndSkips,
                  ErrorDeadLetters
    <3>3. QED BY <3>1, <3>2
  <2>3. QED BY <2>1, <2>2, <1>1
<1>5. ASSUME EmitThrows \/ EmitAppends \/ EmitFails \/ EmitRefused PROVE OrderInv'
  <2>1. queue # <<>> /\ ~Head(queue).close
    BY <1>5 DEF EmitThrows, EmitAppends, EmitFails, EmitRefused, Begins, IsSigning
  <2>2. Head(queue).call \in Calls /\ calls[Head(queue).call] \in Unsettled
    BY <2>1, HeadCall DEF Unsettled
  <2>3. \E s \in {"rejected", "written", "badfd"} : Settle(Head(queue).call, s)
    BY <1>5 DEF EmitThrows, EmitAppends, EmitFails, EmitRefused
  <2>4. {"rejected", "written", "badfd"} \subseteq Statuses \ {"idle"}
    BY DEF Statuses, Settled, Unsettled
  <2>5. QED BY <2>2, <2>3, <2>4, <1>1
<1>6. CASE UNCHANGED calls
  BY <1>6 DEF OrderInv
<1>7. CreateSucceeds \/ EmitChains \/ CloseWriter \/ Close \/ UNCHANGED vars => UNCHANGED calls
  BY DEF CreateSucceeds, EmitChains, CloseWriter, Close, vars
<1>8. QED BY <1>2, <1>3, <1>4, <1>5, <1>6, <1>7 DEF Next, Create, Drain

\* Queueing a job for a run that was pending moves the run; queueing an unnamed
\* job, or one for a malformed start, moves nothing.
LEMMA PlaceAfterEnqueue ==
  ASSUME TypeInv, PlaceInv, NEW c \in Calls, NEW dead \in BOOLEAN, NEW named \in BOOLEAN,
         session = "live", Enqueue(Job(c, dead, named)), UNCHANGED file,
         \/ named /\ c.run \in pending /\ pending' = pending \ {c.run}
         \/ (~named \/ c.event = "start") /\ pending' \subseteq pending
  PROVE  PlaceInv'
<1> DEFINE j == Job(c, dead, named)
<1>1. j \in QueueItem /\ ~j.close /\ j.call = c /\ j.named = named
  <2>1. j \in JobType BY JobIsJob DEF TypeInv, SessionInv, ReceiptType
  <2>2. QED BY <2>1 DEF Job, QueueItem
<1>2. queue \in Seq(QueueItem) /\ queue' = Append(queue, j)
  BY DEF TypeInv, TypeOK, QueueItem, Enqueue
<1> HIDE DEF j
<1>3. /\ Len(queue') = Len(queue) + 1 /\ Len(queue) \in Nat
      /\ \A k \in 1..Len(queue) : queue'[k] = queue[k]
      /\ queue'[Len(queue) + 1] = j
  BY <1>1, <1>2, AppendProperties, LenProperties
<1>4. pending' \subseteq pending OBVIOUS
<1>5. \A k \in 1..Len(queue) : NamedJob(queue'[k]) <=> NamedJob(queue[k]) BY <1>3 DEF NamedJob
<1>6. \A i : NamedLine(file'[i]) <=> NamedLine(file[i]) BY DEF NamedLine
<1>7. ASSUME NamedJob(queue'[Len(queue) + 1])
      PROVE  c.run \in pending /\ c.run \notin pending'
  BY <1>7, <1>1, <1>3 DEF NamedJob
<1>8. \A k \in 1..Len(queue') : NamedJob(queue'[k]) => queue'[k].call.run \notin pending'
  <2> SUFFICES ASSUME NEW k \in 1..Len(queue'), NamedJob(queue'[k])
               PROVE  queue'[k].call.run \notin pending'
    OBVIOUS
  <2>1. CASE k \in 1..Len(queue) BY <2>1, <1>3, <1>4, <1>5 DEF PlaceInv
  <2>2. CASE k = Len(queue) + 1 BY <2>2, <1>1, <1>3, <1>7
  <2>3. QED BY <2>1, <2>2, <1>3
<1>9. \A k, l \in 1..Len(queue') :
        NamedJob(queue'[k]) /\ NamedJob(queue'[l]) /\ queue'[k].call.run = queue'[l].call.run => k = l
  <2> SUFFICES ASSUME NEW k \in 1..Len(queue'), NEW l \in 1..Len(queue'), NamedJob(queue'[k]),
                      NamedJob(queue'[l]), queue'[k].call.run = queue'[l].call.run
               PROVE  k = l
    OBVIOUS
  <2>1. CASE k \in 1..Len(queue) /\ l \in 1..Len(queue) BY <2>1, <1>3, <1>5 DEF PlaceInv
  <2>2. CASE k \in 1..Len(queue) /\ l = Len(queue) + 1
    BY <2>2, <1>1, <1>3, <1>5, <1>7 DEF PlaceInv
  <2>3. CASE l \in 1..Len(queue) /\ k = Len(queue) + 1
    BY <2>3, <1>1, <1>3, <1>5, <1>7 DEF PlaceInv
  <2>4. QED BY <2>1, <2>2, <2>3, <1>3
<1>10. \A k \in 1..Len(queue'), i \in 2..Len(file') :
         NamedJob(queue'[k]) /\ NamedLine(file'[i]) => queue'[k].call.run # file'[i].call.run
  <2> SUFFICES ASSUME NEW k \in 1..Len(queue'), NEW i \in 2..Len(file'),
                      NamedJob(queue'[k]), NamedLine(file'[i])
               PROVE  queue'[k].call.run # file'[i].call.run
    OBVIOUS
  <2>1. CASE k \in 1..Len(queue) BY <2>1, <1>3, <1>5, <1>6 DEF PlaceInv
  <2>2. CASE k = Len(queue) + 1 BY <2>2, <1>1, <1>3, <1>6, <1>7 DEF PlaceInv
  <2>3. QED BY <2>1, <2>2, <1>3
<1>11. QED BY <1>4, <1>6, <1>8, <1>9, <1>10 DEF PlaceInv

\* Without its head the queue keeps its places.
LEMMA PlaceAfterTail ==
  ASSUME TypeInv, PlaceInv, queue # <<>>, queue' = Tail(queue), UNCHANGED <<pending, file>>
  PROVE  PlaceInv'
<1>1. /\ Len(queue') = Len(queue) - 1 /\ Len(queue) \in Nat
      /\ \A k \in 1..Len(queue') : k + 1 \in 1..Len(queue) /\ queue'[k] = queue[k + 1]
  BY HeadTailProperties, LenProperties DEF TypeInv, TypeOK, QueueItem
<1>2. \A k \in 1..Len(queue') : NamedJob(queue'[k]) <=> NamedJob(queue[k + 1]) BY ONLY <1>1 DEF NamedJob
<1>3. file' = file /\ pending' = pending OBVIOUS
<1>4. \A k \in 1..Len(queue') : NamedJob(queue'[k]) => queue'[k].call.run \notin pending'
  BY <1>1, <1>2, <1>3 DEF PlaceInv
<1>5. /\ \A i \in 2..Len(file') : NamedLine(file'[i]) => file'[i].call.run \notin pending'
      /\ \A i, j \in 2..Len(file') :
           NamedLine(file'[i]) /\ NamedLine(file'[j]) /\ file'[i].call.run = file'[j].call.run => i = j
  BY <1>3 DEF PlaceInv
<1>6. \A k, l \in 1..Len(queue') :
         NamedJob(queue'[k]) /\ NamedJob(queue'[l]) /\ queue'[k].call.run = queue'[l].call.run => k = l
  <2> SUFFICES ASSUME NEW k \in 1..Len(queue'), NEW l \in 1..Len(queue'),
                      NamedJob(queue'[k]), NamedJob(queue'[l]), queue'[k].call.run = queue'[l].call.run
               PROVE  k = l
    OBVIOUS
  <2>1. k + 1 = l + 1 BY <1>1, <1>2 DEF PlaceInv
  <2>2. QED BY <2>1
<1>7. \A k \in 1..Len(queue'), i \in 2..Len(file') :
         NamedJob(queue'[k]) /\ NamedLine(file'[i]) => queue'[k].call.run # file'[i].call.run
  BY <1>1, <1>2, <1>3 DEF PlaceInv
<1>8. QED BY <1>4, <1>5, <1>6, <1>7 DEF PlaceInv

\* Writing the head moves its run from the queue to the file.
LEMMA PlaceAfterAppend ==
  ASSUME TypeInv, PlaceInv, ChainInv, EmitAppends
  PROVE  PlaceInv'
<1> DEFINE d == Head(queue).draft
<1>1. queue \in Seq(QueueItem) BY DEF TypeInv, TypeOK, QueueItem
<1>2. /\ d \in ReceiptType /\ d.call = queue[1].call /\ d.named = queue[1].named
      /\ ~queue[1].close /\ 1 \in 1..Len(queue)
  BY <1>1, HeadIsJob DEF EmitAppends, IsSigning, ChainInv, DraftInv
<1>3. file' = Append(file, d) /\ UNCHANGED pending BY DEF EmitAppends
<1> HIDE DEF d
<1>4. /\ Len(queue') = Len(queue) - 1 /\ Len(queue) \in Nat
      /\ \A k \in 1..Len(queue') : k + 1 \in 2..Len(queue) /\ queue'[k] = queue[k + 1]
  BY <1>1, HeadTailProperties, LenProperties DEF EmitAppends, IsSigning
<1>5. /\ Len(file') = Len(file) + 1 /\ Len(file) \in Nat
      /\ \A i \in 1..Len(file) : file'[i] = file[i]
      /\ file'[Len(file) + 1] = d
  BY <1>2, <1>3, AppendProperties, LenProperties DEF TypeInv, TypeOK
<1>6. \A k \in 1..Len(queue') : NamedJob(queue'[k]) <=> NamedJob(queue[k + 1]) BY ONLY <1>4 DEF NamedJob
<1>7. \A i \in 2..Len(file) : NamedLine(file'[i]) <=> NamedLine(file[i]) BY ONLY <1>5 DEF NamedLine
<1>8. NamedLine(file'[Len(file) + 1]) => NamedJob(queue[1]) BY <1>2, <1>5 DEF NamedLine, NamedJob
<1>9. \A i \in 2..Len(file') : i \in 2..Len(file) \/ i = Len(file) + 1 BY <1>5
<1>10. \A k \in 1..Len(queue') : NamedJob(queue'[k]) => queue'[k].call.run \notin pending'
  <2>1. \A k \in 1..Len(queue) : NamedJob(queue[k]) => queue[k].call.run \notin pending
    BY DEF PlaceInv
  <2>2. pending' = pending /\ \A k \in 1..Len(queue') : k + 1 \in 1..Len(queue)
    BY <1>3, <1>4
  <2>3. QED BY ONLY <1>4, <1>6, <2>1, <2>2
<1>11. ASSUME NEW i \in 2..Len(file'), NamedLine(file'[i]) PROVE file'[i].call.run \notin pending'
  <2>1. CASE i \in 2..Len(file) BY <2>1, <1>3, <1>5, <1>7, <1>11 DEF PlaceInv
  <2>2. CASE i = Len(file) + 1 BY <2>2, <1>2, <1>3, <1>5, <1>8, <1>11 DEF PlaceInv
  <2>3. QED BY <2>1, <2>2, <1>9
<1>12. \A k, l \in 1..Len(queue') :
         NamedJob(queue'[k]) /\ NamedJob(queue'[l]) /\ queue'[k].call.run = queue'[l].call.run => k = l
  BY <1>4, <1>6 DEF PlaceInv
<1>13. ASSUME NEW i \in 2..Len(file'), NEW j \in 2..Len(file'), NamedLine(file'[i]), NamedLine(file'[j]),
              file'[i].call.run = file'[j].call.run
       PROVE  i = j
  <2>1. CASE i \in 2..Len(file) /\ j \in 2..Len(file)
    BY <2>1, <1>5, <1>7, <1>13 DEF PlaceInv
  <2>2. CASE i \in 2..Len(file) /\ j = Len(file) + 1
    BY <2>2, <1>2, <1>5, <1>7, <1>8, <1>13 DEF PlaceInv
  <2>3. CASE j \in 2..Len(file) /\ i = Len(file) + 1
    BY <2>3, <1>2, <1>5, <1>7, <1>8, <1>13 DEF PlaceInv
  <2>4. QED BY <2>1, <2>2, <2>3, <1>9
<1>14. ASSUME NEW k \in 1..Len(queue'), NEW i \in 2..Len(file'), NamedJob(queue'[k]), NamedLine(file'[i])
       PROVE  queue'[k].call.run # file'[i].call.run
  <2>1. NamedJob(queue[k + 1]) /\ k + 1 \in 2..Len(queue) /\ queue'[k] = queue[k + 1]
    BY <1>4, <1>6, <1>14
  <2>2. CASE i \in 2..Len(file)
    <3>1. NamedLine(file[i]) /\ file'[i] = file[i] /\ k + 1 \in 1..Len(queue)
      BY <2>1, <2>2, <1>5, <1>7, <1>14
    <3>2. queue[k + 1].call.run # file[i].call.run
      BY <2>1, <2>2, <3>1 DEF PlaceInv
    <3>3. QED BY ONLY <2>1, <3>1, <3>2
  <2>3. CASE i = Len(file) + 1
    <3>1. NamedJob(queue[1]) /\ file'[i].call.run = queue[1].call.run
      BY <2>3, <1>2, <1>5, <1>8, <1>14
    <3>2. QED BY <2>1, <3>1, <1>2, <1>4 DEF PlaceInv
  <2>4. QED BY <2>2, <2>3, <1>9
<1>15. QED BY <1>10, <1>11, <1>12, <1>13, <1>14 DEF PlaceInv

LEMMA PlaceNext ==
  TypeInv /\ ChainInv /\ OnceInv /\ OrderInv /\ PlaceInv /\ [Next]_vars => PlaceInv'
<1> SUFFICES ASSUME TypeInv, ChainInv, OnceInv, OrderInv, PlaceInv, [Next]_vars
             PROVE  PlaceInv'
  OBVIOUS
<1>s. ASSUME UNCHANGED <<queue, file>>, pending' \subseteq pending PROVE PlaceInv'
  BY <1>s DEF PlaceInv, NamedJob, NamedLine
<1>1. ASSUME NEW c \in Calls, Call(c) PROVE PlaceInv'
  BY <1>1, <1>s DEF Call
<1>2. CASE CreateSucceeds
  <2>1. queue = <<>> /\ queue' = <<>> /\ file = <<>>
    BY <1>2 DEF CreateSucceeds, TypeInv, SessionInv
  <2>2. file' = <<prev'>> BY <1>2, <2>1 DEF CreateSucceeds
  <2>3. Len(queue') = 0 /\ Len(file') = 1 BY <2>1, <2>2, EmptySeq
  <2>4. QED BY <2>3 DEF PlaceInv
<1>3. CASE CreateFails
  BY <1>3, <1>s DEF CreateFails
<1>4. ASSUME NEW c \in Calls, StartPends(c) PROVE PlaceInv'
  <2>1. c.event = "start" /\ calls[c] = "waiting" BY <1>4 DEF StartPends, Resumes
  <2>2. \A d \in Calls : d.run = c.run /\ d.event # "start" => calls[d] = "idle"
    BY <2>1 DEF OrderInv, Settled
  <2>3. \A k \in 1..Len(queue) : NamedJob(queue[k]) => queue[k].call.run # c.run
    BY <2>2 DEF NamedJob, OnceInv, QueueInv
  <2>4. \A i \in 2..Len(file) : NamedLine(file[i]) => file[i].call.run # c.run
    BY <2>2 DEF NamedLine, OnceInv, WrittenInv
  <2>5. UNCHANGED <<queue, file>> /\ pending' = pending \cup {c.run}
    BY <1>4 DEF StartPends
  <2>6. QED BY <2>3, <2>4, <2>5 DEF PlaceInv, NamedJob, NamedLine
<1>5. ASSUME NEW c \in Calls, StartDeadLetters(c) PROVE PlaceInv'
  BY <1>5, PlaceAfterEnqueue DEF StartDeadLetters, Resumes
<1>6. ASSUME NEW c \in Calls, EndFinalizes(c) PROVE PlaceInv'
  BY <1>6, PlaceAfterEnqueue DEF EndFinalizes, Resumes, TakePending
<1>7. ASSUME NEW c \in Calls, EndThrows(c) PROVE PlaceInv'
  BY <1>7, <1>s DEF EndThrows, TakePending
<1>8. ASSUME NEW c \in Calls, EndSkips(c) PROVE PlaceInv'
  BY <1>8, <1>s DEF EndSkips
<1>9. ASSUME NEW c \in Calls, ErrorDeadLetters(c) PROVE PlaceInv'
  <2> DEFINE known == c.run \in pending
  <2>1. known \in BOOLEAN OBVIOUS
  <2>2. /\ session = "live" /\ Enqueue(Job(c, TRUE, known)) /\ UNCHANGED file
        /\ pending' = pending \ {c.run}
    BY <1>9 DEF ErrorDeadLetters, Resumes, TakePending
  <2>3. (known /\ c.run \in pending) \/ ~known OBVIOUS
  <2> HIDE DEF known
  <2>4. QED BY <2>1, <2>2, <2>3, PlaceAfterEnqueue
<1>10. CASE EmitChains
  <2> DEFINE x == [queue[1] EXCEPT !.draft = ChainReceipt(Unsigned(queue[1]), prev)]
  <2>0. queue \in Seq(QueueItem) BY DEF TypeInv, TypeOK, QueueItem
  <2>1. queue[1] \in JobType /\ 1 \in 1..Len(queue)
    BY <1>10, <2>0, HeadIsJob DEF EmitChains, Begins
  <2>2. prev \in ReceiptType /\ nextId \in Nat \ {0}
    BY <1>10 DEF EmitChains, Begins, TypeInv, SessionInv, TypeOK
  <2>3. ChainReceipt(Unsigned(queue[1]), prev) \in ReceiptType BY <2>1, <2>2, DraftType
  <2>4. /\ x \in QueueItem /\ x.close = queue[1].close /\ x.call = queue[1].call
        /\ x.named = queue[1].named
    BY <2>1, <2>3 DEF JobType, QueueItem
  <2>5. queue' = [queue EXCEPT ![1] = x] BY <1>10 DEF EmitChains
  <2> HIDE DEF x
  <2>6. /\ Len(queue') = Len(queue) /\ Len(queue) \in Nat
        /\ \A k \in 1..Len(queue) : queue'[k] = IF k = 1 THEN x ELSE queue[k]
    BY <2>0, <2>1, <2>4, <2>5, ExceptSeq, LenProperties
  <2>7. \A k \in 1..Len(queue) : queue'[k].call = queue[k].call /\ (NamedJob(queue'[k]) <=> NamedJob(queue[k]))
    BY <2>4, <2>6 DEF NamedJob
  <2>8. UNCHANGED <<pending, file>> /\ \A i : NamedLine(file'[i]) <=> NamedLine(file[i])
    BY <1>10 DEF EmitChains, NamedLine
  <2>9. QED BY <2>6, <2>7, <2>8 DEF PlaceInv
<1>11. ASSUME EmitThrows \/ EmitFails \/ EmitRefused \/ CloseWriter PROVE PlaceInv'
  BY <1>11, PlaceAfterTail
  DEF EmitThrows, EmitFails, EmitRefused, CloseWriter, Begins, IsSigning
<1>12. CASE EmitAppends
  BY <1>12, PlaceAfterAppend
<1>13. CASE Close
  <2>1. queue \in Seq(QueueItem) /\ CloseMarker \in QueueItem
    BY DEF TypeInv, TypeOK, QueueItem
  <2>2. /\ Len(queue') = Len(queue) + 1 /\ Len(queue) \in Nat
        /\ \A k \in 1..Len(queue) : queue'[k] = queue[k]
        /\ queue'[Len(queue) + 1].close
    BY <1>13, <2>1, AppendProperties, LenProperties DEF Close, CloseMarker
  <2>3. /\ \A k \in 1..Len(queue) : NamedJob(queue'[k]) <=> NamedJob(queue[k])
        /\ ~NamedJob(queue'[Len(queue) + 1])
    BY <2>2 DEF NamedJob
  <2>4. UNCHANGED <<pending, file>> /\ \A i : NamedLine(file'[i]) <=> NamedLine(file[i])
    BY <1>13 DEF Close, NamedLine
  <2>5. \A k \in 1..Len(queue') : NamedJob(queue'[k]) => k \in 1..Len(queue) BY <2>2, <2>3
  <2>6. QED BY <2>2, <2>3, <2>4, <2>5 DEF PlaceInv
<1>14. CASE UNCHANGED vars
  BY <1>14, <1>s DEF vars
<1>15. QED
  BY <1>1, <1>2, <1>3, <1>4, <1>5, <1>6, <1>7, <1>8, <1>9, <1>10, <1>11, <1>12,
     <1>13, <1>14
  DEF Next, Create, Resume, Drain

\* A named job or line of a start is that of a malformed run, the others are
\* not, because a malformed run is never pending.
Sided(x) == x.named => (x.call.event = "start" <=> x.call.run \in Malformed)

SideInv ==
  /\ \A r \in pending : r \notin Malformed
  /\ \A k \in 1..Len(queue) : ~queue[k].close => Sided(queue[k])
  /\ \A i \in 2..Len(file) : Sided(file[i])

LEMMA SideAfterEnqueue ==
  ASSUME TypeInv, SideInv, NEW c \in Calls, NEW dead \in BOOLEAN, NEW named \in BOOLEAN,
         session = "live", Enqueue(Job(c, dead, named)), UNCHANGED file,
         pending' \subseteq pending,
         named => (c.event = "start" <=> c.run \in Malformed)
  PROVE  SideInv'
<1> DEFINE j == Job(c, dead, named)
<1>1. j \in QueueItem /\ j.call = c /\ j.named = named
  <2>1. j \in JobType BY JobIsJob DEF TypeInv, SessionInv, ReceiptType
  <2>2. QED BY <2>1 DEF Job, QueueItem
<1>2. queue \in Seq(QueueItem) /\ queue' = Append(queue, j)
  BY DEF TypeInv, TypeOK, QueueItem, Enqueue
<1>3. Sided(j) BY <1>1 DEF Sided
<1> HIDE DEF j
<1>4. /\ Len(queue') = Len(queue) + 1 /\ Len(queue) \in Nat
      /\ \A k \in 1..Len(queue) : queue'[k] = queue[k]
      /\ queue'[Len(queue) + 1] = j
  BY <1>1, <1>2, AppendProperties, LenProperties
<1>5. ASSUME NEW k \in 1..Len(queue'), ~queue'[k].close PROVE Sided(queue'[k])
  <2>1. CASE k \in 1..Len(queue) BY <2>1, <1>4, <1>5 DEF SideInv
  <2>2. CASE k = Len(queue) + 1 BY <2>2, <1>3, <1>4
  <2>3. QED BY <2>1, <2>2, <1>4
<1>6. QED BY <1>5 DEF SideInv

LEMMA SideNext == TypeInv /\ ChainInv /\ SideInv /\ [Next]_vars => SideInv'
<1> SUFFICES ASSUME TypeInv, ChainInv, SideInv, [Next]_vars PROVE SideInv' OBVIOUS
<1>q. queue \in Seq(QueueItem) /\ CloseMarker \in QueueItem
  BY DEF TypeInv, TypeOK, QueueItem
<1>s. ASSUME UNCHANGED <<queue, file>>, pending' \subseteq pending PROVE SideInv'
  BY <1>s DEF SideInv
<1>t. ASSUME queue # <<>>, queue' = Tail(queue), UNCHANGED pending
      PROVE  /\ \A r \in pending' : r \notin Malformed
             /\ \A k \in 1..Len(queue') : ~queue'[k].close => Sided(queue'[k])
  <2>1. /\ Len(queue') = Len(queue) - 1 /\ Len(queue) \in Nat
        /\ \A k \in 1..Len(queue') : k + 1 \in 1..Len(queue) /\ queue'[k] = queue[k + 1]
    BY <1>q, <1>t, HeadTailProperties, LenProperties
  <2>2. QED BY <2>1, <1>t DEF SideInv
<1>1. ASSUME NEW c \in Calls, Call(c) PROVE SideInv'
  BY <1>1, <1>s DEF Call
<1>2. CASE CreateSucceeds
  <2>1. queue = <<>> /\ queue' = <<>> /\ file = <<>> /\ UNCHANGED pending
    BY <1>2 DEF CreateSucceeds, TypeInv, SessionInv
  <2>2. file' = <<prev'>> BY <1>2, <2>1 DEF CreateSucceeds
  <2>3. Len(queue') = 0 /\ Len(file') = 1 BY <2>1, <2>2, EmptySeq
  <2>4. QED BY <2>1, <2>3 DEF SideInv
<1>3. CASE CreateFails
  BY <1>3, <1>s DEF CreateFails
<1>4. ASSUME NEW c \in Calls, StartPends(c) PROVE SideInv'
  BY <1>4 DEF StartPends, SideInv
<1>5. ASSUME NEW c \in Calls, StartDeadLetters(c) PROVE SideInv'
  BY <1>5, SideAfterEnqueue DEF StartDeadLetters, Resumes
<1>6. ASSUME NEW c \in Calls, EndFinalizes(c) PROVE SideInv'
  <2>1. c.run \notin Malformed /\ c.event # "start" /\ pending' \subseteq pending
    BY <1>6 DEF EndFinalizes, Resumes, TakePending, SideInv
  <2>2. QED BY <1>6, <2>1, SideAfterEnqueue DEF EndFinalizes, Resumes
<1>7. ASSUME NEW c \in Calls, EndThrows(c) PROVE SideInv'
  BY <1>7, <1>s DEF EndThrows, TakePending
<1>8. ASSUME NEW c \in Calls, EndSkips(c) PROVE SideInv'
  BY <1>8, <1>s DEF EndSkips
<1>9. ASSUME NEW c \in Calls, ErrorDeadLetters(c) PROVE SideInv'
  <2> DEFINE known == c.run \in pending
  <2>1. known \in BOOLEAN OBVIOUS
  <2>2. /\ session = "live" /\ Enqueue(Job(c, TRUE, known)) /\ UNCHANGED file
        /\ pending' \subseteq pending /\ c.event # "start"
    BY <1>9 DEF ErrorDeadLetters, Resumes, TakePending
  <2>3. known => c.run \notin Malformed BY DEF SideInv
  <2> HIDE DEF known
  <2>4. QED BY <2>1, <2>2, <2>3, SideAfterEnqueue
<1>10. CASE EmitChains
  <2> DEFINE x == [queue[1] EXCEPT !.draft = ChainReceipt(Unsigned(queue[1]), prev)]
  <2>1. queue[1] \in JobType /\ 1 \in 1..Len(queue)
    BY <1>10, <1>q, HeadIsJob DEF EmitChains, Begins
  <2>2. prev \in ReceiptType /\ nextId \in Nat \ {0}
    BY <1>10 DEF EmitChains, Begins, TypeInv, SessionInv, TypeOK
  <2>3. ChainReceipt(Unsigned(queue[1]), prev) \in ReceiptType BY <2>1, <2>2, DraftType
  <2>4. /\ x \in QueueItem /\ x.close = queue[1].close /\ x.call = queue[1].call
        /\ x.named = queue[1].named
    BY <2>1, <2>3 DEF JobType, QueueItem
  <2>5. queue' = [queue EXCEPT ![1] = x] /\ UNCHANGED <<pending, file>>
    BY <1>10 DEF EmitChains
  <2>6. Sided(x) <=> Sided(queue[1]) BY <2>4 DEF Sided
  <2> HIDE DEF x
  <2>7. /\ Len(queue') = Len(queue) /\ Len(queue) \in Nat
        /\ \A k \in 1..Len(queue) : queue'[k] = IF k = 1 THEN x ELSE queue[k]
    BY <1>q, <2>1, <2>4, <2>5, ExceptSeq, LenProperties
  <2>8. QED BY <2>1, <2>4, <2>5, <2>6, <2>7 DEF SideInv
<1>11. ASSUME EmitThrows \/ EmitFails \/ EmitRefused \/ CloseWriter PROVE SideInv'
  BY <1>11, <1>t
  DEF EmitThrows, EmitFails, EmitRefused, CloseWriter, Begins, IsSigning, SideInv
<1>12. CASE EmitAppends
  <2> DEFINE d == Head(queue).draft
  <2>1. /\ d \in ReceiptType /\ d.call = queue[1].call /\ d.named = queue[1].named
        /\ ~queue[1].close /\ 1 \in 1..Len(queue)
    BY <1>12, <1>q, HeadIsJob DEF EmitAppends, IsSigning, ChainInv, DraftInv
  <2>2. Sided(d) BY <2>1 DEF Sided, SideInv
  <2>3. file' = Append(file, d) /\ UNCHANGED pending BY <1>12 DEF EmitAppends
  <2> HIDE DEF d
  <2>4. /\ Len(file') = Len(file) + 1 /\ Len(file) \in Nat
        /\ \A i \in 1..Len(file) : file'[i] = file[i]
        /\ file'[Len(file) + 1] = d
    BY <2>1, <2>3, AppendProperties, LenProperties DEF TypeInv, TypeOK
  <2>5. \A i \in 2..Len(file') : i \in 2..Len(file) \/ i = Len(file) + 1 BY <2>4
  <2>6. \A i \in 2..Len(file') : Sided(file'[i]) BY <2>2, <2>4, <2>5 DEF SideInv
  <2>7. QED BY <1>12, <1>t, <2>6 DEF EmitAppends, IsSigning, SideInv
<1>13. CASE Close
  <2>1. /\ Len(queue') = Len(queue) + 1 /\ Len(queue) \in Nat
        /\ \A k \in 1..Len(queue) : queue'[k] = queue[k]
        /\ queue'[Len(queue) + 1].close /\ UNCHANGED <<pending, file>>
    BY <1>13, <1>q, AppendProperties, LenProperties DEF Close, CloseMarker
  <2>2. QED BY <2>1 DEF SideInv
<1>14. CASE UNCHANGED vars
  BY <1>14, <1>s DEF vars
<1>15. QED
  BY <1>1, <1>2, <1>3, <1>4, <1>5, <1>6, <1>7, <1>8, <1>9, <1>10, <1>11, <1>12,
     <1>13, <1>14
  DEF Next, Create, Resume, Drain

\* A run is attested once under its own name: two such lines for one run are
\* both of a result or an error, and PlaceInv has only one of these.
THEOREM RunAttestedOnce == Spec => []AttestedOnce
<1>1. Init => OrderInv /\ PlaceInv /\ SideInv
  BY EmptySeq DEF Init, OrderInv, PlaceInv, SideInv
<1>2. TypeInv /\ OnceInv /\ OrderInv /\ [Next]_vars => OrderInv' BY OrderNext
<1>3. TypeInv /\ ChainInv /\ OnceInv /\ OrderInv /\ PlaceInv /\ [Next]_vars => PlaceInv'
  BY PlaceNext
<1>4. TypeInv /\ ChainInv /\ SideInv /\ [Next]_vars => SideInv' BY SideNext
<1>5. PlaceInv /\ SideInv => AttestedOnce
  <2> SUFFICES ASSUME PlaceInv, SideInv, NEW i \in 2..Len(file), NEW j \in 2..Len(file),
                      file[i].named, file[j].named, file[i].call.run = file[j].call.run,
                      file[i].call.event # "start"
               PROVE  i = j
    BY DEF AttestedOnce
  <2>1. file[j].call.event # "start" BY DEF SideInv, Sided
  <2>2. NamedLine(file[i]) /\ NamedLine(file[j]) BY <2>1 DEF NamedLine
  <2>3. QED BY <2>2 DEF PlaceInv
<1>6. QED
  BY <1>1, <1>2, <1>3, <1>4, <1>5, TypeCorrect, ChainAlways, OnceAlways, PTL
  DEF Spec, TypeInv

-----------------------------------------------------------------------------
(***************************************************************************)
(* Refinement.  trail, answer and sealed stand for what the instance Trail *)
(* substitutes for the variables of AuditTrail.                            *)
(***************************************************************************)
TrailOf == [i \in 1..(Len(file) - 1) |-> file[i+1].call]
AnswerOf(status) ==
  IF status = "idle" THEN "none"
  ELSE IF status \in Unsettled THEN "open"
  ELSE IF status = "written" THEN "recorded" ELSE "refused"
Answers  == [c \in Calls |-> AnswerOf(calls[c])]
SealedOf == session = "live" /\ ~fdOpen

\* The substitution, and the steps of the audit trail it makes.
LEMMA TrailSubstitution ==
  /\ Trail!TrailInit <=> /\ TrailOf = <<>>
                         /\ Answers = [c \in Calls |-> "none"]
                         /\ SealedOf = FALSE
  /\ (UNCHANGED <<TrailOf, Answers, SealedOf>>) => UNCHANGED Trail!trailVars
  /\ \A c \in Calls :
       /\ Answers[c] = "none"
       /\ Answers' = [Answers EXCEPT ![c] = "open"]
       /\ UNCHANGED <<TrailOf, SealedOf>>
       => Trail!TrailNext
  /\ \A c \in Calls :
       /\ Answers[c] = "open" /\ ~SealedOf
       /\ TrailOf' = Append(TrailOf, c)
       /\ Answers' = [Answers EXCEPT ![c] = "recorded"]
       /\ UNCHANGED SealedOf
       => Trail!TrailNext
  /\ \A Q \in SUBSET Calls :
       /\ Q # {} /\ \A q \in Q : Answers[q] = "open"
       /\ Answers' = [q \in Calls |-> IF q \in Q THEN "refused" ELSE Answers[q]]
       /\ UNCHANGED <<TrailOf, SealedOf>>
       => Trail!TrailNext
  /\ ~SealedOf /\ SealedOf' = TRUE /\ UNCHANGED <<TrailOf, Answers>> => Trail!TrailNext
<1>1. Trail!TrailInit <=> /\ TrailOf = <<>>
                          /\ Answers = [c \in Calls |-> "none"]
                          /\ SealedOf = FALSE
  BY DEF Trail!TrailInit, TrailOf, Answers, AnswerOf, SealedOf
<1>2. (UNCHANGED <<TrailOf, Answers, SealedOf>>) => UNCHANGED Trail!trailVars
  BY DEF Trail!trailVars, TrailOf, Answers, AnswerOf, SealedOf
<1>3. ASSUME NEW c \in Calls, Answers[c] = "none",
             Answers' = [Answers EXCEPT ![c] = "open"], UNCHANGED <<TrailOf, SealedOf>>
      PROVE  Trail!TrailNext
  <2>1. Trail!Open(c) BY <1>3 DEF Trail!Open, TrailOf, Answers, AnswerOf, SealedOf
  <2>2. QED BY <2>1 DEF Trail!TrailNext
<1>4. ASSUME NEW c \in Calls, Answers[c] = "open", ~SealedOf,
             TrailOf' = Append(TrailOf, c), Answers' = [Answers EXCEPT ![c] = "recorded"],
             UNCHANGED SealedOf
      PROVE  Trail!TrailNext
  <2>1. Trail!Record(c) BY <1>4 DEF Trail!Record, TrailOf, Answers, AnswerOf, SealedOf
  <2>2. QED BY <2>1 DEF Trail!TrailNext
<1>5. ASSUME NEW Q \in SUBSET Calls, Q # {}, \A q \in Q : Answers[q] = "open",
             Answers' = [q \in Calls |-> IF q \in Q THEN "refused" ELSE Answers[q]],
             UNCHANGED <<TrailOf, SealedOf>>
      PROVE  Trail!TrailNext
  <2>1. Trail!Refuse(Q) BY <1>5 DEF Trail!Refuse, TrailOf, Answers, AnswerOf, SealedOf
  <2>2. Q \in SUBSET {q \in Calls : Answers[q] = "open"} BY <1>5
  <2>3. QED BY <2>1, <2>2 DEF Trail!TrailNext, Answers, AnswerOf
<1>6. ASSUME ~SealedOf, SealedOf' = TRUE, UNCHANGED <<TrailOf, Answers>>
      PROVE  Trail!TrailNext
  BY <1>6 DEF Trail!TrailNext, Trail!Seal, TrailOf, Answers, AnswerOf, SealedOf
<1>7. QED BY <1>1, <1>2, <1>3, <1>4, <1>5, <1>6

\* A call that becomes waiting or queued opens or keeps its request open; one
\* that settles without a line refuses it.
LEMMA AnswerSteps ==
  ASSUME TypeInv, NEW c \in Calls, NEW s \in Statuses, Settle(c, s)
  PROVE  /\ Answers' = [Answers EXCEPT ![c] = AnswerOf(s)]
         /\ AnswerOf(s) = Answers[c] => Answers' = Answers
         /\ AnswerOf(s) = "refused" =>
              Answers' = [q \in Calls |-> IF q \in {c} THEN "refused" ELSE Answers[q]]
<1>1. calls' = [calls EXCEPT ![c] = s] /\ calls \in [Calls -> Statuses]
  BY DEF Settle, TypeInv, TypeOK
<1>2. Answers' = [q \in Calls |-> AnswerOf(calls'[q])] BY DEF Answers, AnswerOf
<1>3. \A q \in Calls : calls'[q] = IF q = c THEN s ELSE calls[q] BY <1>1
<1>4. Answers' = [Answers EXCEPT ![c] = AnswerOf(s)] BY <1>2, <1>3 DEF Answers
<1>5. Answers \in [Calls -> {AnswerOf(t) : t \in Statuses}] BY <1>1 DEF Answers
<1>6. QED BY <1>4, <1>5

\* The steps that refuse one request.
LEMMA RefusalStep ==
  ASSUME TypeInv, NEW c \in Calls, calls[c] \in Unsettled,
         NEW s \in {"pended", "skipped", "rejected", "badfd"}, Settle(c, s),
         UNCHANGED <<file, session, fdOpen>>
  PROVE  Trail!TrailNext
<1>1. s \in Statuses /\ AnswerOf(s) = "refused" BY DEF Statuses, Settled, Unsettled, AnswerOf
<1>2. Answers[c] = "open" BY DEF Answers, AnswerOf, Unsettled
<1>3. Answers' = [q \in Calls |-> IF q \in {c} THEN "refused" ELSE Answers[q]]
  BY <1>1, AnswerSteps
<1>4. UNCHANGED <<TrailOf, SealedOf>> BY DEF TrailOf, SealedOf
<1>5. {c} \in SUBSET Calls /\ {c} # {} /\ \A q \in {c} : Answers[q] = "open" BY <1>2
<1>6. QED BY <1>3, <1>4, <1>5, TrailSubstitution

\* The steps that put a request into the queue: it stays open.
LEMMA QueueStep ==
  ASSUME TypeInv, NEW c \in Calls, calls[c] = "waiting", Settle(c, Waiting),
         UNCHANGED <<file, session, fdOpen>>
  PROVE  UNCHANGED Trail!trailVars
<1>1. Waiting \in Statuses /\ AnswerOf(Waiting) = "open"
  BY DEF Waiting, Statuses, Unsettled, AnswerOf
<1>2. Answers[c] = "open" BY DEF Answers, AnswerOf, Unsettled
<1>3. Answers' = Answers BY <1>1, <1>2, AnswerSteps
<1>4. UNCHANGED <<TrailOf, SealedOf>> BY DEF TrailOf, SealedOf
<1>5. QED BY <1>3, <1>4, TrailSubstitution

\* The step that appends a line records its request.
LEMMA RecordStep ==
  ASSUME TypeInv, ChainInv, OnceInv, EmitAppends
  PROVE  Trail!TrailNext
<1> DEFINE c == Head(queue).call
           d == Head(queue).draft
<1>1. c \in Calls /\ calls[c] \in {"queued", "late"} /\ session = "live"
  BY HeadCall DEF EmitAppends, IsSigning
<1>2. queue \in Seq(QueueItem) BY DEF TypeInv, TypeOK, QueueItem
<1>3. d \in ReceiptType /\ d.call = c
  BY <1>2, HeadIsJob DEF EmitAppends, IsSigning, ChainInv, DraftInv
<1>4. file # <<>> BY <1>1 DEF ChainInv, PrevIsLastLine
<1>5. file' = Append(file, d) /\ Settle(c, "written") /\ UNCHANGED <<session, fdOpen>> /\ fdOpen
  BY DEF EmitAppends
<1> HIDE DEF c, d
<1>6. /\ Len(file) \in Nat \ {0} /\ Len(file') = Len(file) + 1
      /\ \A i \in 1..Len(file) : file'[i] = file[i]
      /\ file'[Len(file) + 1] = d
  BY <1>3, <1>4, <1>5, AppendProperties, EmptySeq DEF TypeInv, TypeOK
<1>7. TrailOf' = Append(TrailOf, c)
  <2>1. TrailOf \in Seq(Calls) /\ Len(TrailOf) = Len(file) - 1
    <3>1. \A i \in 1..(Len(file) - 1) : file[i+1].call \in Calls
      BY <1>6 DEF OnceInv, WrittenInv
    <3>2. TrailOf \in [1..(Len(file) - 1) -> Calls] BY <3>1 DEF TrailOf
    <3>3. QED BY <3>2, <1>6
  <2>2. Append(TrailOf, c) = [i \in 1..Len(file) |-> IF i = Len(file) THEN c ELSE TrailOf[i]]
    <3>1. /\ Append(TrailOf, c) \in Seq(Calls) /\ Len(Append(TrailOf, c)) = Len(file)
          /\ \A i \in 1..(Len(file) - 1) : Append(TrailOf, c)[i] = TrailOf[i]
          /\ Append(TrailOf, c)[Len(file)] = c
      BY <2>1, <1>1, <1>6, AppendProperties
    <3>2. DOMAIN Append(TrailOf, c) = 1..Len(file) /\ Append(TrailOf, c) \in [1..Len(file) -> Calls]
      BY <3>1, LenProperties
    <3> DEFINE t == Append(TrailOf, c)
               u == [i \in 1..Len(file) |-> IF i = Len(file) THEN c ELSE TrailOf[i]]
    <3>3. \A i \in 1..Len(file) : t[i] = u[i] BY <3>1, <1>6
    <3>4. t \in [1..Len(file) -> Calls] BY <3>2
    <3>5. DOMAIN u = 1..Len(file) OBVIOUS
    <3>6. u \in [1..Len(file) -> {u[i] : i \in 1..Len(file)}] OBVIOUS
    <3> HIDE DEF t, u
    <3>7. t = u BY <3>3, <3>4, <3>6
    <3>8. QED BY <3>7 DEF t, u
  <2>3. TrailOf' = [i \in 1..Len(file) |-> file'[i+1].call] BY <1>6 DEF TrailOf
  <2>4. ASSUME NEW i \in 1..Len(file)
        PROVE  file'[i+1].call = IF i = Len(file) THEN c ELSE TrailOf[i]
    BY <1>3, <1>6 DEF TrailOf
  <2>5. QED BY <2>2, <2>3, <2>4
<1>8. Answers[c] = "open" BY <1>1 DEF Answers, AnswerOf, Unsettled
<1>9. Answers' = [Answers EXCEPT ![c] = "recorded"]
  <2>1. "written" \in Statuses /\ AnswerOf("written") = "recorded"
    BY DEF Statuses, Settled, Unsettled, AnswerOf
  <2>2. QED BY <1>1, <1>5, <2>1, AnswerSteps
<1>10. ~SealedOf /\ UNCHANGED SealedOf BY <1>5 DEF SealedOf
<1>11. QED BY <1>1, <1>7, <1>8, <1>9, <1>10, TrailSubstitution

LEMMA TrailStep ==
  TypeInv /\ ChainInv /\ OnceInv /\ [Next]_vars => [Trail!TrailNext]_(Trail!trailVars)
<1> SUFFICES ASSUME TypeInv, ChainInv, OnceInv, [Next]_vars
             PROVE  Trail!TrailNext \/ UNCHANGED Trail!trailVars
  OBVIOUS
<1>s. ASSUME UNCHANGED <<calls, file, session, fdOpen>> PROVE UNCHANGED Trail!trailVars
  BY <1>s, TrailSubstitution DEF TrailOf, Answers, AnswerOf, SealedOf
<1>1. ASSUME NEW c \in Calls, Call(c) PROVE Trail!TrailNext
  <2>1. calls[c] = "idle" /\ Settle(c, "waiting") BY <1>1 DEF Call, CallAllowed
  <2>2. "waiting" \in Statuses /\ AnswerOf("waiting") = "open" /\ Answers[c] = "none"
    BY <2>1 DEF Statuses, Unsettled, AnswerOf, Answers
  <2>3. Answers' = [Answers EXCEPT ![c] = "open"] BY <2>1, <2>2, AnswerSteps
  <2>4. UNCHANGED <<TrailOf, SealedOf>> BY <1>1 DEF Call, TrailOf, SealedOf
  <2>5. QED BY <2>2, <2>3, <2>4, TrailSubstitution
<1>2. CASE CreateSucceeds
  <2>1. file = <<>> BY <1>2 DEF CreateSucceeds, TypeInv, SessionInv
  <2>2. Len(file) = 0 /\ Len(file') = 1
    <3>1. file' = <<prev'>> BY <1>2, <2>1 DEF CreateSucceeds
    <3>2. QED BY <2>1, <3>1
  <2>3. TrailOf' = TrailOf
    <3>1. 1..(Len(file) - 1) = {} /\ 1..(Len(file') - 1) = {} BY <2>2
    <3>2. TrailOf = [i \in {} |-> file[i+1].call] /\ TrailOf' = [i \in {} |-> file'[i+1].call]
      BY <3>1 DEF TrailOf
    <3>3. QED BY <3>2
  <2>4. UNCHANGED <<Answers, SealedOf>>
    BY <1>2 DEF CreateSucceeds, Answers, AnswerOf, SealedOf
  <2>5. QED BY <2>3, <2>4, TrailSubstitution
<1>3. CASE CreateFails
  <2> DEFINE Q == {c \in Calls : calls[c] = "waiting"}
  <2>1. UNCHANGED <<TrailOf, SealedOf>> BY <1>3 DEF CreateFails, TrailOf, SealedOf
  <2>2. \A q \in Q : Answers[q] = "open" BY DEF Answers, AnswerOf, Unsettled
  <2>3. Answers' = [q \in Calls |-> IF q \in Q THEN "refused" ELSE Answers[q]]
    <3>1. \A q \in Calls : calls'[q] = IF q \in Q THEN "rejected" ELSE calls[q]
      BY <1>3 DEF CreateFails
    <3>2. AnswerOf("rejected") = "refused" BY DEF AnswerOf, Unsettled
    <3>3. Answers' = [q \in Calls |-> AnswerOf(calls'[q])] BY DEF Answers, AnswerOf
    <3>4. QED BY <3>1, <3>2, <3>3 DEF Answers
  <2>4. CASE Q = {}
    <3>1. Answers' = Answers BY <2>3, <2>4 DEF Answers
    <3>2. QED BY <3>1, <2>1, TrailSubstitution
  <2>5. CASE Q # {}
    <3>1. Q \in SUBSET Calls OBVIOUS
    <3> HIDE DEF Q
    <3>2. QED BY <3>1, <2>1, <2>2, <2>3, <2>5, TrailSubstitution
  <2>6. QED BY <2>4, <2>5
<1>4. ASSUME NEW c \in Calls, StartPends(c) PROVE Trail!TrailNext
  BY <1>4, RefusalStep DEF StartPends, Resumes, Unsettled
<1>5. ASSUME NEW c \in Calls, StartDeadLetters(c) PROVE UNCHANGED Trail!trailVars
  BY <1>5, QueueStep DEF StartDeadLetters, Resumes
<1>6. ASSUME NEW c \in Calls, EndFinalizes(c) PROVE UNCHANGED Trail!trailVars
  BY <1>6, QueueStep DEF EndFinalizes, Resumes
<1>7. ASSUME NEW c \in Calls, EndThrows(c) PROVE Trail!TrailNext
  BY <1>7, RefusalStep DEF EndThrows, Resumes, Unsettled
<1>8. ASSUME NEW c \in Calls, EndSkips(c) PROVE Trail!TrailNext
  BY <1>8, RefusalStep DEF EndSkips, Resumes, Unsettled
<1>9. ASSUME NEW c \in Calls, ErrorDeadLetters(c) PROVE UNCHANGED Trail!trailVars
  BY <1>9, QueueStep DEF ErrorDeadLetters, Resumes
<1>10. CASE EmitChains
  BY <1>10, <1>s DEF EmitChains
<1>11. ASSUME EmitThrows \/ EmitFails \/ EmitRefused PROVE Trail!TrailNext
  <2>1. queue # <<>> /\ ~Head(queue).close
    BY <1>11 DEF EmitThrows, EmitFails, EmitRefused, Begins, IsSigning
  <2>2. Head(queue).call \in Calls /\ calls[Head(queue).call] \in Unsettled
    BY <2>1, HeadCall DEF Unsettled
  <2>3. UNCHANGED <<file, session, fdOpen>>
    BY <1>11 DEF EmitThrows, EmitFails, EmitRefused
  <2>4. Settle(Head(queue).call, "rejected") \/ Settle(Head(queue).call, "badfd")
    BY <1>11 DEF EmitThrows, EmitFails, EmitRefused
  <2>5. QED BY <2>2, <2>3, <2>4, RefusalStep
<1>12. CASE EmitAppends
  BY <1>12, RecordStep
<1>13. CASE CloseWriter
  <2>1. session = "live" BY <1>13 DEF CloseWriter, TypeInv, SessionInv, TypeOK
  <2>2. UNCHANGED <<TrailOf, Answers>> BY <1>13 DEF CloseWriter, TrailOf, Answers, AnswerOf
  <2>3. SealedOf' = TRUE BY <1>13, <2>1 DEF CloseWriter, SealedOf
  <2>4. SealedOf \in BOOLEAN BY DEF SealedOf
  <2>5. CASE SealedOf = TRUE BY <2>2, <2>3, <2>5, TrailSubstitution
  <2>6. CASE SealedOf = FALSE BY <2>2, <2>3, <2>6, TrailSubstitution
  <2>7. QED BY <2>4, <2>5, <2>6
<1>14. CASE Close
  BY <1>14, <1>s DEF Close
<1>15. CASE UNCHANGED vars
  BY <1>15, <1>s DEF vars
<1>16. QED
  BY <1>1, <1>2, <1>3, <1>4, <1>5, <1>6, <1>7, <1>8, <1>9, <1>10, <1>11, <1>12,
     <1>13, <1>14, <1>15
  DEF Next, Create, Resume, Drain

\* The emitter implements the audit trail: it starts as one and each of its
\* steps is one of the trail's or leaves it alone.
THEOREM EmitterImplementsTrail == Spec => ImplementsTrail
<1>1. Init => Trail!TrailInit
  <2> SUFFICES ASSUME Init PROVE Trail!TrailInit OBVIOUS
  <2>1. TrailOf = <<>>
    <3>1. Len(file) = 0 BY EmptySeq DEF Init
    <3>2. TrailOf \in [1..0 -> Calls] BY <3>1 DEF TrailOf
    <3>3. TrailOf \in Seq(Calls) /\ Len(TrailOf) = 0 BY <3>2
    <3>4. QED BY <3>3, EmptySeq
  <2>2. Answers = [c \in Calls |-> "none"] BY DEF Init, Answers, AnswerOf
  <2>3. SealedOf = FALSE BY DEF Init, SealedOf
  <2>4. QED BY <2>1, <2>2, <2>3, TrailSubstitution
<1>2. TypeInv /\ ChainInv /\ OnceInv /\ [Next]_vars => [Trail!TrailNext]_(Trail!trailVars)
  BY TrailStep
<1>3. QED
  BY <1>1, <1>2, TypeCorrect, ChainAlways, OnceAlways, PTL
  DEF Spec, TypeInv, ImplementsTrail, Trail!TrailSpec

=============================================================================
