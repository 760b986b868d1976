-------------------------------- MODULE Watch --------------------------------
(***************************************************************************)
(* `nonsudo watch`: one process tails a receipt file while another writes  *)
(* it.  The two run side by side, so an action is what happens between two *)
(* system calls of the watcher: it looks for the file, reads what is there *)
(* (the seed), asks for the size, which becomes its offset, looks for the  *)
(* file again, and then waits for change events of the file or, if there   *)
(* was none, of its directory.                                             *)
(*                                                                         *)
(* The file is a sequence of pieces [line, part]: parts 1 and 2 are the    *)
(* JSON text of a receipt, part 3 is its newline.  Most lines appear       *)
(* whole; one that crosses a page appears bit by bit, and a writer that    *)
(* dies leaves a line unfinished and the next one glued to it.             *)
(***************************************************************************)
EXTENDS Integers, FiniteSets, SequencesExt

CONSTANTS
  MaxLines,  \* bound: lines written
  Closing    \* those of them that are workflow_closed receipts

ASSUME WatchBounds == MaxLines \in Nat /\ Closing \subseteq 1..MaxLines

VARIABLES
  exists,   \* the file exists
  content,  \* its pieces
  line,     \* the line being written, or the last one written
  part,     \* how much of it is written: 0..3
  at,       \* where the watcher is
  offset,   \* fileOffset
  shown,    \* the lines printed
  event,    \* an event the watcher asked for waits in the event loop
  summary,  \* the closing summary was printed
  torn,     \* a line was not written in one piece
  raced     \* the file grew between a read and the question for its size

watchVars == <<exists, content, line, part, at, offset, shown, event, summary, torn, raced>>
file      == <<exists, content, line, part, torn>>

Points == {"seed", "measure", "choose", "register", "registerDir", "waitDir",
           "measureDir", "watching", "stopped"}

-----------------------------------------------------------------------------
\* parseReceiptsFromContent of some pieces: the text between newlines, each
\* with the line it is, or all is lost if one of them is no JSON text.
\* Text is a receipt's if it is parts 1 and 2 of one line.
Newline(ps, i) == ps[i].part = 3
TextEnd(ps, i) == i = Len(ps) \/ Newline(ps, i + 1)
TextStart(ps, i) == i = 1 \/ Newline(ps, i - 1)

Parses(ps) ==
  \A i \in 1..Len(ps) :
    /\ ps[i].part = 1 => TextStart(ps, i) /\ ~TextEnd(ps, i) /\ ps[i+1] = [ps[i] EXCEPT !.part = 2]
    /\ ps[i].part = 2 => ~TextStart(ps, i) /\ TextEnd(ps, i)

\* The lines of the texts, in the order of the pieces.
TextStarts(ps) == {i \in 1..Len(ps) : ps[i].part = 1}
Before(ps, i) == {j \in TextStarts(ps) : j < i}

ReceiptsIn(ps) ==
  [k \in 1..Cardinality(TextStarts(ps)) |->
     ps[CHOOSE i \in TextStarts(ps) : Cardinality(Before(ps, i)) = k - 1].line]

Read(ps) == IF Parses(ps) THEN ReceiptsIn(ps) ELSE <<>>

HasClosed(rs) == \E i \in 1..Len(rs) : rs[i] \in Closing

\* Mutant: the loop stops behind the first receipt, closing or not.
UpToClosed_First(rs) == IF rs = <<>> THEN rs ELSE <<Head(rs)>>

\* What handleNewContent prints: it stops behind a workflow_closed receipt.
UpToClosed(rs) ==
  IF HasClosed(rs)
  THEN SubSeq(rs, 1, CHOOSE i \in 1..Len(rs) :
         rs[i] \in Closing /\ \A j \in 1..i-1 : rs[j] \notin Closing)
  ELSE rs

-----------------------------------------------------------------------------
\* The writer.  Whatever it does is an event for a watcher that has registered
\* with the file or with the directory.
Notify == event' = (event \/ at \in {"watching", "waitDir"})

Grows == raced' = (raced \/ at \in {"measure", "measureDir"})

Watcher == <<at, offset, shown, summary>>

CreateFile ==
  /\ ~exists
  /\ exists' = TRUE
  /\ Notify
  /\ UNCHANGED <<content, line, part, torn, raced>> /\ UNCHANGED Watcher

\* The next n parts of the present line.
Appends(l, from, n) ==
  /\ exists /\ from + n <= 3
  /\ content' = content \o [i \in 1..n |-> [line |-> l, part |-> from + i]]
  /\ line' = l /\ part' = from + n
  /\ torn' = (torn \/ n # 3)
  /\ Notify /\ Grows
  /\ UNCHANGED exists /\ UNCHANGED Watcher

\* Begin a line, because the last is finished or because its writer died.
BeginLine == line < MaxLines /\ \E n \in 1..3 : Appends(line + 1, 0, n)

ContinueLine == part \in 1..2 /\ \E n \in 1..2 : Appends(line, part, n)

-----------------------------------------------------------------------------
Goto(point) == at' = point

\* The seed: existsSync and readFileSync; what does not parse is not shown.
Seed ==
  /\ at = "seed" /\ Goto("measure")
  /\ shown' = Read(content)
  /\ UNCHANGED file /\ UNCHANGED <<offset, event, summary, raced>>

Measure ==
  /\ at = "measure" /\ Goto("choose")
  /\ offset' = Len(content)
  /\ UNCHANGED file /\ UNCHANGED <<shown, event, summary, raced>>

Choose ==
  /\ at = "choose" /\ Goto(IF exists THEN "register" ELSE "registerDir")
  /\ UNCHANGED file /\ UNCHANGED <<offset, shown, event, summary, raced>>

\* Mutant: watching starts at the end of the file as it is by then.
Register_AtEnd ==
  /\ at = "register" /\ Goto("watching")
  /\ offset' = Len(content)
  /\ event' = FALSE
  /\ UNCHANGED file /\ UNCHANGED <<shown, summary, raced>>

\* fs.watch of the file, of the directory.
Register ==
  /\ at = "register" /\ Goto("watching")
  /\ event' = FALSE
  /\ UNCHANGED file /\ UNCHANGED <<offset, shown, summary, raced>>

RegisterDir ==
  /\ at = "registerDir" /\ Goto("waitDir")
  /\ UNCHANGED file /\ UNCHANGED <<offset, shown, event, summary, raced>>

\* The directory has an event: show what the file holds.  If that does not
\* parse, the offset stays where it is.
DirEvent ==
  /\ at = "waitDir" /\ event
  /\ event' = FALSE
  /\ Goto(IF Parses(content) THEN "measureDir" ELSE "register")
  /\ shown' = shown \o Read(content)
  /\ UNCHANGED file /\ UNCHANGED <<offset, summary, raced>>

\* Mutant: the offset is left alone when the file appears.
MeasureDir_Forgotten ==
  /\ at = "measureDir" /\ Goto("register")
  /\ UNCHANGED file /\ UNCHANGED <<offset, shown, event, summary, raced>>

MeasureDir ==
  /\ at = "measureDir" /\ Goto("register")
  /\ offset' = Len(content)
  /\ UNCHANGED file /\ UNCHANGED <<shown, event, summary, raced>>

\* Mutant: the size is added to the offset.
NextOffset_Added == offset + Len(content)

\* The size of the file is the next offset, also when the pieces do not parse.
NextOffset == Len(content)

\* handleNewContent: show what lies between the offset and the end, up to a
\* workflow_closed receipt, which ends the watch.
FileEvent ==
  /\ at = "watching" /\ event
  /\ event' = FALSE
  /\ LET rs == Read(SubSeq(content, offset + 1, Len(content)))
     IN  /\ shown' = shown \o UpToClosed(rs)
         /\ summary' = (summary \/ HasClosed(rs))
         /\ Goto(IF HasClosed(rs) THEN "stopped" ELSE "watching")
  /\ offset' = NextOffset
  /\ UNCHANGED file /\ UNCHANGED raced

\* Ctrl+C
Interrupt ==
  /\ at \in {"waitDir", "watching"} /\ Goto("stopped")
  /\ UNCHANGED file /\ UNCHANGED <<offset, shown, event, summary, raced>>

-----------------------------------------------------------------------------
WatchInit ==
  /\ exists = FALSE /\ content = <<>> /\ line = 0 /\ part = 3 /\ torn = FALSE
  /\ at = "seed" /\ offset = 0 /\ shown = <<>> /\ event = FALSE
  /\ summary = FALSE /\ raced = FALSE

Writer == CreateFile \/ BeginLine \/ ContinueLine

Follow ==
  \/ Seed \/ Measure \/ Choose \/ Register \/ RegisterDir
  \/ DirEvent \/ MeasureDir \/ FileEvent

WatchNext == Writer \/ Follow \/ Interrupt

\* The watcher's own steps are synchronous and its events are delivered.
\* Nothing is assumed of the writer.
WatchSpec == WatchInit /\ [][WatchNext]_watchVars /\ WF_watchVars(Follow)

-----------------------------------------------------------------------------
\* ------------------------------ properties ------------------------------

Lines == 1..MaxLines

\* Every variable holds a value of its kind; the offset is inside the file.
WatchTypeOK ==
  /\ exists \in BOOLEAN /\ event \in BOOLEAN /\ summary \in BOOLEAN
  /\ torn \in BOOLEAN /\ raced \in BOOLEAN
  /\ content \in Seq([line : Lines, part : 1..3])
  /\ line \in 0..MaxLines /\ part \in 0..3
  /\ at \in Points
  /\ offset \in 0..Len(content)
  /\ shown \in Seq(Lines)

\* A receipt is printed once, and in the order of the file, whichever of the
\* seed, the directory's event and the file's events finds it.
ShownOnceInOrder == \A i, j \in 1..Len(shown) : i < j => shown[i] < shown[j]

\* Line l is complete in the file, its newline at most at place n.
CompleteBy(l, n) ==
  \E i \in 3..n : \A p \in 1..3 : content[i - 3 + p] = [line |-> l, part |-> p]

Shown(l) == l \in Range(shown)

\* A line behind the offset has been printed, unless a line was seen in parts
\* or the file grew between a read and the question for its size: nothing else
\* loses a receipt.  (What follows a workflow_closed that ended the watch is
\* not printed.)
LossNeedsTearOrRace ==
  ~torn /\ ~raced =>
    \A l \in Lines :
      CompleteBy(l, offset) => Shown(l) \/ (summary /\ l > Last(shown))

\* A receipt that was appended while the watcher listens is printed in the
\* end, unless the watch is ended or a line is seen in parts.
AppendedIsShown ==
  \A l \in Lines :
    at \in {"waitDir", "watching"} /\ event /\ CompleteBy(l, Len(content)) /\ ~CompleteBy(l, offset)
      ~> Shown(l) \/ at = "stopped" \/ torn

=============================================================================
