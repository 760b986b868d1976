---------------------------- MODULE ObserveProxy ----------------------------
(***************************************************************************)
(* `nonsudo observe`: requests wait for the upstream side by side, and     *)
(* what follows the last await of a request (count, number, log, tell the  *)
(* listeners of /events, print, answer) runs in one piece                  *)
(* (packages/nonsudo/src/observe/server.ts, writer.ts, index.ts).          *)
(***************************************************************************)
EXTENDS Naturals, Sequences

CONSTANTS Requests, Clients,
          Gone,         \* of a listener that is not connected
          MaxFaults     \* appends and terminal lines that fail

ASSUME ObserveAssumption == Gone \notin Nat /\ MaxFaults \in Nat

VARIABLES up,       \* "running", "stopping" (server.close, timer set) or "exited"
          state,    \* request -> "new", "waiting", "upstream" or "502", as answered
          book,     \* what handleProxy keeps: the log, its numbers, the calls, the events
          joined,   \* listener -> length of the log when it joined, or Gone
          faults
vars == <<up, state, book, joined, faults>>

Listening == {c \in Clients : joined[c] # Gone}

Init == /\ up = "running"
        /\ state = [r \in Requests |-> "new"]
        /\ book = [log |-> <<>>, number |-> 0, calls |-> 0,
                   events |-> [c \in Clients |-> <<>>]]
        /\ joined = [c \in Clients |-> Gone]
        /\ faults = 0

-----------------------------------------------------------------------------
(* handleProxy, after its last await *)

\* What may fail: the append to the log, or the line on the terminal.
Outcomes == {"ok", "write", "print"}

Emit(events, entry) ==
  [c \in Clients |-> IF c \in Listening THEN Append(events[c], entry) ELSE events[c]]

\* As if the listeners were told before the log is written.
Record_EmitFirst(b, r, kind, outcome) ==
  LET entry == [number |-> b.number + 1, req |-> r, kind |-> kind]
  IN  [log |-> IF outcome = "write" THEN b.log ELSE Append(b.log, entry),
       number |-> b.number + 1,
       calls |-> b.calls + 1,
       events |-> Emit(b.events, entry)]

\* Count the call, number the entry, append it, and tell the listeners.
Record(b, r, kind, outcome) ==
  LET entry == [number |-> b.number + 1, req |-> r, kind |-> kind]
  IN  [log |-> IF outcome = "write" THEN b.log ELSE Append(b.log, entry),
       number |-> b.number + 1,
       calls |-> b.calls + 1,
       events |-> IF outcome = "write" THEN b.events ELSE Emit(b.events, entry)]

\* As if the catch only answered.
Caught_Unlogged(b, r, outcome) == b

\* The catch: whatever was recorded before, an error is recorded on top of it.
Caught(b, r, outcome) == Record(b, r, "error", outcome)

Cost(outcome) == IF outcome = "ok" THEN 0 ELSE 1

\* The process is gone, and with it every request and listener.
Exit == up' = "exited" /\ joined' = [c \in Clients |-> Gone]

Settle(r, b, answer, cost, last) ==
  /\ faults + cost <= MaxFaults
  /\ faults' = faults + cost
  /\ book' = b
  /\ IF last = "ok"
     THEN state' = [state EXCEPT ![r] = answer] /\ UNCHANGED <<up, joined>>
     ELSE Exit /\ UNCHANGED state    \* the catch throws: an unhandled rejection

Arrived(r) == up # "exited" /\ state[r] = "waiting"

UpstreamAnswers(r) ==
  /\ Arrived(r)
  /\ Settle(r, Record(book, r, "response", "ok"), "upstream", 0, "ok")

\* The upstream has answered and then the log or the terminal fails.
AnswerNotRecorded(r) ==
  /\ Arrived(r)
  /\ \E first \in Outcomes \ {"ok"}, last \in Outcomes :
       Settle(r, Caught(Record(book, r, "response", first), r, last), "502",
              1 + Cost(last), last)

UpstreamFails(r) ==
  /\ Arrived(r)
  /\ \E last \in Outcomes : Settle(r, Caught(book, r, last), "502", Cost(last), last)

-----------------------------------------------------------------------------
(* Connections *)

Call(r) == /\ up = "running"
           /\ state[r] = "new"
           /\ state' = [state EXCEPT ![r] = "waiting"]
           /\ UNCHANGED <<up, book, joined, faults>>

Join(c) == /\ up = "running"
           /\ c \notin Listening
           /\ joined' = [joined EXCEPT ![c] = Len(book.log)]
           /\ book' = [book EXCEPT !.events[c] = <<>>]
           /\ UNCHANGED <<up, state, faults>>

Leave(c) == /\ c \in Listening
            /\ joined' = [joined EXCEPT ![c] = Gone]
            /\ UNCHANGED <<up, state, book, faults>>

\* SIGINT or SIGTERM: server.close(), and a timer of five seconds.
Shutdown == /\ up = "running"
            /\ up' = "stopping"
            /\ UNCHANGED <<state, book, joined, faults>>

\* The server is closed when its last connection is.
Closed == /\ up = "stopping"
          /\ Listening = {}
          /\ \A r \in Requests : state[r] # "waiting"
          /\ Exit
          /\ UNCHANGED <<state, book, faults>>

\* As if only server.close() ended the process.
ForceExit_Never == FALSE /\ UNCHANGED vars

\* The timer ends the process whatever is still open.
ForceExit == /\ up = "stopping"
             /\ Exit
             /\ UNCHANGED <<state, book, faults>>

Next == \/ \E r \in Requests : \/ Call(r) \/ UpstreamAnswers(r)
                               \/ AnswerNotRecorded(r) \/ UpstreamFails(r)
        \/ \E c \in Clients : Join(c) \/ Leave(c)
        \/ Shutdown \/ Closed \/ ForceExit

Spec == Init /\ [][Next]_vars

\* The timer fires and the callback of close runs; nothing is assumed of the
\* upstream, which may keep a request waiting for ever (fetch has no timeout),
\* nor of the listeners, which may stay.
FairSpec == Spec /\ WF_vars(Closed) /\ WF_vars(ForceExit)

-----------------------------------------------------------------------------
(* Properties *)

\* Where the entries of request r are in the log of book b, and what they say.
Places(b, r) == {k \in 1 .. Len(b.log) : b.log[k].req = r}
Answered(b, r) == \E k \in Places(b, r) : /\ b.log[k].kind = "response"
                                         /\ Places(b, r) = {k}
GotError(b, r) == \E k \in Places(b, r) : /\ b.log[k].kind = "error"
                                         /\ Places(b, r) \subseteq {k - 1, k}
RisingNumbers(b) ==
  \A j, k \in 1 .. Len(b.log) : j < k => b.log[j].number < b.log[k].number

\* Type invariant.
Entry == [number : Nat, req : Requests, kind : {"response", "error"}]
Book == [log : Seq(Entry), number : Nat, calls : Nat, events : [Clients -> Seq(Entry)]]
ObserveTypeOK ==
  /\ up \in {"running", "stopping", "exited"}
  /\ state \in [Requests -> {"new", "waiting", "upstream", "502"}]
  /\ book \in Book
  /\ joined \in [Clients -> Nat \cup {Gone}]
  /\ faults \in 0 .. MaxFaults

\* The log tells what callers got (packages/nonsudo/README.md 65): in a log of
\* rising numbers, whoever got the upstream's answer has one entry, its
\* response; whoever got a 502 has an error, and nothing else but a response
\* right before it; and who is not answered has none while the proxy lives.  A
\* number is missing only where an append failed.
LogTellsCalls ==
  /\ RisingNumbers(book)
  /\ \A r \in Requests :
       /\ state[r] = "upstream" => Answered(book, r)
       /\ state[r] = "502" => GotError(book, r)
       /\ state[r] \in {"new", "waiting"} /\ up # "exited" => Places(book, r) = {}
  /\ book.number - Len(book.log) <= faults

\* The dashboard shows the log: a listener has been sent exactly the entries
\* appended since it joined, in their order, however appends fail.
EventsFollowLog ==
  \A c \in Listening :
    book.events[c] = SubSeq(book.log, joined[c] + 1, Len(book.log))

\* The proxy can be stopped while dashboards are open and the upstream hangs
\* (index.ts 43-49).
ShutdownEnds == up = "stopping" ~> up = "exited"
=============================================================================
