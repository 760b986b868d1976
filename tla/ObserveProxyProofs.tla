------------------------- MODULE ObserveProxyProofs -------------------------
(***************************************************************************)
(* Proofs about module ObserveProxy: for any requests, listeners and       *)
(* number of failures.                                                     *)
(***************************************************************************)
EXTENDS ObserveProxy, SequenceTheorems, TLAPS

\* What the properties say of a book, for the books a request goes through.
Followed(b) ==
  \A c \in Listening : /\ joined[c] \in 0 .. Len(b.log)
                       /\ b.events[c] = SubSeq(b.log, joined[c] + 1, Len(b.log))
Numbered(b) ==
  RisingNumbers(b) /\ \A k \in 1 .. Len(b.log) : b.log[k].number <= b.number

\* Record as a sequence of facts: one entry at the end of the log and of every
\* listener's events, or none.
LEMMA RecordedBook ==
  ASSUME NEW b \in Book, NEW r \in Requests,
         NEW kind \in {"response", "error"}, NEW outcome \in Outcomes
  PROVE  /\ Record(b, r, kind, outcome) \in Book
         /\ Record(b, r, kind, outcome).number = b.number + 1
<1> DEFINE e == [number |-> b.number + 1, req |-> r, kind |-> kind]
<1>1. e \in Entry
  BY DEF Book, Entry
<1>2. b.log \in Seq(Entry) /\ b.number \in Nat /\ b.calls \in Nat
        /\ b.events \in [Clients -> Seq(Entry)]
  BY DEF Book
<1>3. Append(b.log, e) \in Seq(Entry)
  BY <1>1, <1>2, AppendProperties
<1>4. \A c \in Clients : Append(b.events[c], e) \in Seq(Entry)
  BY <1>1, <1>2, AppendProperties
<1>5. Emit(b.events, e) \in [Clients -> Seq(Entry)]
  BY <1>2, <1>4 DEF Emit
<1> HIDE DEF e
<1>6. [log |-> IF outcome = "write" THEN b.log ELSE Append(b.log, e),
       number |-> b.number + 1, calls |-> b.calls + 1,
       events |-> IF outcome = "write" THEN b.events ELSE Emit(b.events, e)] \in Book
  BY <1>2, <1>3, <1>5 DEF Book
<1> QED BY <1>6 DEF Record, e

LEMMA TypeInit == Init => ObserveTypeOK
<1>1. << >> \in Seq(Entry)
  OBVIOUS
<1> QED BY <1>1, ObserveAssumption DEF Init, ObserveTypeOK, Book

LEMMA SettleType ==
  ASSUME ObserveTypeOK, NEW r \in Requests, NEW b \in Book,
         NEW answer \in {"upstream", "502"}, NEW cost \in Nat, NEW last \in Outcomes,
         Settle(r, b, answer, cost, last)
  PROVE  ObserveTypeOK'
BY ObserveAssumption DEF ObserveTypeOK, Settle, Exit

-----------------------------------------------------------------------------
(* One entry more *)

\* The two cases of Record, without its records.
LogGrows(b, r, kind, outcome, d) ==
  \/ outcome = "write" /\ d.log = b.log /\ d.events = b.events
  \/ \E e \in Entry :
       /\ outcome # "write"
       /\ e.number = b.number + 1 /\ e.req = r /\ e.kind = kind
       /\ d.log = Append(b.log, e)
       /\ \A c \in Listening : d.events[c] = Append(b.events[c], e)

LEMMA RecordCases ==
  ASSUME NEW b \in Book, NEW r \in Requests,
         NEW kind \in {"response", "error"}, NEW outcome \in Outcomes,
         NEW d, d = Record(b, r, kind, outcome)
  PROVE  LogGrows(b, r, kind, outcome, d)
<1> DEFINE e == [number |-> b.number + 1, req |-> r, kind |-> kind]
<1>1. e \in Entry
  BY DEF Book, Entry
<1>2. CASE outcome = "write"
  BY <1>2 DEF Record, LogGrows
<1>3. CASE outcome # "write"
  <2>1. d.log = Append(b.log, e) /\ d.events = Emit(b.events, e)
    BY <1>3 DEF Record
  <2>2. \A c \in Listening : d.events[c] = Append(b.events[c], e)
    BY <2>1 DEF Emit, Listening
  <2>3. e.number = b.number + 1 /\ e.req = r /\ e.kind = kind
    OBVIOUS
  <2> HIDE DEF e
  <2> QED BY ONLY <1>1, <1>3, <2>1, <2>2, <2>3 DEF LogGrows
<1> QED BY <1>2, <1>3

LEMMA SubSeqAppend ==
  ASSUME NEW S, NEW s \in Seq(S), NEW e \in S, NEW m \in 0 .. Len(s)
  PROVE  SubSeq(Append(s, e), m + 1, Len(Append(s, e)))
           = Append(SubSeq(s, m + 1, Len(s)), e)
<1> DEFINE n == Len(s)
           t == Append(s, e)
           x == SubSeq(s, m + 1, n)
<1>1. n \in Nat /\ \A i \in 1 .. n : s[i] \in S
  BY ElementOfSeq, LenProperties
<1>2. t \in Seq(S) /\ Len(t) = n + 1 /\ t[n + 1] = e /\ \A i \in 1 .. n : t[i] = s[i]
  BY AppendProperties
<1>3. \A i \in 1 .. n + 1 : t[i] \in S
  BY <1>2, ElementOfSeq
<1>4. x \in Seq(S) /\ Len(x) = n - m /\ \A i \in 1 .. n - m : x[i] = s[m + i]
  <2>1. \A i \in m + 1 .. n : s[i] \in S
    BY <1>1
  <2>2. /\ x \in Seq(S)
        /\ Len(x) = IF m + 1 <= n THEN n - (m + 1) + 1 ELSE 0
        /\ \A i \in 1 .. n - (m + 1) + 1 : x[i] = s[(m + 1) + i - 1]
    BY <1>1, <2>1, SubSeqProperties
  <2> QED BY <1>1, <2>2
<1>5. /\ SubSeq(t, m + 1, n + 1) \in Seq(S)
      /\ Len(SubSeq(t, m + 1, n + 1)) = n + 1 - m
      /\ \A i \in 1 .. n + 1 - m : SubSeq(t, m + 1, n + 1)[i] = t[m + i]
  <2>1. \A i \in m + 1 .. n + 1 : t[i] \in S
    BY <1>1, <1>3
  <2>2. /\ SubSeq(t, m + 1, n + 1) \in Seq(S)
        /\ Len(SubSeq(t, m + 1, n + 1)) =
             IF m + 1 <= n + 1 THEN (n + 1) - (m + 1) + 1 ELSE 0
        /\ \A i \in 1 .. (n + 1) - (m + 1) + 1 :
             SubSeq(t, m + 1, n + 1)[i] = t[(m + 1) + i - 1]
    BY <1>1, <2>1, SubSeqProperties
  <2> QED BY <1>1, <2>2
<1>6. /\ Append(x, e) \in Seq(S) /\ Len(Append(x, e)) = n - m + 1
      /\ \A i \in 1 .. n - m : Append(x, e)[i] = x[i]
      /\ Append(x, e)[n - m + 1] = e
  BY <1>4, AppendProperties
<1>0. m \in 0 .. n
  OBVIOUS
<1> HIDE DEF x, t, n
<1>7. \A i \in 1 .. n + 1 - m : SubSeq(t, m + 1, n + 1)[i] = Append(x, e)[i]
  <2> SUFFICES ASSUME NEW i \in 1 .. n + 1 - m
               PROVE  t[m + i] = Append(x, e)[i]
    BY <1>5
  <2>1. CASE i = n - m + 1
    <3>1. m + i = n + 1
      BY <1>0, <1>1, <2>1
    <3> QED BY <1>2, <1>6, <2>1, <3>1
  <2>2. CASE i \in 1 .. n - m
    <3>1. t[m + i] = x[i] /\ i \in 1 .. n - m
      <4>1. m + i \in 1 .. n
        BY <1>0, <1>1, <2>2
      <4> QED BY <1>2, <1>4, <2>2, <4>1
    <3> QED BY <1>6, <3>1
  <2>3. i = n - m + 1 \/ i \in 1 .. n - m
    BY <1>0, <1>1
  <2> QED BY <2>1, <2>2, <2>3
<1>8. SubSeq(t, m + 1, n + 1) = Append(x, e)
  <2>1. Len(SubSeq(t, m + 1, n + 1)) = Len(Append(x, e)) /\ Len(Append(x, e)) = n + 1 - m
    BY <1>0, <1>1, <1>5, <1>6
  <2> QED BY ONLY <1>5, <1>6, <1>7, <2>1, SeqEqual
<1> QED BY <1>2, <1>8 DEF x, t, n

LEMMA RecordKeeps ==
  ASSUME NEW b \in Book, NEW r \in Requests,
         NEW kind \in {"response", "error"}, NEW outcome \in Outcomes,
         NEW d, d = Record(b, r, kind, outcome), Followed(b), Numbered(b)
  PROVE  Followed(d) /\ Numbered(d)
<1>1. d \in Book /\ d.number = b.number + 1
  BY RecordedBook
<1>2. b.log \in Seq(Entry) /\ b.number \in Nat /\ Len(b.log) \in Nat
  BY DEF Book
<1>3. \A k \in 1 .. Len(b.log) : b.log[k].number \in Nat
  <2>1. \A k \in 1 .. Len(b.log) : b.log[k] \in Entry
    BY <1>2, ElementOfSeq
  <2> QED BY <2>1 DEF Entry
<1>4. CASE d.log = b.log /\ d.events = b.events
  BY <1>1, <1>2, <1>3, <1>4 DEF Followed, Numbered, RisingNumbers
<1>5. CASE \E e \in Entry : /\ e.number = b.number + 1 /\ d.log = Append(b.log, e)
                            /\ \A c \in Listening : d.events[c] = Append(b.events[c], e)
  <2>1. PICK e \in Entry :
          /\ e.number = b.number + 1 /\ d.log = Append(b.log, e)
          /\ \A c \in Listening : d.events[c] = Append(b.events[c], e)
    BY <1>5
  <2>2. Len(d.log) = Len(b.log) + 1
    BY <1>2, <2>1
  <2>3. ASSUME NEW c \in Listening
        PROVE  /\ joined[c] \in 0 .. Len(d.log)
               /\ d.events[c] = SubSeq(d.log, joined[c] + 1, Len(d.log))
    <3>1. joined[c] \in 0 .. Len(b.log)
          /\ b.events[c] = SubSeq(b.log, joined[c] + 1, Len(b.log))
      BY <2>3 DEF Followed
    <3>2. SubSeq(d.log, joined[c] + 1, Len(d.log))
            = Append(SubSeq(b.log, joined[c] + 1, Len(b.log)), e)
      BY <1>2, <2>1, <3>1, SubSeqAppend
    <3>3. d.events[c] = SubSeq(d.log, joined[c] + 1, Len(d.log))
      BY <2>1, <2>3, <3>1, <3>2
    <3> QED BY <1>2, <2>2, <3>1, <3>3
  <2>4. /\ \A k \in 1 .. Len(b.log) : d.log[k] = b.log[k]
        /\ d.log[Len(b.log) + 1] = e
        /\ \A k \in 1 .. Len(d.log) : k \in 1 .. Len(b.log) \/ k = Len(b.log) + 1
    BY <1>2, <2>1, <2>2
  <2>5. RisingNumbers(d)
    BY <1>2, <1>3, <2>1, <2>2, <2>4 DEF Numbered, RisingNumbers
  <2>6. ASSUME NEW k \in 1 .. Len(d.log) PROVE d.log[k].number <= d.number
    <3>1. CASE k = Len(b.log) + 1
      BY ONLY <1>1, <1>2, <2>1, <2>4, <3>1
    <3>2. CASE k \in 1 .. Len(b.log)
      <4>1. b.log[k].number <= b.number /\ b.log[k].number \in Nat /\ d.log[k] = b.log[k]
        BY <1>3, <2>4, <3>2 DEF Numbered
      <4> QED BY ONLY <1>1, <1>2, <4>1
    <3> QED BY <2>4, <3>1, <3>2
  <2> QED BY <2>3, <2>5, <2>6 DEF Followed, Numbered
<1>6. \/ d.log = b.log /\ d.events = b.events
      \/ \E e \in Entry : /\ e.number = b.number + 1 /\ d.log = Append(b.log, e)
                          /\ \A c \in Listening : d.events[c] = Append(b.events[c], e)
  <2>1. /\ b \in Book /\ r \in Requests /\ kind \in {"response", "error"}
        /\ outcome \in Outcomes /\ d = Record(b, r, kind, outcome)
    OBVIOUS
  <2>2. LogGrows(b, r, kind, outcome, d)
    BY ONLY <2>1, RecordCases
  <2> QED BY ONLY <2>2, Zenon DEF LogGrows
<1> QED BY ONLY <1>4, <1>5, <1>6

\* Where the entries of a request are after Record.
LEMMA RecordPlaces ==
  ASSUME NEW b \in Book, NEW r \in Requests,
         NEW kind \in {"response", "error"}, NEW outcome \in Outcomes,
         NEW d, d = Record(b, r, kind, outcome)
  PROVE  /\ \A q \in Requests \ {r} : Places(d, q) = Places(b, q)
         /\ \A k \in 1 .. Len(b.log) : d.log[k] = b.log[k]
         /\ outcome = "write" => /\ Places(d, r) = Places(b, r)
                                 /\ Len(d.log) = Len(b.log)
         /\ outcome # "write" => /\ Places(d, r) = Places(b, r) \cup {Len(b.log) + 1}
                                 /\ Len(d.log) = Len(b.log) + 1
                                 /\ d.log[Len(b.log) + 1].kind = kind
<1>1. b.log \in Seq(Entry)
  BY DEF Book
<1>2. CASE outcome = "write" /\ d.log = b.log
  BY <1>2 DEF Places
<1>3. ASSUME NEW e \in Entry, outcome # "write", e.req = r, e.kind = kind,
             d.log = Append(b.log, e)
      PROVE  /\ \A q \in Requests \ {r} : Places(d, q) = Places(b, q)
             /\ \A k \in 1 .. Len(b.log) : d.log[k] = b.log[k]
             /\ Places(d, r) = Places(b, r) \cup {Len(b.log) + 1}
             /\ Len(d.log) = Len(b.log) + 1
             /\ d.log[Len(b.log) + 1].kind = kind
  BY <1>1, <1>3 DEF Places
<1>4. LogGrows(b, r, kind, outcome, d)
  BY RecordCases
<1> QED BY <1>2, <1>3, <1>4 DEF LogGrows

-----------------------------------------------------------------------------
(* The steps of a request *)

LEMMA TypeInductive ==
  ASSUME ObserveTypeOK, [Next]_vars
  PROVE  ObserveTypeOK'
<1>1. book \in Book
  BY DEF ObserveTypeOK
<1>2. ASSUME NEW r \in Requests, Call(r) PROVE ObserveTypeOK'
  BY <1>2 DEF Call, ObserveTypeOK
<1>3. ASSUME NEW r \in Requests, UpstreamAnswers(r) PROVE ObserveTypeOK'
  <2>1. Record(book, r, "response", "ok") \in Book
    BY <1>1, RecordedBook DEF Outcomes
  <2> QED BY <1>3, <2>1, SettleType DEF UpstreamAnswers, Outcomes
<1>4. ASSUME NEW r \in Requests, AnswerNotRecorded(r) PROVE ObserveTypeOK'
  <2>1. PICK first \in Outcomes \ {"ok"}, last \in Outcomes :
          Settle(r, Caught(Record(book, r, "response", first), r, last), "502",
                 1 + Cost(last), last)
    BY <1>4 DEF AnswerNotRecorded
  <2>2. Record(book, r, "response", first) \in Book
    BY <1>1, RecordedBook
  <2>3. Caught(Record(book, r, "response", first), r, last) \in Book
    BY <2>2, RecordedBook DEF Caught
  <2> QED BY <2>1, <2>3, SettleType DEF Cost
<1>5. ASSUME NEW r \in Requests, UpstreamFails(r) PROVE ObserveTypeOK'
  <2>1. PICK last \in Outcomes :
          Settle(r, Caught(book, r, last), "502", Cost(last), last)
    BY <1>5 DEF UpstreamFails
  <2>2. Caught(book, r, last) \in Book
    BY <1>1, RecordedBook DEF Caught
  <2> QED BY <2>1, <2>2, SettleType DEF Cost
<1>6. ASSUME NEW c \in Clients, Join(c) PROVE ObserveTypeOK'
  <2>1. << >> \in Seq(Entry) /\ Len(book.log) \in Nat
    BY <1>1 DEF Book
  <2>2. [book EXCEPT !.events[c] = <<>>] \in Book
    BY <1>1, <2>1 DEF Book
  <2> QED BY <1>6, <2>1, <2>2 DEF Join, ObserveTypeOK
<1>7. ASSUME NEW c \in Clients, Leave(c) PROVE ObserveTypeOK'
  BY <1>7 DEF Leave, ObserveTypeOK
<1>8. CASE Shutdown
  BY <1>8 DEF Shutdown, ObserveTypeOK
<1>9. CASE Closed
  BY <1>9 DEF Closed, Exit, ObserveTypeOK
<1>10. CASE ForceExit
  BY <1>10 DEF ForceExit, Exit, ObserveTypeOK
<1>11. CASE UNCHANGED vars
  BY <1>11 DEF vars, ObserveTypeOK
<1> QED BY <1>2, <1>3, <1>4, <1>5, <1>6, <1>7, <1>8, <1>9, <1>10, <1>11 DEF Next

-----------------------------------------------------------------------------
(* Listeners and numbers *)

LEMMA FollowedInit == Init => Followed(book) /\ Numbered(book)
BY ObserveAssumption DEF Init, Followed, Listening, Numbered, RisingNumbers

LEMMA SettleFollowed ==
  ASSUME ObserveTypeOK, NEW r \in Requests, NEW b \in Book, NEW answer, NEW cost,
         NEW last, Settle(r, b, answer, cost, last), Followed(b), Numbered(b)
  PROVE  Followed(book)' /\ Numbered(book)'
<1>1. book' = b /\ (joined' = joined \/ joined' = [c \in Clients |-> Gone])
  BY DEF Settle, Exit
<1>2. Listening' \subseteq Listening /\ \A c \in Listening' : joined'[c] = joined[c]
  BY <1>1 DEF Listening
<1>3. Followed(book)'
  BY <1>1, <1>2 DEF Followed
<1>4. Numbered(book)'
  BY <1>1 DEF Numbered, RisingNumbers
<1> QED BY <1>3, <1>4

LEMMA FollowedInductive ==
  ASSUME ObserveTypeOK, Followed(book), Numbered(book), [Next]_vars
  PROVE  Followed(book)' /\ Numbered(book)'
<1>1. book \in Book /\ book.log \in Seq(Entry) /\ Len(book.log) \in Nat
  BY DEF ObserveTypeOK, Book
<1>2. ASSUME NEW r \in Requests, Call(r) PROVE Followed(book)' /\ Numbered(book)'
  BY <1>2 DEF Call, Followed, Listening, Numbered, RisingNumbers
<1>3. ASSUME NEW r \in Requests, UpstreamAnswers(r)
      PROVE  Followed(book)' /\ Numbered(book)'
  <2>1. PICK d : d = Record(book, r, "response", "ok")
    OBVIOUS
  <2>2. d \in Book /\ Followed(d) /\ Numbered(d)
    BY <1>1, <2>1, RecordedBook, RecordKeeps DEF Outcomes
  <2>3. Settle(r, d, "upstream", 0, "ok")
    BY <1>3, <2>1 DEF UpstreamAnswers
  <2> QED BY <2>2, <2>3, SettleFollowed
<1>4. ASSUME NEW r \in Requests, AnswerNotRecorded(r)
      PROVE  Followed(book)' /\ Numbered(book)'
  <2>1. PICK first \in Outcomes \ {"ok"}, last \in Outcomes :
          Settle(r, Caught(Record(book, r, "response", first), r, last), "502",
                 1 + Cost(last), last)
    BY <1>4 DEF AnswerNotRecorded
  <2>2. PICK b : b = Record(book, r, "response", first)
    OBVIOUS
  <2>3. PICK d : d = Record(b, r, "error", last)
    OBVIOUS
  <2>4. b \in Book /\ Followed(b) /\ Numbered(b)
    BY <1>1, <2>2, RecordedBook, RecordKeeps
  <2>5. d \in Book /\ Followed(d) /\ Numbered(d)
    BY <2>3, <2>4, RecordedBook, RecordKeeps
  <2>6. Settle(r, d, "502", 1 + Cost(last), last)
    BY <2>1, <2>2, <2>3 DEF Caught
  <2> QED BY <2>5, <2>6, SettleFollowed
<1>5. ASSUME NEW r \in Requests, UpstreamFails(r)
      PROVE  Followed(book)' /\ Numbered(book)'
  <2>1. PICK last \in Outcomes :
          Settle(r, Caught(book, r, last), "502", Cost(last), last)
    BY <1>5 DEF UpstreamFails
  <2>2. PICK d : d = Record(book, r, "error", last)
    OBVIOUS
  <2>3. d \in Book /\ Followed(d) /\ Numbered(d)
    BY <1>1, <2>2, RecordedBook, RecordKeeps
  <2>4. Settle(r, d, "502", Cost(last), last)
    BY <2>1, <2>2 DEF Caught
  <2> QED BY <2>3, <2>4, SettleFollowed
<1>6. ASSUME NEW c \in Clients, Join(c) PROVE Followed(book)' /\ Numbered(book)'
  <2>1. /\ book'.log = book.log /\ book'.number = book.number
        /\ book'.events = [book.events EXCEPT ![c] = <<>>]
        /\ joined' = [joined EXCEPT ![c] = Len(book.log)]
    BY <1>1, <1>6 DEF Join, Book
  <2>2. ASSUME NEW l \in Listening'
        PROVE  /\ joined'[l] \in 0 .. Len(book'.log)
               /\ book'.events[l] = SubSeq(book'.log, joined'[l] + 1, Len(book'.log))
    <3>1. CASE l = c
      <4>1. joined'[l] = Len(book.log) /\ book'.events[l] = <<>>
        BY <1>1, <2>1, <3>1, <2>2 DEF Book, Listening, ObserveTypeOK
      <4>2. SubSeq(book.log, Len(book.log) + 1, Len(book.log)) = <<>>
        BY <1>1, SubSeqEmpty
      <4>3. joined'[l] \in 0 .. Len(book'.log)
        BY <1>1, <2>1, <4>1
      <4>4. book'.events[l] = SubSeq(book'.log, joined'[l] + 1, Len(book'.log))
        <5>1. SubSeq(book'.log, joined'[l] + 1, Len(book'.log)) = <<>>
          BY <2>1, <4>1, <4>2
        <5> QED BY <4>1, <5>1
      <4> QED BY <4>3, <4>4
    <3>2. CASE l # c
      <4>1. l \in Listening /\ joined'[l] = joined[l] /\ book'.events[l] = book.events[l]
        BY <1>1, <2>1, <2>2, <3>2 DEF Listening, ObserveTypeOK, Book
      <4> QED BY <2>1, <4>1 DEF Followed
    <3> QED BY <3>1, <3>2
  <2>3. Numbered(book)'
    BY <2>1 DEF Numbered, RisingNumbers
  <2> QED BY <2>2, <2>3 DEF Followed
<1>7. ASSUME NEW c \in Clients, Leave(c) PROVE Followed(book)' /\ Numbered(book)'
  <2>1. Listening' \subseteq Listening /\ \A l \in Listening' : joined'[l] = joined[l]
    BY <1>7 DEF Leave, Listening, ObserveTypeOK
  <2> QED BY <1>7, <2>1 DEF Leave, Followed, Numbered, RisingNumbers
<1>8. CASE Shutdown
  BY <1>8 DEF Shutdown, Followed, Listening, Numbered, RisingNumbers
<1>9. CASE Closed
  BY <1>9 DEF Closed, Exit, Followed, Listening, Numbered, RisingNumbers
<1>10. CASE ForceExit
  BY <1>10 DEF ForceExit, Exit, Followed, Listening, Numbered, RisingNumbers
<1>11. CASE UNCHANGED vars
  BY <1>11 DEF vars, Followed, Listening, Numbered, RisingNumbers
<1> QED BY <1>2, <1>3, <1>4, <1>5, <1>6, <1>7, <1>8, <1>9, <1>10, <1>11 DEF Next

\* A listener has been sent exactly the entries logged since it joined
\* (server.ts 66-88).
THEOREM ListenersFollowLog == Spec => []EventsFollowLog
<1>1. Init => ObserveTypeOK /\ Followed(book) /\ Numbered(book)
  BY TypeInit, FollowedInit
<1>2. ObserveTypeOK /\ Followed(book) /\ Numbered(book) /\ [Next]_vars
        => (ObserveTypeOK /\ Followed(book) /\ Numbered(book))'
  BY TypeInductive, FollowedInductive
<1>3. Followed(book) => EventsFollowLog
  BY DEF Followed, EventsFollowLog
<1> QED BY <1>1, <1>2, <1>3, PTL DEF Spec

-----------------------------------------------------------------------------
(* What the log tells of a request *)

\* LogTellsCalls but for the order of the numbers, which Numbered gives.
Told ==
  /\ \A r \in Requests :
       /\ state[r] = "upstream" => Answered(book, r)
       /\ state[r] = "502" => GotError(book, r)
       /\ state[r] \in {"new", "waiting"} /\ up # "exited" => Places(book, r) = {}
  /\ book.number - Len(book.log) <= faults

LEMMA RecordMissing ==
  ASSUME NEW b \in Book, NEW r \in Requests,
         NEW kind \in {"response", "error"}, NEW outcome \in Outcomes,
         NEW d, d = Record(b, r, kind, outcome)
  PROVE  d.number - Len(d.log) <= b.number - Len(b.log) + Cost(outcome)
<1>1. Len(b.log) \in Nat /\ b.number \in Nat /\ d.number = b.number + 1
  BY RecordedBook DEF Book
<1>2. outcome = "write" => Len(d.log) = Len(b.log)
  BY RecordPlaces
<1>3. outcome # "write" => Len(d.log) = Len(b.log) + 1
  BY RecordPlaces
<1> QED BY <1>1, <1>2, <1>3 DEF Cost

\* What a log says of a request stays said while others are recorded.
LEMMA Kept ==
  ASSUME NEW b \in Book, NEW d \in Book, NEW q \in Requests,
         Places(d, q) = Places(b, q),
         \A k \in 1 .. Len(b.log) : d.log[k] = b.log[k]
  PROVE  /\ Answered(b, q) => Answered(d, q)
         /\ GotError(b, q) => GotError(d, q)
<1>1. Places(b, q) \subseteq 1 .. Len(b.log)
  BY DEF Places
<1>2. \A k \in Places(b, q) : d.log[k].kind = b.log[k].kind
  BY <1>1
<1> QED BY <1>2 DEF Answered, GotError

\* A step that settles request r, from what it does to the book.
LEMMA SettleTold ==
  ASSUME ObserveTypeOK, Told, NEW r \in Requests, Arrived(r), NEW d \in Book,
         NEW answer \in {"upstream", "502"}, NEW cost \in Nat, NEW last \in Outcomes,
         Settle(r, d, answer, cost, last),
         \A q \in Requests \ {r} : Places(d, q) = Places(book, q),
         \A k \in 1 .. Len(book.log) : d.log[k] = book.log[k],
         d.number - Len(d.log) <= book.number - Len(book.log) + cost,
         last = "ok" => /\ answer = "upstream" => Answered(d, r)
                        /\ answer = "502" => GotError(d, r)
  PROVE  Told'
<1>1. book \in Book /\ book' = d /\ faults' = faults + cost /\ faults \in Nat
  BY ObserveAssumption DEF ObserveTypeOK, Settle
<1>2. book'.number - Len(book'.log) <= faults'
  <2>1. /\ book.number \in Nat /\ Len(book.log) \in Nat
        /\ d.number \in Nat /\ Len(d.log) \in Nat
    BY <1>1 DEF Book
  <2>2. book.number - Len(book.log) <= faults
    BY DEF Told
  <2>3. d.number - Len(d.log) <= faults + cost
    BY <1>1, <2>1, <2>2
  <2> QED BY <1>1, <2>3
<1>3. ASSUME NEW q \in Requests
      PROVE  /\ state'[q] = "upstream" => Answered(d, q)
             /\ state'[q] = "502" => GotError(d, q)
             /\ state'[q] \in {"new", "waiting"} /\ up' # "exited" => Places(d, q) = {}
  <2>1. CASE q = r
    <3>1. CASE last = "ok"
      BY <2>1, <3>1 DEF Settle, ObserveTypeOK
    <3>2. CASE last # "ok"
      BY <2>1, <3>2 DEF Settle, Exit, Arrived
    <3> QED BY <3>1, <3>2
  <2>2. CASE q # r
    <3>1. state'[q] = state[q] /\ (up' = up \/ up' = "exited")
      BY <2>2 DEF Settle, Exit, ObserveTypeOK
    <3>2. Places(d, q) = Places(book, q)
      BY <2>2
    <3>3. /\ Answered(book, q) => Answered(d, q)
          /\ GotError(book, q) => GotError(d, q)
      BY <1>1, <3>2, Kept
    <3> QED BY <3>1, <3>2, <3>3 DEF Told
  <2> QED BY <2>1, <2>2
<1>4. \A q \in Requests :
        /\ (Answered(book, q))' <=> Answered(d, q)
        /\ (GotError(book, q))' <=> GotError(d, q)
        /\ (Places(book, q))' = Places(d, q)
  BY <1>1 DEF Answered, GotError, Places
<1> QED BY <1>2, <1>3, <1>4 DEF Told

LEMMA ToldInit == Init => Told
BY DEF Init, Told, Places

LEMMA AnsweredTold ==
  ASSUME ObserveTypeOK, Told, NEW r \in Requests, UpstreamAnswers(r)
  PROVE  Told'
<1>1. PICK d : d = Record(book, r, "response", "ok")
  OBVIOUS
<1>2. book \in Book /\ d \in Book /\ Arrived(r) /\ Settle(r, d, "upstream", 0, "ok")
  BY <1>1, RecordedBook DEF ObserveTypeOK, UpstreamAnswers, Outcomes
<1>3. Places(book, r) = {}
  BY <1>2 DEF Told, Arrived
<1>4. Places(d, r) = {Len(book.log) + 1} /\ d.log[Len(book.log) + 1].kind = "response"
  BY <1>1, <1>2, <1>3, RecordPlaces DEF Outcomes
<1>5. Answered(d, r)
  BY <1>4 DEF Answered
<1>6. /\ \A q \in Requests \ {r} : Places(d, q) = Places(book, q)
      /\ \A k \in 1 .. Len(book.log) : d.log[k] = book.log[k]
  BY <1>1, <1>2, RecordPlaces DEF Outcomes
<1>7. d.number - Len(d.log) <= book.number - Len(book.log) + 0
  BY <1>1, <1>2, RecordMissing DEF Outcomes, Cost
<1> QED BY <1>2, <1>5, <1>6, <1>7, SettleTold DEF Outcomes

LEMMA FailedTold ==
  ASSUME ObserveTypeOK, Told, NEW r \in Requests, UpstreamFails(r)
  PROVE  Told'
<1>1. PICK last \in Outcomes :
        Settle(r, Caught(book, r, last), "502", Cost(last), last)
  BY DEF UpstreamFails
<1>2. PICK d : d = Record(book, r, "error", last)
  OBVIOUS
<1>3. book \in Book /\ d \in Book /\ Arrived(r) /\ Settle(r, d, "502", Cost(last), last)
  BY <1>1, <1>2, RecordedBook DEF ObserveTypeOK, UpstreamFails, Caught
<1>4. Places(book, r) = {} /\ Len(book.log) \in Nat /\ Cost(last) \in Nat
  BY <1>3 DEF Told, Arrived, Book, Cost
<1>5. last = "ok" => GotError(d, r)
  <2>1. last = "ok" => /\ Places(d, r) = {} \cup {Len(book.log) + 1}
                       /\ d.log[Len(book.log) + 1].kind = "error"
    BY <1>2, <1>3, <1>4, RecordPlaces
  <2> QED BY <1>4, <2>1 DEF GotError
<1>6. /\ \A q \in Requests \ {r} : Places(d, q) = Places(book, q)
      /\ \A k \in 1 .. Len(book.log) : d.log[k] = book.log[k]
  BY <1>2, <1>3, RecordPlaces
<1>7. d.number - Len(d.log) <= book.number - Len(book.log) + Cost(last)
  BY <1>2, <1>3, RecordMissing
<1> QED BY <1>3, <1>4, <1>5, <1>6, <1>7, SettleTold

LEMMA NotRecordedTold ==
  ASSUME ObserveTypeOK, Told, NEW r \in Requests, AnswerNotRecorded(r)
  PROVE  Told'
<1>1. PICK first \in Outcomes \ {"ok"}, last \in Outcomes :
        Settle(r, Caught(Record(book, r, "response", first), r, last), "502",
               1 + Cost(last), last)
  BY DEF AnswerNotRecorded
<1>2. PICK b : b = Record(book, r, "response", first)
  OBVIOUS
<1>3. PICK d : d = Record(b, r, "error", last)
  OBVIOUS
<1>4. book \in Book /\ b \in Book
  BY <1>2, RecordedBook DEF ObserveTypeOK
<1>5. d \in Book /\ Arrived(r) /\ Settle(r, d, "502", 1 + Cost(last), last)
  BY <1>1, <1>2, <1>3, <1>4, RecordedBook DEF AnswerNotRecorded, Caught
<1>6. /\ Places(book, r) = {} /\ Len(book.log) \in Nat /\ Len(b.log) \in Nat
      /\ book.number \in Nat /\ b.number \in Nat /\ d.number \in Nat /\ Len(d.log) \in Nat
  BY <1>4, <1>5 DEF Told, Arrived, Book
<1>7. /\ \A q \in Requests \ {r} : Places(b, q) = Places(book, q)
      /\ \A k \in 1 .. Len(book.log) : b.log[k] = book.log[k]
      /\ Len(b.log) \in Len(book.log) .. Len(book.log) + 1
      /\ Places(b, r) \subseteq {Len(b.log)}
  BY <1>2, <1>4, <1>6, RecordPlaces
<1>8. /\ \A q \in Requests \ {r} : Places(d, q) = Places(b, q)
      /\ \A k \in 1 .. Len(b.log) : d.log[k] = b.log[k]
      /\ last = "ok" => /\ Places(d, r) = Places(b, r) \cup {Len(b.log) + 1}
                        /\ d.log[Len(b.log) + 1].kind = "error"
  BY <1>3, <1>4, RecordPlaces
<1>9. last = "ok" => GotError(d, r)
  BY <1>6, <1>7, <1>8 DEF GotError
<1>10. \A k \in 1 .. Len(book.log) : d.log[k] = book.log[k]
  BY <1>6, <1>7, <1>8
<1>11. d.number - Len(d.log) <= book.number - Len(book.log) + (1 + Cost(last))
  <2>1. b.number - Len(b.log) <= book.number - Len(book.log) + 1
    BY <1>2, <1>4, RecordMissing DEF Cost
  <2>2. d.number - Len(d.log) <= b.number - Len(b.log) + Cost(last)
    BY <1>3, <1>4, RecordMissing
  <2>3. Cost(last) \in Nat
    BY DEF Cost
  <2> DEFINE missed(x) == x.number - Len(x.log)
  <2>4. missed(book) \in Int /\ missed(b) \in Int /\ missed(d) \in Int
    BY <1>6
  <2>5. missed(b) <= missed(book) + 1 /\ missed(d) <= missed(b) + Cost(last)
    BY <2>1, <2>2
  <2> HIDE DEF missed
  <2>6. missed(d) <= missed(book) + (1 + Cost(last))
    BY <2>3, <2>4, <2>5
  <2> QED BY <2>6 DEF missed
<1>12. 1 + Cost(last) \in Nat
  BY DEF Cost
<1> QED BY <1>5, <1>7, <1>8, <1>9, <1>10, <1>11, <1>12, SettleTold

LEMMA ToldInductive ==
  ASSUME ObserveTypeOK, Told, [Next]_vars
  PROVE  Told'
<1>1. ASSUME NEW r \in Requests, Call(r) PROVE Told'
  BY <1>1 DEF Call, Told, ObserveTypeOK, Answered, GotError, Places
<1>2. ASSUME NEW c \in Clients, Join(c) PROVE Told'
  <2>1. book'.log = book.log /\ book'.number = book.number
    BY <1>2 DEF Join, ObserveTypeOK, Book
  <2> QED BY <1>2, <2>1 DEF Join, Told, Answered, GotError, Places
<1>3. ASSUME NEW c \in Clients, Leave(c) PROVE Told'
  BY <1>3 DEF Leave, Told, Answered, GotError, Places
<1>4. CASE Shutdown
  BY <1>4 DEF Shutdown, Told, Answered, GotError, Places
<1>5. CASE Closed
  BY <1>5 DEF Closed, Exit, Told, Answered, GotError, Places
<1>6. CASE ForceExit
  BY <1>6 DEF ForceExit, Exit, Told, Answered, GotError, Places
<1>7. CASE UNCHANGED vars
  BY <1>7 DEF vars, Told, Answered, GotError, Places
<1> QED BY <1>1, <1>2, <1>3, <1>4, <1>5, <1>6, <1>7, AnsweredTold, FailedTold,
           NotRecordedTold
        DEF Next

\* The log tells what callers got, however requests interleave and appends fail
\* (server.ts 122-186).
THEOREM LogIsTrue == Spec => []LogTellsCalls
<1>1. Init => ObserveTypeOK /\ Followed(book) /\ Numbered(book) /\ Told
  BY TypeInit, FollowedInit, ToldInit
<1>2. ObserveTypeOK /\ Followed(book) /\ Numbered(book) /\ Told /\ [Next]_vars
        => (ObserveTypeOK /\ Followed(book) /\ Numbered(book) /\ Told)'
  BY TypeInductive, FollowedInductive, ToldInductive
<1>3. Numbered(book) /\ Told => LogTellsCalls
  BY DEF Numbered, Told, LogTellsCalls
<1> QED BY <1>1, <1>2, <1>3, PTL DEF Spec

\* Types of the proxy's state.
THEOREM ObserveTypeCorrect == Spec => []ObserveTypeOK
BY TypeInit, TypeInductive, PTL DEF Spec
=============================================================================
