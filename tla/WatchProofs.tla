------------------------------ MODULE WatchProofs ------------------------------
(***************************************************************************)
(* Proofs about module Watch: for a file of any number of lines, whole or  *)
(* torn, and any of them closing the workflow.                             *)
(***************************************************************************)
EXTENDS Watch, ChainVerifierProofs

Piece == [line : Lines, part : 1 .. 3]

\* The pieces of all lines, in the order of the file, have rising keys.
Key(p) == 3 * p.line + p.part

WatchTypes ==
  /\ WatchTypeOK
  /\ part \in 1 .. 3 /\ (line = 0 => part = 3)
  /\ ~ exists => content = << >>

PiecesRise ==
  /\ \A i, j \in 1 .. Len(content) : i < j => Key(content[i]) < Key(content[j])
  /\ \A i \in 1 .. Len(content) : Key(content[i]) <= 3 * line + part

\* The place of the file up to which the watcher has read: between a read and
\* the question for the size it is not the offset yet.
Seen == IF at \in {"measure", "measureDir"} THEN Len(content) ELSE offset

\* The lines ls rise, and begin within the first n of the pieces ps.
Begun(ps, ls, n) ==
  /\ \A k \in 1 .. Len(ls) : \E i \in 1 .. n : ps[i] = [line |-> ls[k], part |-> 1]
  /\ \A j, k \in 1 .. Len(ls) : j < k => ls[j] < ls[k]

\* What was printed was read, and nothing was before the file was there.
ShownRises ==
  /\ Begun(content, shown, Seen)
  /\ at \in {"seed", "registerDir", "waitDir"} => shown = << >> /\ offset = 0

\* If every line is written in one piece, a piece's key tells its place, and
\* the offset is at the end of a line.
WholeLines ==
  ~ torn => /\ part = 3 /\ Len(content) = 3 * line
            /\ \A i \in 1 .. Len(content) : Key(content[i]) = i + 3
            /\ \E m \in 0 .. line : offset = 3 * m

NothingLost ==
  /\ at # "stopped" => ~ summary
  /\ ~ torn /\ ~ raced =>
       \A l \in Lines : 3 * l <= Seen => Shown(l) \/ (summary /\ l > Last(shown))

-----------------------------------------------------------------------------
(* What is read of some pieces *)

\* The texts are read in their order, each once.
LEMMA ReceiptsInOrder ==
  ASSUME NEW ps \in Seq(Piece)
  PROVE  LET rs == ReceiptsIn(ps)
             S  == TextStarts(ps)
         IN  /\ rs \in Seq(Lines) /\ Len(rs) \in Nat
             /\ \E f \in [1 .. Len(rs) -> S] :
                  /\ \A k \in 1 .. Len(rs) : rs[k] = ps[f[k]].line
                  /\ \A j, k \in 1 .. Len(rs) : j < k => f[j] < f[k]
                  /\ \A i \in S : \E k \in 1 .. Len(rs) : f[k] = i
<1> DEFINE rs == ReceiptsIn(ps)
           S == TextStarts(ps)
           below == [i \in S |-> Before(ps, i)]
           n == Cardinality(S)
           f == [k \in 1 .. n |-> CHOOSE i \in S : Cardinality(Before(ps, i)) = k - 1]
<1>1. Len(ps) \in Nat /\ \A i \in S : i \in Nat /\ ps[i] \in Piece
  BY LenProperties, ElementOfSeq DEF TextStarts
<1>2. IsFiniteSet(S)
  BY <1>1, Interval, FS_Subset DEF TextStarts
<1>3. below \in [S -> SUBSET S]
  BY DEF Before
<1>4. \A i \in S : i \notin below[i]
  BY <1>1 DEF Before
<1>5. \A i, j \in S : i # j => i \in below[j] \/ j \in below[i]
  BY <1>1 DEF Before
<1>6. \A i, j \in S : i \in below[j] => below[i] \subseteq below[j]
  BY <1>1 DEF Before
<1>7. \A i \in S : below[i] = Before(ps, i)
  OBVIOUS
<1>8. rs = [k \in 1 .. n |-> ps[f[k]].line]
  BY DEF ReceiptsIn
<1>9. \A k \in 1 .. n : f[k] = CHOOSE i \in S : Cardinality(Before(ps, i)) = k - 1
  OBVIOUS
<1>10. f = [k \in 1 .. n |-> f[k]]
  OBVIOUS
<1> HIDE DEF below, S, f, rs
<1>11. /\ n \in Nat
       /\ \A i, j \in S : i \in below[j] => Cardinality(below[i]) < Cardinality(below[j])
       /\ \A i \in S : Cardinality(below[i]) \in 0 .. n - 1
       /\ \A k \in 0 .. n - 1 : \E i \in S : Cardinality(below[i]) = k
  BY <1>2, <1>3, <1>4, <1>5, <1>6, Ranking
<1>12. \A k \in 1 .. n : f[k] \in S /\ Cardinality(below[f[k]]) = k - 1
  <2> SUFFICES ASSUME NEW k \in 1 .. n PROVE f[k] \in S /\ Cardinality(below[f[k]]) = k - 1
    OBVIOUS
  <2>1. k - 1 \in 0 .. n - 1
    BY <1>11
  <2>2. \E i \in S : Cardinality(Before(ps, i)) = k - 1
    BY <1>7, <1>11, <2>1
  <2>3. f[k] \in S /\ Cardinality(Before(ps, f[k])) = k - 1
    BY <1>9, <2>2
  <2> QED BY <1>7, <2>3
<1>13. f \in [1 .. n -> S]
  BY <1>10, <1>12
<1>14. ASSUME NEW j \in 1 .. n, NEW k \in 1 .. n, j < k PROVE f[j] < f[k]
  <2>1. f[j] \in S /\ f[k] \in S /\ Cardinality(below[f[j]]) = j - 1 /\ Cardinality(below[f[k]]) = k - 1
    BY <1>12
  <2>2. f[j] # f[k]
    BY <1>11, <1>14, <2>1
  <2>3. f[k] \notin below[f[j]]
    BY <1>11, <1>14, <2>1
  <2>4. f[j] \in below[f[k]]
    BY <1>5, <2>1, <2>2, <2>3
  <2> QED BY <1>7, <2>1, <2>4 DEF Before
<1>15. ASSUME NEW i \in S PROVE \E k \in 1 .. n : f[k] = i
  <2> DEFINE k == Cardinality(below[i]) + 1
  <2>1. k \in 1 .. n /\ Cardinality(below[i]) = k - 1
    BY <1>11
  <2> HIDE DEF k
  <2>2. f[k] \in S /\ Cardinality(below[f[k]]) = k - 1
    BY <1>12, <2>1
  <2>3. f[k] \notin below[i] /\ i \notin below[f[k]]
    BY <1>11, <2>1, <2>2
  <2>4. f[k] = i
    BY <1>5, <2>2, <2>3
  <2> QED BY <2>1, <2>4
<1>16. rs \in Seq(Lines) /\ Len(rs) = n
  <2>1. \A k \in 1 .. n : ps[f[k]].line \in Lines
    BY <1>1, <1>12 DEF Piece
  <2>2. rs \in [1 .. n -> Lines]
    BY <1>8, <2>1
  <2> QED BY <1>11, <2>2
<1>17. \A k \in 1 .. n : rs[k] = ps[f[k]].line
  BY <1>8
<1>18. \E g \in [1 .. n -> S] :
          /\ \A k \in 1 .. n : rs[k] = ps[g[k]].line
          /\ \A j, k \in 1 .. n : j < k => g[j] < g[k]
          /\ \A i \in S : \E k \in 1 .. n : g[k] = i
  <2> WITNESS f \in [1 .. n -> S]
  <2> QED BY ONLY <1>14, <1>15, <1>17
<1>19. Len(rs) = n /\ Len(rs) \in Nat /\ rs \in Seq(Lines)
  BY <1>11, <1>16
<1>20. \E g \in [1 .. Len(rs) -> S] :
          /\ \A k \in 1 .. Len(rs) : rs[k] = ps[g[k]].line
          /\ \A j, k \in 1 .. Len(rs) : j < k => g[j] < g[k]
          /\ \A i \in S : \E k \in 1 .. Len(rs) : g[k] = i
  <2>0. PICK g \in [1 .. n -> S] :
          /\ \A k \in 1 .. n : rs[k] = ps[g[k]].line
          /\ \A j, k \in 1 .. n : j < k => g[j] < g[k]
          /\ \A i \in S : \E k \in 1 .. n : g[k] = i
    BY ONLY <1>18, Zenon
  <2>1. g \in [1 .. Len(rs) -> S]
    BY ONLY <1>19
  <2> WITNESS g \in [1 .. Len(rs) -> S]
  <2>2. \A k \in 1 .. Len(rs) : rs[k] = ps[g[k]].line
    BY ONLY <1>19, <2>0
  <2>3. \A j, k \in 1 .. Len(rs) : j < k => g[j] < g[k]
    BY ONLY <1>19, <2>0
  <2>4. \A i \in S : \E k \in 1 .. Len(rs) : g[k] = i
    BY ONLY <1>19, <2>0
  <2> QED BY ONLY <2>2, <2>3, <2>4, Zenon
<1> QED BY ONLY <1>19, <1>20, Zenon DEF rs, S

\* A key tells the line and the part, and the next key the next part.
LEMMA KeyTells ==
  ASSUME NEW a \in Piece, NEW l \in Nat, NEW p \in 1 .. 3, Key(a) = 3 * l + p
  PROVE  a.line = l /\ a.part = p
<1> DEFINE k == a.line
           q == a.part
<1>1. k \in Nat /\ q \in 1 .. 3 /\ 3 * k + q = 3 * l + p
  BY DEF Key, Piece, Lines
<1> HIDE DEF k, q
<1>2. k = l /\ q = p
  BY <1>1
<1> QED BY <1>2 DEF k, q

LEMMA NextKeyTells ==
  ASSUME NEW a \in Piece, NEW b \in Piece, Key(b) = Key(a) + 1
  PROVE  IF a.part = 3 THEN b.part = 1 ELSE b = [a EXCEPT !.part = @ + 1]
<1> DEFINE l == a.line
           p == a.part
           m == b.line
           q == b.part
<1>1. /\ l \in Nat /\ p \in 1 .. 3 /\ m \in Nat /\ q \in 1 .. 3
      /\ 3 * m + q = 3 * l + p + 1
  BY DEF Key, Piece, Lines
<1> HIDE DEF l, p, m, q
<1>2. IF p = 3 THEN q = 1 ELSE m = l /\ q = p + 1
  BY <1>1
<1> QED BY <1>2 DEF l, p, m, q, Piece

\* What is read from a place of the file on rises, and was written behind it.
LEMMA ReadsOn ==
  ASSUME WatchTypes, PiecesRise, NEW from \in 0 .. Len(content)
  PROVE  LET rs == Read(SubSeq(content, from + 1, Len(content)))
         IN  /\ rs \in Seq(Lines) /\ Len(rs) \in Nat
             /\ \A j, k \in 1 .. Len(rs) : j < k => rs[j] < rs[k]
             /\ \A k \in 1 .. Len(rs) : \E i \in from + 1 .. Len(content) :
                  content[i] = [line |-> rs[k], part |-> 1]
<1> DEFINE n == Len(content)
           ps == SubSeq(content, from + 1, n)
           rs == Read(ps)
<1>1. n \in Nat /\ \A i \in 1 .. n : content[i] \in Piece
  BY LenProperties, ElementOfSeq DEF WatchTypes, WatchTypeOK, Piece
<1>2. /\ ps \in Seq(Piece) /\ Len(ps) = n - from
      /\ \A i \in 1 .. n - from : ps[i] = content[from + i]
  <2>1. /\ ps \in Seq(Piece) /\ Len(ps) = IF from + 1 <= n THEN n - (from + 1) + 1 ELSE 0
        /\ \A i \in 1 .. n - (from + 1) + 1 : ps[i] = content[(from + 1) + i - 1]
    <3>1. \A i \in from + 1 .. n : content[i] \in Piece
      BY <1>1
    <3> QED BY <1>1, <3>1, SubSeqProperties
  <2> HIDE DEF ps
  <2> QED BY <1>1, <2>1
<1> HIDE DEF ps
<1>3. CASE ~ Parses(ps)
  <2>1. rs = << >>
    BY <1>3 DEF Read
  <2> HIDE DEF rs
  <2>2. /\ rs \in Seq(Lines) /\ Len(rs) \in Nat
        /\ \A k \in 1 .. Len(rs) : FALSE
    BY <2>1, EmptySeq
  <2> QED BY <2>2 DEF rs, ps
<1>4. CASE Parses(ps)
  <2>1. rs = ReceiptsIn(ps)
    BY <1>4 DEF Read
  <2> HIDE DEF rs
  <2>2. rs \in Seq(Lines) /\ Len(rs) \in Nat
    BY <1>2, <2>1, ReceiptsInOrder
  <2>3. PICK f \in [1 .. Len(rs) -> TextStarts(ps)] :
          /\ \A k \in 1 .. Len(rs) : rs[k] = ps[f[k]].line
          /\ \A j, k \in 1 .. Len(rs) : j < k => f[j] < f[k]
    BY <1>2, <2>1, ReceiptsInOrder
  <2>4. ASSUME NEW k \in 1 .. Len(rs)
        PROVE  /\ f[k] \in 1 .. n - from /\ from + f[k] \in from + 1 .. n /\ from + f[k] \in 1 .. n
               /\ content[from + f[k]] = [line |-> rs[k], part |-> 1]
    <3>1. f[k] \in 1 .. Len(ps) /\ ps[f[k]].part = 1
      BY DEF TextStarts
    <3>2. ps[f[k]] = content[from + f[k]] /\ ps[f[k]] \in Piece
      BY <1>2, <3>1, ElementOfSeq
    <3>3. ps[f[k]] = [line |-> ps[f[k]].line, part |-> 1]
      BY <3>1, <3>2 DEF Piece
    <3>4. f[k] \in 1 .. n - from /\ from + f[k] \in from + 1 .. n /\ from + f[k] \in 1 .. n
      BY <1>1, <1>2, <3>1
    <3>5. content[from + f[k]] = [line |-> rs[k], part |-> 1]
      BY ONLY <2>3, <3>2, <3>3
    <3> QED BY ONLY <3>4, <3>5
  <2>5. ASSUME NEW j \in 1 .. Len(rs), NEW k \in 1 .. Len(rs), j < k PROVE rs[j] < rs[k]
    <3>1. from + f[j] < from + f[k]
      <4>1. f[j] < f[k]
        BY <2>3, <2>5
      <4>2. f[j] \in 1 .. n - from /\ f[k] \in 1 .. n - from
        BY <2>4
      <4> QED BY <1>1, <4>1, <4>2
    <3>2. Key(content[from + f[j]]) < Key(content[from + f[k]])
      BY <2>4, <3>1 DEF PiecesRise
    <3>3. rs[j] \in Nat /\ rs[k] \in Nat
      <4>1. rs[j] \in Lines /\ rs[k] \in Lines
        BY <2>2, ElementOfSeq
      <4> QED BY <4>1 DEF Lines
    <3>4. 3 * rs[j] + 1 < 3 * rs[k] + 1
      <4>1. /\ content[from + f[j]].line = rs[j] /\ content[from + f[j]].part = 1
            /\ content[from + f[k]].line = rs[k] /\ content[from + f[k]].part = 1
        <5>1. /\ content[from + f[j]] = [line |-> rs[j], part |-> 1]
              /\ content[from + f[k]] = [line |-> rs[k], part |-> 1]
          BY <2>4
        <5> QED BY <5>1
      <4> QED BY <3>2, <4>1 DEF Key
    <3> QED BY <3>3, <3>4
  <2> QED BY <2>2, <2>4, <2>5 DEF rs, ps
<1> QED BY <1>3, <1>4

\* If every line is written in one piece, all of them are read.
LEMMA ReadsAll ==
  ASSUME WatchTypes, PiecesRise, WholeLines, ~ torn, NEW from \in 0 .. Len(content),
         NEW m \in 0 .. line, from = 3 * m
  PROVE  LET ps == SubSeq(content, from + 1, Len(content))
         IN  /\ Parses(ps)
             /\ \A l \in Lines : from < 3 * l /\ 3 * l <= Len(content) =>
                  \E k \in 1 .. Len(Read(ps)) : Read(ps)[k] = l
<1> DEFINE n == Len(content)
           ps == SubSeq(content, from + 1, n)
           q == n - from
<1>1. /\ n \in Nat /\ line \in Nat /\ n = 3 * line /\ m \in Nat
      /\ \A i \in 1 .. n : content[i] \in Piece /\ Key(content[i]) = i + 3
  <2>1. n \in Nat /\ \A i \in 1 .. n : content[i] \in Piece
    BY LenProperties, ElementOfSeq DEF WatchTypes, WatchTypeOK, Piece
  <2>2. line \in Nat
    BY WatchBounds DEF WatchTypes, WatchTypeOK
  <2>3. n = 3 * line /\ \A i \in 1 .. n : Key(content[i]) = i + 3
    BY DEF WholeLines
  <2> QED BY <2>1, <2>2, <2>3
<1>2. ps \in Seq(Piece) /\ Len(ps) = q /\ \A i \in 1 .. q : ps[i] = content[from + i]
  <2>1. /\ ps \in Seq(Piece) /\ Len(ps) = IF from + 1 <= n THEN n - (from + 1) + 1 ELSE 0
        /\ \A i \in 1 .. n - (from + 1) + 1 : ps[i] = content[(from + 1) + i - 1]
    <3>1. \A i \in from + 1 .. n : content[i] \in Piece
      BY <1>1
    <3> QED BY <1>1, <3>1, SubSeqProperties
  <2> HIDE DEF ps
  <2> QED BY <1>1, <2>1
<1> HIDE DEF ps
<1>3. ASSUME NEW i \in 1 .. q PROVE ps[i] \in Piece /\ Key(ps[i]) = from + i + 3
  <2>1. from + i \in 1 .. n
    BY <1>1
  <2> QED BY <1>1, <1>2, <2>1
<1>4. q \in Nat /\ q = 3 * (line - m)
  BY <1>1
<1>5. Parses(ps)
  <2> SUFFICES ASSUME NEW i \in 1 .. q
               PROVE  /\ ps[i].part = 1 => /\ TextStart(ps, i) /\ ~ TextEnd(ps, i)
                                           /\ ps[i+1] = [ps[i] EXCEPT !.part = 2]
                      /\ ps[i].part = 2 => ~ TextStart(ps, i) /\ TextEnd(ps, i)
    BY <1>2 DEF Parses
  <2>1. ASSUME i # 1
        PROVE  ps[i] = [ps[i-1] EXCEPT !.part = @ + 1] \/ (ps[i-1].part = 3 /\ ps[i].part = 1)
    <3>1. i - 1 \in 1 .. q
      BY <1>4, <2>1
    <3>2. ps[i-1] \in Piece /\ ps[i] \in Piece /\ Key(ps[i]) = Key(ps[i-1]) + 1
      BY <1>1, <1>3, <3>1
    <3> QED BY <3>2, NextKeyTells
  <2>2. ASSUME i # q
        PROVE  ps[i].part = 3 \/ ps[i+1] = [ps[i] EXCEPT !.part = @ + 1]
    <3>1. i + 1 \in 1 .. q
      BY <1>4, <2>2
    <3>2. ps[i+1] \in Piece /\ ps[i] \in Piece /\ Key(ps[i+1]) = Key(ps[i]) + 1
      BY <1>1, <1>3, <3>1
    <3> QED BY <3>2, NextKeyTells
  <2>3. ASSUME i = 1 PROVE ps[i].part = 1
    <3>1. Key(ps[i]) = 3 * (m + 1) + 1 /\ m + 1 \in Nat
      BY <1>1, <1>3, <2>3
    <3>2. ps[i] \in Piece /\ 1 \in 1 .. 3
      BY <1>3
    <3> QED BY <3>1, <3>2, KeyTells
  <2>4. ASSUME i = q PROVE ps[i].part = 3
    <3>1. Key(ps[i]) = 3 * line + 3
      BY <1>1, <1>3, <2>4
    <3>2. ps[i] \in Piece /\ 3 \in 1 .. 3 /\ line \in Nat
      BY <1>1, <1>3
    <3> QED BY <3>1, <3>2, KeyTells
  <2>5. ps[i] \in Piece /\ ps[i].part \in {1, 2, 3} /\ (i # 1 => ps[i-1] \in Piece)
    <3>1. i # 1 => i - 1 \in 1 .. q
      BY <1>4
    <3> QED BY <1>3, <3>1 DEF Piece
  <2>6. ASSUME i # 1 PROVE /\ ps[i].part = 1 => ps[i-1].part = 3
                           /\ ps[i].part = 2 => ps[i-1].part = 1
    BY <2>1, <2>5, <2>6 DEF Piece
  <2>7. ASSUME i # q PROVE /\ ps[i].part = 1 => ps[i+1] = [ps[i] EXCEPT !.part = 2] /\ ps[i+1].part = 2
                           /\ ps[i].part = 2 => ps[i+1].part = 3
    BY <2>2, <2>5, <2>7 DEF Piece
  <2>8. ASSUME ps[i].part = 1
        PROVE  TextStart(ps, i) /\ ~ TextEnd(ps, i) /\ ps[i+1] = [ps[i] EXCEPT !.part = 2]
    <3>1. i # q
      BY <2>4, <2>8
    <3> QED BY <1>2, <2>6, <2>7, <2>8, <3>1 DEF TextStart, TextEnd, Newline
  <2>9. ASSUME ps[i].part = 2 PROVE ~ TextStart(ps, i) /\ TextEnd(ps, i)
    <3>1. i # 1 /\ ps[i-1].part = 1
      BY <2>3, <2>6, <2>9
    <3>2. i = q \/ ps[i+1].part = 3
      BY <2>7, <2>9
    <3> QED BY <1>2, <3>1, <3>2 DEF TextStart, TextEnd, Newline
  <2> QED BY <2>8, <2>9
<1>6. ASSUME NEW l \in Lines, from < 3 * l, 3 * l <= n
      PROVE  \E k \in 1 .. Len(Read(ps)) : Read(ps)[k] = l
  <2> DEFINE i == 3 * (l - 1) + 1 - from
             rs == ReceiptsIn(ps)
  <2>1. i \in 1 .. q /\ from + i + 3 = 3 * l + 1 /\ l \in Nat
    BY <1>1, <1>4, <1>6 DEF Lines
  <2> HIDE DEF i
  <2>2. ps[i].line = l /\ ps[i].part = 1
    <3>1. ps[i] \in Piece /\ Key(ps[i]) = 3 * l + 1
      BY <1>3, <2>1
    <3> QED BY <2>1, <3>1, KeyTells
  <2>3. i \in TextStarts(ps)
    BY <1>2, <2>1, <2>2 DEF TextStarts
  <2>4. PICK f \in [1 .. Len(rs) -> TextStarts(ps)] :
          /\ \A k \in 1 .. Len(rs) : rs[k] = ps[f[k]].line
          /\ \A j \in TextStarts(ps) : \E k \in 1 .. Len(rs) : f[k] = j
    BY <1>2, ReceiptsInOrder
  <2>5. PICK k \in 1 .. Len(rs) : f[k] = i
    BY <2>3, <2>4
  <2>6. rs[k] = l
    BY <2>2, <2>4, <2>5
  <2> QED BY <1>5, <2>6 DEF Read
<1> QED BY <1>5, <1>6 DEF ps

\* What is printed of them is the beginning, up to one that closes the
\* workflow.
LEMMA ClosesAt ==
  ASSUME NEW rs \in Seq(Lines)
  PROVE  \E n \in 0 .. Len(rs) :
           /\ UpToClosed(rs) \in Seq(Lines) /\ Len(UpToClosed(rs)) = n
           /\ \A k \in 1 .. n : UpToClosed(rs)[k] = rs[k]
           /\ IF HasClosed(rs) THEN n > 0 ELSE n = Len(rs)
<1>1. Len(rs) \in Nat /\ \A k \in 1 .. Len(rs) : rs[k] \in Lines
  BY LenProperties, ElementOfSeq
<1>2. CASE ~ HasClosed(rs)
  BY <1>1, <1>2 DEF UpToClosed
<1>3. CASE HasClosed(rs)
  <2> DEFINE T == {i \in 1 .. Len(rs) : rs[i] \in Closing}
             First(i) == rs[i] \in Closing /\ \A j \in 1 .. i - 1 : rs[j] \notin Closing
             n == CHOOSE i \in 1 .. Len(rs) : First(i)
  <2>1. PICK m \in T : \A j \in T : m <= j
    <3>1. T \in SUBSET Nat /\ T # {}
      BY <1>3 DEF HasClosed
    <3> HIDE DEF T
    <3> QED BY <3>1, LeastNumber
  <2>2. m \in 1 .. Len(rs) /\ First(m)
    <3>1. \A j \in 1 .. m - 1 : j \in 1 .. Len(rs) /\ ~ (m <= j)
      BY <1>1
    <3> QED BY <2>1, <3>1
  <2> HIDE DEF First
  <2>3. n \in 1 .. Len(rs)
    BY <2>2
  <2>4. UpToClosed(rs) = SubSeq(rs, 1, n)
    BY <1>3 DEF UpToClosed, First
  <2> HIDE DEF n
  <2>5. /\ SubSeq(rs, 1, n) \in Seq(Lines) /\ Len(SubSeq(rs, 1, n)) = n
        /\ \A k \in 1 .. n : SubSeq(rs, 1, n)[k] = rs[k]
    <3>1. \A k \in 1 .. n : rs[k] \in Lines
      BY <1>1, <2>3
    <3>2. /\ SubSeq(rs, 1, n) \in Seq(Lines)
          /\ Len(SubSeq(rs, 1, n)) = IF 1 <= n THEN n - 1 + 1 ELSE 0
          /\ \A k \in 1 .. n - 1 + 1 : SubSeq(rs, 1, n)[k] = rs[1 + k - 1]
      BY <1>1, <2>3, <3>1, SubSeqProperties
    <3> QED BY <1>1, <2>3, <3>2
  <2> QED BY <1>1, <1>3, <2>3, <2>4, <2>5
<1> QED BY <1>2, <1>3

-----------------------------------------------------------------------------
(* The steps of the writer and the types *)

LEMMA TypesMean ==
  ASSUME WatchTypes
  PROVE  /\ content \in Seq(Piece) /\ Len(content) \in Nat /\ offset \in 0 .. Len(content)
         /\ shown \in Seq(Lines) /\ Len(shown) \in Nat
         /\ line \in Nat /\ part \in 1 .. 3 /\ MaxLines \in Nat
         /\ Seen \in 0 .. Len(content)
<1>1. /\ content \in Seq(Piece) /\ offset \in 0 .. Len(content) /\ shown \in Seq(Lines)
      /\ line \in 0 .. MaxLines /\ part \in 1 .. 3
  BY DEF WatchTypes, WatchTypeOK, Piece
<1>2. Len(content) \in Nat /\ Len(shown) \in Nat
  BY <1>1, LenProperties
<1> QED BY <1>1, <1>2, WatchBounds DEF Seen

LEMMA AppendsMore ==
  ASSUME WatchTypes, NEW l \in Lines, NEW from \in 0 .. 2, NEW n \in 1 .. 3, Appends(l, from, n)
  PROVE  /\ content' \in Seq(Piece) /\ Len(content') = Len(content) + n
         /\ \A i \in 1 .. Len(content) : content'[i] = content[i]
         /\ \A i \in Len(content) + 1 .. Len(content) + n :
              content'[i] \in Piece /\ Key(content'[i]) = 3 * l + from + (i - Len(content))
         /\ line' = l /\ part' = from + n /\ part' \in 1 .. 3
<1> DEFINE m == Len(content)
           new == [i \in 1 .. n |-> [line |-> l, part |-> from + i]]
<1>1. content \in Seq(Piece) /\ m \in Nat
  BY TypesMean
<1>2. from + n <= 3 /\ content' = content \o new /\ line' = l /\ part' = from + n
  BY DEF Appends
<1>3. \A i \in 1 .. n : new[i] = [line |-> l, part |-> from + i] /\ new[i] \in Piece
  <2>1. \A i \in 1 .. n : from + i \in 1 .. 3
    BY <1>2
  <2> QED BY <2>1 DEF Piece
<1>4. new \in Seq(Piece) /\ Len(new) = n
  <2>1. new \in [1 .. n -> Piece]
    BY <1>3
  <2> HIDE DEF new
  <2> QED BY <2>1
<1> HIDE DEF new
<1>5. /\ content' \in Seq(Piece) /\ Len(content') = m + n
      /\ \A i \in 1 .. m + n : content'[i] = IF i <= m THEN content[i] ELSE new[i - m]
  BY <1>1, <1>2, <1>4, ConcatProperties
<1>6. \A i \in 1 .. m : content'[i] = content[i]
  BY <1>1, <1>5
<1>7. ASSUME NEW i \in m + 1 .. m + n
      PROVE  content'[i] \in Piece /\ Key(content'[i]) = 3 * l + from + (i - m)
  <2>1. i - m \in 1 .. n /\ i \in 1 .. m + n /\ ~ (i <= m)
    BY <1>1
  <2>2. content'[i] = [line |-> l, part |-> from + (i - m)] /\ content'[i] \in Piece
    BY <1>3, <1>5, <2>1
  <2>3. l \in Nat
    BY DEF Lines
  <2> QED BY <2>1, <2>2, <2>3 DEF Key
<1>8. part' \in 1 .. 3
  BY <1>2
<1> QED BY <1>2, <1>5, <1>6, <1>7, <1>8

\* BeginLine and ContinueLine in one form.
LEMMA WriterCases ==
  ASSUME WatchTypes, Writer
  PROVE  \/ CreateFile
         \/ \E l \in Lines, from \in 0 .. 2, n \in 1 .. 3 :
              /\ Appends(l, from, n) /\ 3 * line + part <= 3 * l + from /\ line <= l
              /\ n = 3 => l = line + 1 /\ from = 0
<1>1. line \in Nat /\ part \in 1 .. 3 /\ MaxLines \in Nat /\ line <= MaxLines /\ (line = 0 => part = 3)
  BY TypesMean DEF WatchTypes, WatchTypeOK
<1>2. CASE BeginLine
  <2>1. PICK n \in 1 .. 3 : Appends(line + 1, 0, n)
    BY <1>2 DEF BeginLine
  <2>2. line + 1 \in Lines /\ 3 * line + part <= 3 * (line + 1) + 0
    BY <1>1, <1>2 DEF BeginLine, Lines
  <2>3. 0 \in 0 .. 2 /\ line <= line + 1
    BY <1>1
  <2> QED BY <2>1, <2>2, <2>3
<1>3. CASE ContinueLine
  <2>1. PICK n \in 1 .. 2 : Appends(line, part, n)
    BY <1>3 DEF ContinueLine
  <2>2. line \in Lines /\ part \in 0 .. 2 /\ n \in 1 .. 3 /\ n # 3
    BY <1>1, <1>3 DEF ContinueLine, Lines
  <2>3. 3 * line + part <= 3 * line + part /\ line <= line
    BY <1>1
  <2> QED BY <2>1, <2>2, <2>3
<1> QED BY <1>2, <1>3 DEF Writer

LEMMA WatchTypesInit == WatchInit => WatchTypes
<1> SUFFICES ASSUME WatchInit PROVE WatchTypes
  OBVIOUS
<1>1. content \in Seq([line : Lines, part : 1 .. 3]) /\ shown \in Seq(Lines) /\ Len(content) = 0
  BY DEF WatchInit
<1>2. exists \in BOOLEAN /\ event \in BOOLEAN /\ summary \in BOOLEAN /\ torn \in BOOLEAN /\ raced \in BOOLEAN
  BY Zenon DEF WatchInit
<1>3. line \in 0 .. MaxLines /\ part \in 0 .. 3 /\ part \in 1 .. 3 /\ offset \in 0 .. Len(content)
  BY <1>1, WatchBounds DEF WatchInit
<1>4. at \in Points /\ part = 3 /\ content = << >>
  BY DEF WatchInit, Points
<1> QED BY <1>1, <1>2, <1>3, <1>4, Zenon DEF WatchTypes, WatchTypeOK

\* What the reads of the seed and of the directory's event find.
LEMMA ReadsFile ==
  ASSUME WatchTypes
  PROVE  0 \in 0 .. Len(content) /\ SubSeq(content, 0 + 1, Len(content)) = content
<1>1. content \in Seq(Piece) /\ Len(content) \in Nat /\ 0 + 1 = 1
  BY TypesMean
<1> QED BY <1>1, SubSeqFull

LEMMA ReadIsLines ==
  ASSUME WatchTypes, NEW from \in 0 .. Len(content)
  PROVE  Read(SubSeq(content, from + 1, Len(content))) \in Seq(Lines)
<1> DEFINE ps == SubSeq(content, from + 1, Len(content))
<1>1. Len(content) \in Nat /\ \A i \in from + 1 .. Len(content) : content[i] \in Piece
  BY TypesMean, ElementOfSeq
<1>2. ps \in Seq(Piece)
  BY <1>1, SubSeqProperties
<1> HIDE DEF ps
<1>3. ReceiptsIn(ps) \in Seq(Lines) /\ << >> \in Seq(Lines)
  BY <1>2, ReceiptsInOrder, EmptySeq
<1>4. Read(ps) \in Seq(Lines)
  BY <1>3 DEF Read
<1> QED BY <1>4 DEF ps

\* The three reads in one form: what is read behind the offset is printed, up
\* to a receipt that closes the workflow or all of it.
Prints ==
  \E rs : /\ rs = Read(SubSeq(content, offset + 1, Len(content)))
          /\ \/ /\ at = "watching" /\ shown' = shown \o UpToClosed(rs)
                /\ summary' = (summary \/ HasClosed(rs)) /\ offset' = Len(content)
                /\ at' = IF HasClosed(rs) THEN "stopped" ELSE "watching"
             \/ /\ at = "seed" /\ shown' = shown \o rs /\ summary' = summary /\ offset' = offset
                /\ at' = "measure"
             \/ /\ at = "waitDir" /\ shown' = shown \o rs /\ summary' = summary /\ offset' = offset
                /\ at' = IF Parses(content) THEN "measureDir" ELSE "register"

\* The other steps of the watcher: at most the offset is taken from the size.
Moves ==
  /\ UNCHANGED <<shown, summary>>
  /\ \/ at = "measure" /\ at' = "choose" /\ offset' = Len(content)
     \/ at = "measureDir" /\ at' = "register" /\ offset' = Len(content)
     \/ at = "choose" /\ at' = "register" /\ offset' = offset
     \/ at = "choose" /\ at' = "registerDir" /\ offset' = offset /\ ~ exists
     \/ at = "register" /\ at' = "watching" /\ offset' = offset
     \/ at = "registerDir" /\ at' = "waitDir" /\ offset' = offset
     \/ at \in {"waitDir", "watching"} /\ at' = "stopped" /\ offset' = offset

\* Every step is one of four.
LEMMA WatchStepCases ==
  ASSUME WatchTypes, ShownRises, [WatchNext]_watchVars
  PROVE  \/ Writer
         \/ /\ Prints \/ Moves
            /\ UNCHANGED file /\ UNCHANGED raced /\ (event' = FALSE \/ event' = event)
         \/ UNCHANGED watchVars
<1>1. CASE Seed
  <2>1. at = "seed" /\ at' = "measure" /\ shown' = Read(content) /\ summary' = summary /\ offset' = offset
    BY <1>1 DEF Seed, Goto
  <2>2. shown = << >> /\ offset = 0
    BY <2>1 DEF ShownRises
  <2>3. Read(content) = Read(SubSeq(content, offset + 1, Len(content)))
    BY <2>2, ReadsFile
  <2>4. << >> \o Read(content) = Read(content)
    <3>1. Read(content) \in Seq(Lines)
      BY ReadsFile, ReadIsLines
    <3> QED BY <3>1, ConcatEmptySeq
  <2> QED BY <1>1, <2>1, <2>2, <2>3, <2>4 DEF Seed, Prints
<1>2. CASE DirEvent
  <2>1. /\ at = "waitDir" /\ at' = IF Parses(content) THEN "measureDir" ELSE "register"
        /\ shown' = shown \o Read(content) /\ summary' = summary /\ offset' = offset
    BY <1>2 DEF DirEvent, Goto
  <2>2. offset = 0
    BY <2>1 DEF ShownRises
  <2>3. Read(content) = Read(SubSeq(content, offset + 1, Len(content)))
    BY <2>2, ReadsFile
  <2> QED BY <1>2, <2>1, <2>3 DEF DirEvent, Prints
<1>3. CASE FileEvent
  <2>1. Prints
    BY <1>3 DEF FileEvent, Goto, NextOffset, Prints
  <2> QED BY <1>3, <2>1 DEF FileEvent
<1>4. CASE Measure
  BY <1>4 DEF Measure, Goto, Moves
<1>5. CASE MeasureDir
  BY <1>5 DEF MeasureDir, Goto, Moves
<1>6. CASE Choose
  BY <1>6 DEF Choose, Goto, Moves
<1>7. CASE Register
  BY <1>7 DEF Register, Goto, Moves
<1>8. CASE RegisterDir
  BY <1>8 DEF RegisterDir, Goto, Moves
<1>9. CASE Interrupt
  BY <1>9 DEF Interrupt, Goto, Moves
<1> QED BY <1>1, <1>2, <1>3, <1>4, <1>5, <1>6, <1>7, <1>8, <1>9 DEF WatchNext, Follow

LEMMA WatchTypesNext ==
  ASSUME WatchTypes, ShownRises, [WatchNext]_watchVars
  PROVE  WatchTypes'
<1>1. /\ content \in Seq(Piece) /\ Len(content) \in Nat /\ offset \in 0 .. Len(content)
      /\ shown \in Seq(Lines) /\ line \in 0 .. MaxLines
  BY TypesMean DEF WatchTypes, WatchTypeOK
<1>2. CASE CreateFile
  <2>1. exists' \in BOOLEAN /\ event' \in BOOLEAN /\ exists'
    BY <1>2 DEF CreateFile, Notify, WatchTypes, WatchTypeOK
  <2>2. UNCHANGED <<content, line, part, torn, raced, at, offset, shown, summary>>
    BY <1>2 DEF CreateFile, Watcher
  <2> QED BY <2>1, <2>2 DEF WatchTypes, WatchTypeOK
<1>3. ASSUME NEW l \in Lines, NEW from \in 0 .. 2, NEW n \in 1 .. 3, Appends(l, from, n), line <= l
      PROVE  WatchTypes'
  <2>1. /\ content' \in Seq(Piece) /\ Len(content') = Len(content) + n
        /\ line' = l /\ part' \in 1 .. 3
    BY <1>3, AppendsMore
  <2>2. l \in 0 .. MaxLines /\ l # 0 /\ offset \in 0 .. Len(content) + n /\ part' \in 0 .. 3
    BY <1>1, <2>1 DEF Lines
  <2>3. exists' = exists /\ exists
    BY <1>3 DEF Appends
  <2>4. event' \in BOOLEAN /\ torn' \in BOOLEAN /\ raced' \in BOOLEAN
    BY <1>3 DEF Appends, Notify, Grows, WatchTypes, WatchTypeOK
  <2>5. UNCHANGED <<at, offset, shown, summary>>
    BY <1>3 DEF Appends, Watcher
  <2> QED BY <2>1, <2>2, <2>3, <2>4, <2>5 DEF WatchTypes, WatchTypeOK, Piece
<1>4. ASSUME UNCHANGED file, UNCHANGED raced, event' = FALSE \/ event' = event,
             at' \in Points, offset' \in 0 .. Len(content), shown' \in Seq(Lines), summary' \in BOOLEAN
      PROVE  WatchTypes'
  <2>1. event' \in BOOLEAN
    BY <1>4 DEF WatchTypes, WatchTypeOK
  <2> QED BY <1>4, <2>1 DEF WatchTypes, WatchTypeOK, file
<1>5. ASSUME Prints, UNCHANGED file, UNCHANGED raced, event' = FALSE \/ event' = event PROVE WatchTypes'
  <2>1. PICK rs : /\ rs = Read(SubSeq(content, offset + 1, Len(content)))
                  /\ \/ shown' = shown \o UpToClosed(rs) /\ summary' = (summary \/ HasClosed(rs))
                        /\ offset' = Len(content)
                     \/ shown' = shown \o rs /\ summary' = summary /\ offset' = offset
                  /\ at' \in Points
    BY <1>5 DEF Prints, Points
  <2>2. rs \in Seq(Lines) /\ UpToClosed(rs) \in Seq(Lines)
    <3>1. rs \in Seq(Lines)
      BY <1>1, <2>1, ReadIsLines
    <3> QED BY <3>1, ClosesAt
  <2>3. shown' \in Seq(Lines)
    <3>1. shown \in Seq(Lines)
      BY ONLY <1>1
    <3>2. shown \o rs \in Seq(Lines) /\ shown \o UpToClosed(rs) \in Seq(Lines)
      BY ONLY <2>2, <3>1, ConcatProperties
    <3> QED BY ONLY <2>1, <3>2
  <2>4. offset' \in 0 .. Len(content)
    BY <1>1, <2>1
  <2>5. summary' \in BOOLEAN
    BY <2>1 DEF HasClosed, WatchTypes, WatchTypeOK
  <2> QED BY <1>4, <1>5, <2>1, <2>3, <2>4, <2>5
<1>6. ASSUME Moves, UNCHANGED file, UNCHANGED raced, event' = FALSE \/ event' = event PROVE WatchTypes'
  <2>1. at' \in Points /\ offset' \in 0 .. Len(content) /\ shown' = shown /\ summary' = summary
    BY <1>1, <1>6 DEF Moves, Points
  <2>2. summary \in BOOLEAN
    BY DEF WatchTypes, WatchTypeOK
  <2> QED BY <1>1, <1>4, <1>6, <2>1, <2>2
<1>7. CASE UNCHANGED watchVars
  BY <1>7 DEF watchVars, WatchTypes, WatchTypeOK
<1>8. CASE Writer
  BY <1>2, <1>3, <1>8, WriterCases
<1> QED BY <1>5, <1>6, <1>7, <1>8, WatchStepCases

-----------------------------------------------------------------------------
(* The pieces are in the order of the lines *)

LEMMA PiecesRiseInit == WatchInit => PiecesRise
  BY DEF WatchInit, PiecesRise

LEMMA PiecesRiseNext ==
  ASSUME WatchTypes, PiecesRise, ShownRises, [WatchNext]_watchVars
  PROVE  PiecesRise'
<1>1. CASE UNCHANGED <<content, line, part>>
  BY <1>1 DEF PiecesRise
<1>2. ASSUME NEW l \in Lines, NEW from \in 0 .. 2, NEW n \in 1 .. 3, Appends(l, from, n),
             3 * line + part <= 3 * l + from
      PROVE  PiecesRise'
  <2> DEFINE m == Len(content)
             old == 3 * line + part
             new == 3 * l + from
  <2>1. m \in Nat /\ old \in Nat /\ new \in Nat /\ old <= new /\ \A i \in 1 .. m : Key(content[i]) \in Nat
    <3>1. \A i \in 1 .. m : content[i] \in Piece
      BY TypesMean, ElementOfSeq
    <3>2. \A p \in Piece : Key(p) \in Nat
      BY DEF Key, Piece, Lines
    <3>3. l \in Nat /\ line \in Nat /\ part \in Nat /\ m \in Nat
      BY TypesMean DEF Lines
    <3> QED BY <1>2, <3>1, <3>2, <3>3
  <2>2. /\ Len(content') = m + n /\ 3 * line' + part' = new + n
        /\ \A i \in 1 .. m : content'[i] = content[i]
        /\ \A i \in m + 1 .. m + n : Key(content'[i]) = new + (i - m)
    <3>1. /\ Len(content') = m + n
          /\ \A i \in 1 .. m : content'[i] = content[i]
          /\ \A i \in m + 1 .. m + n : Key(content'[i]) = 3 * l + from + (i - m)
          /\ line' = l /\ part' = from + n
      <4>1. WatchTypes /\ Appends(l, from, n) /\ l \in Lines /\ from \in 0 .. 2 /\ n \in 1 .. 3
        BY <1>2
      <4>2. /\ content' \in Seq(Piece) /\ Len(content') = Len(content) + n
            /\ \A i \in 1 .. Len(content) : content'[i] = content[i]
            /\ \A i \in Len(content) + 1 .. Len(content) + n :
                   /\ content'[i] \in Piece
                   /\ Key(content'[i]) = 3 * l + from + (i - Len(content))
            /\ line' = l /\ part' = from + n /\ part' \in 1 .. 3
        BY ONLY <4>1, AppendsMore
      <4> QED BY ONLY <4>2
    <3>2. 3 * l + (from + n) = new + n
      BY DEF Lines
    <3> QED BY <3>1, <3>2
  <2>3. \A i \in 1 .. m : Key(content[i]) <= old
    BY DEF PiecesRise
  <2> HIDE DEF old, new
  <2>4. \A i \in 1 .. m + n : IF i <= m THEN i \in 1 .. m ELSE i \in m + 1 .. m + n
    BY <2>1
  <2>5. ASSUME NEW i \in 1 .. m + n, NEW j \in 1 .. m + n, i < j PROVE Key(content'[i]) < Key(content'[j])
    <3>1. CASE j <= m
      <4>1. i \in 1 .. m /\ j \in 1 .. m
        BY <2>1, <2>5, <3>1
      <4> QED BY <2>2, <2>5, <4>1 DEF PiecesRise
    <3>2. CASE i <= m /\ ~ (j <= m)
      <4>1. Key(content'[i]) = Key(content[i]) /\ Key(content[i]) <= old /\ Key(content[i]) \in Nat
        BY <2>1, <2>2, <2>3, <2>4, <3>2
      <4>2. Key(content'[j]) = new + (j - m) /\ j - m > 0
        BY <2>1, <2>2, <2>4, <3>2
      <4> QED BY <2>1, <4>1, <4>2
    <3>3. CASE ~ (i <= m)
      <4>1. i \in m + 1 .. m + n /\ j \in m + 1 .. m + n
        BY <2>1, <2>5, <3>3
      <4>2. Key(content'[i]) = new + (i - m) /\ Key(content'[j]) = new + (j - m)
        BY <2>2, <4>1
      <4> QED BY <2>1, <2>5, <4>1, <4>2
    <3> QED BY <2>1, <2>5, <3>1, <3>2, <3>3
  <2>6. ASSUME NEW i \in 1 .. m + n PROVE Key(content'[i]) <= new + n
    <3>1. CASE i <= m
      <4>1. Key(content'[i]) = Key(content[i]) /\ Key(content[i]) <= old /\ Key(content[i]) \in Nat
        BY <2>1, <2>2, <2>3, <2>4, <3>1
      <4> QED BY <2>1, <4>1
    <3>2. CASE ~ (i <= m)
      <4>1. Key(content'[i]) = new + (i - m) /\ i - m <= n
        BY <2>1, <2>2, <2>4, <3>2
      <4> QED BY <2>1, <4>1
    <3> QED BY <3>1, <3>2
  <2> QED BY <2>2, <2>5, <2>6 DEF PiecesRise
<1>3. CASE Writer
  <2>1. CreateFile => UNCHANGED <<content, line, part>>
    BY DEF CreateFile
  <2> QED BY <1>1, <1>2, <1>3, <2>1, WriterCases
<1> QED BY <1>1, <1>3, WatchStepCases DEF file, watchVars

-----------------------------------------------------------------------------
(* Once, and in order *)

LEMMA BegunStays ==
  ASSUME NEW ps, NEW qs, NEW ls, NEW n \in Nat, NEW m \in Nat, n <= m, Begun(ps, ls, n),
         \A i \in 1 .. n : qs[i] = ps[i]
  PROVE  Begun(qs, ls, m)
<1>1. \A i \in 1 .. n : i \in 1 .. m
  OBVIOUS
<1> QED BY <1>1 DEF Begun

\* What is read behind a place is printed behind what was read before it.
LEMMA PrintsMore ==
  ASSUME WatchTypes, PiecesRise, NEW from \in 0 .. Len(content), Begun(content, shown, from),
         NEW rs \in Seq(Lines), \A j, k \in 1 .. Len(rs) : j < k => rs[j] < rs[k],
         \A k \in 1 .. Len(rs) : \E i \in from + 1 .. Len(content) :
           content[i] = [line |-> rs[k], part |-> 1]
  PROVE  Begun(content, shown \o rs, Len(content))
<1> DEFINE n == Len(content)
           a == Len(shown)
           b == Len(rs)
           ls == shown \o rs
<1>1. n \in Nat /\ a \in Nat /\ b \in Nat /\ shown \in Seq(Lines)
  BY TypesMean, LenProperties
<1>2. /\ Len(ls) = a + b
      /\ \A k \in 1 .. a + b : ls[k] = IF k <= a THEN shown[k] ELSE rs[k - a]
  BY <1>1, ConcatProperties
<1> HIDE DEF ls
<1>3. \A k \in 1 .. a + b : IF k <= a THEN k \in 1 .. a /\ ls[k] = shown[k]
                                      ELSE k - a \in 1 .. b /\ ls[k] = rs[k - a]
  BY <1>1, <1>2
<1>4. ASSUME NEW k \in 1 .. a + b PROVE \E i \in 1 .. n : content[i] = [line |-> ls[k], part |-> 1]
  <2>1. CASE k <= a
    <3>1. \E i \in 1 .. from : content[i] = [line |-> ls[k], part |-> 1]
      BY <1>3, <2>1 DEF Begun
    <3>2. \A i \in 1 .. from : i \in 1 .. n
      BY <1>1
    <3> QED BY <3>1, <3>2
  <2>2. CASE ~ (k <= a)
    <3>1. \E i \in from + 1 .. n : content[i] = [line |-> ls[k], part |-> 1]
      BY <1>3, <2>2
    <3>2. \A i \in from + 1 .. n : i \in 1 .. n
      BY <1>1
    <3> QED BY <3>1, <3>2
  <2> QED BY <2>1, <2>2
<1>5. ASSUME NEW j \in 1 .. a, NEW k \in 1 .. b PROVE shown[j] < rs[k]
  <2>1. PICK i \in 1 .. from : content[i] = [line |-> shown[j], part |-> 1]
    BY DEF Begun
  <2>2. PICK m \in from + 1 .. n : content[m] = [line |-> rs[k], part |-> 1]
    OBVIOUS
  <2>3. Key(content[i]) < Key(content[m])
    <3>1. i \in 1 .. n /\ m \in 1 .. n /\ i < m
      BY <1>1
    <3> QED BY <3>1 DEF PiecesRise
  <2>4. shown[j] \in Nat /\ rs[k] \in Nat
    <3>1. shown[j] \in Lines /\ rs[k] \in Lines
      BY <1>1, ElementOfSeq
    <3> QED BY <3>1 DEF Lines
  <2>5. Key(content[i]) = 3 * shown[j] + 1 /\ Key(content[m]) = 3 * rs[k] + 1
    BY <2>1, <2>2 DEF Key
  <2>6. 3 * shown[j] + 1 < 3 * rs[k] + 1
    BY ONLY <2>3, <2>5
  <2>7. \A x, y \in Nat : 3 * x + 1 < 3 * y + 1 => x < y
    OBVIOUS
  <2> QED BY ONLY <2>4, <2>6, <2>7
<1>6. ASSUME NEW j \in 1 .. a + b, NEW k \in 1 .. a + b, j < k PROVE ls[j] < ls[k]
  <2>1. CASE k <= a
    <3>1. j <= a
      BY <1>1, <1>6, <2>1
    <3> QED BY <1>3, <1>6, <2>1, <3>1 DEF Begun
  <2>2. CASE j <= a /\ ~ (k <= a)
    BY <1>3, <1>5, <2>2
  <2>3. CASE ~ (j <= a)
    <3>1. ~ (k <= a) /\ j - a < k - a
      BY <1>1, <1>6, <2>3
    <3> QED BY <1>3, <2>3, <3>1
  <2> QED BY <2>1, <2>2, <2>3
<1> QED BY <1>2, <1>4, <1>6 DEF Begun, ls

LEMMA ShownRisesInit == WatchInit => ShownRises
  BY DEF WatchInit, ShownRises, Begun

LEMMA ShownRisesNext ==
  ASSUME WatchTypes, PiecesRise, ShownRises, [WatchNext]_watchVars
  PROVE  ShownRises'
<1> DEFINE n == Len(content)
<1>1. n \in Nat /\ offset \in 0 .. n /\ Seen \in 0 .. n /\ Begun(content, shown, Seen)
  BY TypesMean DEF ShownRises
<1>2. ASSUME Writer PROVE ShownRises'
  <2>1. UNCHANGED <<at, offset, shown, summary>>
    BY <1>2, WriterCases DEF CreateFile, Appends, Watcher
  <2>2. /\ Len(content') \in Nat /\ n <= Len(content')
        /\ \A i \in 1 .. n : content'[i] = content[i]
    <3>1. CASE CreateFile
      BY <1>1, <3>1 DEF CreateFile
    <3>2. ASSUME NEW l \in Lines, NEW from \in 0 .. 2, NEW k \in 1 .. 3, Appends(l, from, k)
          PROVE  Len(content') \in Nat /\ n <= Len(content') /\ \A i \in 1 .. n : content'[i] = content[i]
      BY <1>1, <3>2, AppendsMore
    <3> QED BY <1>2, <3>1, <3>2, WriterCases
  <2>3. Seen' \in Nat /\ Seen <= Seen' /\ \A i \in 1 .. Seen : content'[i] = content[i]
    BY <1>1, <2>1, <2>2 DEF Seen
  <2>4. Begun(content', shown, Seen')
    BY <1>1, <2>3, BegunStays
  <2> QED BY <2>1, <2>4 DEF ShownRises
<1>3. ASSUME Prints, UNCHANGED file PROVE ShownRises'
  <2>1. PICK rs :
          /\ rs = Read(SubSeq(content, offset + 1, n))
          /\ \/ /\ shown' = shown \o UpToClosed(rs) /\ Seen = offset /\ Seen' = n
                /\ at' \in {"stopped", "watching"}
             \/ /\ shown' = shown \o rs /\ Seen = offset /\ Seen' = n
                /\ at' \in {"measure", "measureDir"}
             \/ /\ at = "waitDir" /\ at' = "register" /\ ~ Parses(content)
                /\ shown' = shown \o rs /\ offset' = offset
    BY <1>3 DEF Prints, Seen, file
  <2>2. /\ rs \in Seq(Lines) /\ Len(rs) \in Nat
        /\ \A j, k \in 1 .. Len(rs) : j < k => rs[j] < rs[k]
        /\ \A k \in 1 .. Len(rs) : \E i \in offset + 1 .. n : content[i] = [line |-> rs[k], part |-> 1]
    BY <1>1, <2>1, ReadsOn
  <2>3. content' = content
    BY <1>3 DEF file
  <2>4. ASSUME Seen = offset PROVE Begun(content, shown \o rs, n)
    BY <1>1, <2>2, <2>4, PrintsMore
  <2>5. ASSUME Seen = offset PROVE Begun(content, shown \o UpToClosed(rs), n)
    <3>1. PICK m \in 0 .. Len(rs) :
             /\ UpToClosed(rs) \in Seq(Lines) /\ Len(UpToClosed(rs)) = m
             /\ \A k \in 1 .. m : UpToClosed(rs)[k] = rs[k]
      BY <2>2, ClosesAt
    <3>2. \A k \in 1 .. m : k \in 1 .. Len(rs)
      BY <2>2
    <3>3. /\ \A j, k \in 1 .. m : j < k => UpToClosed(rs)[j] < UpToClosed(rs)[k]
          /\ \A k \in 1 .. m : \E i \in offset + 1 .. n :
               content[i] = [line |-> UpToClosed(rs)[k], part |-> 1]
      BY <2>2, <3>1, <3>2
    <3> QED BY <1>1, <2>5, <3>1, <3>3, PrintsMore
  <2>6. ASSUME at = "waitDir", ~ Parses(content)
        PROVE  Begun(content, shown \o rs, offset)
    <3>1. offset = 0 /\ shown = << >>
      BY <2>6 DEF ShownRises
    <3>2. rs = << >>
      BY <2>1, <2>6, <3>1, ReadsFile DEF Read
    <3>3. shown \o rs = << >>
      BY <3>1, <3>2, EmptySeq, ConcatEmptySeq
    <3> QED BY <3>3, EmptySeq DEF Begun
  <2>7. Begun(content, shown', Seen')
    BY <2>1, <2>4, <2>5, <2>6 DEF Seen
  <2>8. at' \notin {"seed", "registerDir", "waitDir"}
    BY <2>1
  <2> QED BY <2>3, <2>7, <2>8 DEF ShownRises
<1>4. ASSUME Moves, UNCHANGED file PROVE ShownRises'
  <2>1. content' = content /\ shown' = shown /\ Seen' = Seen
    BY <1>4 DEF Moves, Seen, file
  <2>2. at' \in {"seed", "registerDir", "waitDir"} => shown' = << >> /\ offset' = 0
    <3>1. CASE at = "choose" /\ at' = "registerDir" /\ offset' = offset /\ ~ exists
      <4>1. content = << >>
        BY <3>1 DEF WatchTypes
      <4>2. offset = 0 /\ Seen = 0
        BY <1>1, <3>1, <4>1 DEF Seen
      <4>3. shown = << >>
        <5>1. \A k \in 1 .. Len(shown) : FALSE
          BY <1>1, <4>2 DEF Begun
        <5>2. Len(shown) = 0
          BY <5>1, TypesMean
        <5> QED BY <5>2, TypesMean, EmptySeq
      <4> QED BY <2>1, <3>1, <4>2, <4>3
    <3>2. CASE at = "registerDir" /\ at' = "waitDir" /\ offset' = offset
      BY <2>1, <3>2 DEF ShownRises
    <3> QED BY <1>4, <3>1, <3>2 DEF Moves
  <2> QED BY <1>1, <2>1, <2>2 DEF ShownRises
<1>5. CASE UNCHANGED watchVars
  BY <1>5 DEF watchVars, ShownRises, Begun, Seen
<1> QED BY <1>2, <1>3, <1>4, <1>5, WatchStepCases

-----------------------------------------------------------------------------
(* Nothing lost *)

LEMMA WholeLinesInit == WatchInit => WholeLines
<1> SUFFICES ASSUME WatchInit PROVE WholeLines
  OBVIOUS
<1>1. Len(content) = 0 /\ part = 3 /\ line = 0 /\ offset = 0
  BY DEF WatchInit
<1>2. offset = 3 * 0 /\ 0 \in 0 .. line
  BY <1>1
<1> QED BY <1>1, <1>2 DEF WholeLines

LEMMA WholeLinesNext ==
  ASSUME WatchTypes, ShownRises, WholeLines, [WatchNext]_watchVars
  PROVE  WholeLines'
<1> DEFINE n == Len(content)
<1>1. n \in Nat /\ line \in Nat
  BY TypesMean
<1>2. ASSUME NEW l \in Lines, NEW from \in 0 .. 2, NEW k \in 1 .. 3, Appends(l, from, k),
             k = 3 => l = line + 1 /\ from = 0
      PROVE  WholeLines'
  <2> SUFFICES ASSUME ~ torn'
               PROVE  /\ part' = 3 /\ Len(content') = 3 * line'
                      /\ \A i \in 1 .. Len(content') : Key(content'[i]) = i + 3
                      /\ \E m \in 0 .. line' : offset' = 3 * m
    BY DEF WholeLines
  <2>1. ~ torn /\ k = 3 /\ l = line + 1 /\ from = 0 /\ offset' = offset
    BY <1>2 DEF Appends, Watcher
  <2>2. n = 3 * line /\ \A i \in 1 .. n : Key(content[i]) = i + 3
    BY <2>1 DEF WholeLines
  <2>3. /\ Len(content') = n + 3 /\ line' = line + 1 /\ part' = 3
        /\ \A i \in 1 .. n : content'[i] = content[i]
        /\ \A i \in n + 1 .. n + 3 : Key(content'[i]) = 3 * (line + 1) + 0 + (i - n)
    <3>1. /\ Len(content') = n + k /\ line' = l /\ part' = from + k
          /\ \A i \in 1 .. n : content'[i] = content[i]
          /\ \A i \in n + 1 .. n + k : Key(content'[i]) = 3 * l + from + (i - n)
      BY <1>2, AppendsMore
    <3> QED BY <2>1, <3>1
  <2>4. ASSUME NEW i \in 1 .. n + 3 PROVE Key(content'[i]) = i + 3
    <3>1. CASE i \in 1 .. n
      BY <2>2, <2>3, <3>1
    <3>2. CASE i \in n + 1 .. n + 3
      <4>1. Key(content'[i]) = 3 * (line + 1) + 0 + (i - n)
        BY <2>3, <3>2
      <4> QED BY <1>1, <2>2, <4>1
    <3> QED BY <1>1, <3>1, <3>2
  <2>5. \E m \in 0 .. line' : offset' = 3 * m
    <3>1. PICK m \in 0 .. line : offset = 3 * m
      BY <2>1 DEF WholeLines
    <3>2. m \in 0 .. line'
      BY <1>1, <2>3
    <3> QED BY <2>1, <3>1, <3>2
  <2>6. part' = 3 /\ Len(content') = 3 * line'
    BY <1>1, <2>2, <2>3
  <2>7. \A i \in 1 .. Len(content') : Key(content'[i]) = i + 3
    BY <2>3, <2>4
  <2> QED BY <2>5, <2>6, <2>7
<1>3. ASSUME UNCHANGED <<torn, part, content, line>>, offset' \in {offset, n} PROVE WholeLines'
  <2> SUFFICES ASSUME ~ torn PROVE \E m \in 0 .. line : offset' = 3 * m
    BY <1>3 DEF WholeLines
  <2>1. CASE offset' = offset
    BY <2>1 DEF WholeLines
  <2>2. CASE offset' = n
    <3>1. line \in 0 .. line /\ n = 3 * line
      BY <1>1 DEF WholeLines
    <3> QED BY <2>2, <3>1
  <2> QED BY <1>3, <2>1, <2>2
<1>4. CASE Writer
  <2>1. CreateFile => UNCHANGED <<torn, part, content, line>> /\ offset' = offset
    BY DEF CreateFile, Watcher
  <2> QED BY <1>2, <1>3, <1>4, <2>1, WriterCases
<1>5. (Prints \/ Moves) => offset' \in {offset, n}
  BY DEF Prints, Moves
<1>6. CASE UNCHANGED watchVars
  BY <1>3, <1>6 DEF watchVars
<1> QED BY <1>3, <1>4, <1>5, <1>6, WatchStepCases DEF file

\* To have been printed is to be in the sequence of what was printed.
LEMMA ShownIsPrinted ==
  ASSUME NEW ls \in Seq(Lines), NEW l
  PROVE  l \in Range(ls) <=> \E k \in 1 .. Len(ls) : ls[k] = l
BY RangeEquality

LEMMA ConcatRange ==
  ASSUME NEW ls \in Seq(Lines), NEW rs \in Seq(Lines)
  PROVE  ls \o rs \in Seq(Lines) /\ Range(ls \o rs) = Range(ls) \cup Range(rs)
BY ConcatProperties, RangeConcatenation

LEMMA NothingLostInit == WatchInit => NothingLost
<1> SUFFICES ASSUME WatchInit PROVE NothingLost
  OBVIOUS
<1>1. at = "seed" /\ offset = 0 /\ summary = FALSE
  BY DEF WatchInit
<1>2. Seen = 0
  BY <1>1 DEF Seen
<1>3. \A l \in Lines : ~ (3 * l <= Seen)
  BY <1>2 DEF Lines
<1>4. ~ summary
  BY <1>1
<1> QED BY <1>3, <1>4, Zenon DEF NothingLost

\* A step that prints leaves no line behind, unless it ends the watch.
LEMMA PrintsAll ==
  ASSUME WatchTypes, PiecesRise, ShownRises, WholeLines, NothingLost,
         Prints, UNCHANGED file, ~ torn, ~ raced, NEW l \in Lines, 3 * l <= Len(content)
  PROVE  Shown(l)' \/ (summary' /\ l > Last(shown'))
<1> DEFINE n == Len(content)
           rs == Read(SubSeq(content, offset + 1, n))
<1>1. n \in Nat /\ offset \in 0 .. n /\ shown \in Seq(Lines)
  BY TypesMean
<1>2. PICK m \in 0 .. line : offset = 3 * m
  BY DEF WholeLines
<1>3. /\ rs \in Seq(Lines) /\ Len(rs) \in Nat
      /\ \A j, k \in 1 .. Len(rs) : j < k => rs[j] < rs[k]
  BY <1>1, ReadsOn
<1>4. offset < 3 * l => \E k \in 1 .. Len(rs) : rs[k] = l
  BY <1>1, <1>2, ReadsAll
<1>5. \/ shown' = shown \o rs
      \/ shown' = shown \o UpToClosed(rs) /\ summary' = (summary \/ HasClosed(rs))
  BY DEF Prints
<1>6. at # "stopped" /\ ~ summary /\ Seen = offset
  BY DEF Prints, NothingLost, Seen
<1> HIDE DEF rs
<1>7. PICK c \in 0 .. Len(rs) :
         /\ UpToClosed(rs) \in Seq(Lines) /\ Len(UpToClosed(rs)) = c
         /\ \A k \in 1 .. c : UpToClosed(rs)[k] = rs[k]
         /\ IF HasClosed(rs) THEN c > 0 ELSE c = Len(rs)
  BY <1>3, ClosesAt
<1>8. CASE 3 * l <= offset
  <2>1. l \in Range(shown)
    BY <1>6, <1>8 DEF NothingLost, Shown
  <2>2. l \in Range(shown')
    BY <1>1, <1>3, <1>5, <1>7, <2>1, ConcatRange
  <2> QED BY <2>2 DEF Shown
<1>9. CASE ~ (3 * l <= offset)
  <2>1. offset < 3 * l
    BY <1>1, <1>9 DEF Lines
  <2>2. PICK k \in 1 .. Len(rs) : rs[k] = l
    BY <1>4, <2>1
  <2>3. CASE shown' = shown \o rs
    <3>1. l \in Range(rs)
      BY <1>3, <2>2, ShownIsPrinted
    <3> QED BY <1>1, <1>3, <2>3, <3>1, ConcatRange DEF Shown
  <2>4. CASE k <= c /\ shown' = shown \o UpToClosed(rs)
    <3>1. k \in 1 .. c
      BY <1>3, <2>4
    <3>2. l \in Range(UpToClosed(rs))
      BY <1>7, <2>2, <3>1, ShownIsPrinted
    <3> QED BY <1>1, <1>7, <2>4, <3>2, ConcatRange DEF Shown
  <2>5. CASE ~ (k <= c) /\ shown' = shown \o UpToClosed(rs) /\ summary' = (summary \/ HasClosed(rs))
    <3>1. HasClosed(rs) /\ c > 0 /\ c \in 1 .. Len(rs) /\ c < k
      BY <1>3, <1>7, <2>5
    <3>2. rs[c] < l
      BY <1>3, <2>2, <3>1
    <3>3. Last(shown') = rs[c]
      <4>1. Len(shown) \in Nat /\ Len(shown') = Len(shown) + c
            /\ shown'[Len(shown) + c] = UpToClosed(rs)[c]
        <5>1. /\ Len(shown') = Len(shown) + c
              /\ \A i \in 1 .. Len(shown) + c :
                   shown'[i] = IF i <= Len(shown) THEN shown[i] ELSE UpToClosed(rs)[i - Len(shown)]
          <6> DEFINE us == UpToClosed(rs)
          <6>1. us \in Seq(Lines) /\ Len(us) = c /\ shown' = shown \o us
            BY <1>7, <2>5
          <6> HIDE DEF us
          <6>2. /\ Len(shown \o us) = Len(shown) + Len(us)
                /\ \A i \in 1 .. Len(shown) + Len(us) :
                     (shown \o us)[i] = IF i <= Len(shown) THEN shown[i] ELSE us[i - Len(shown)]
            BY <1>1, <6>1, ConcatProperties
          <6> QED BY <6>1, <6>2 DEF us
        <5>2. Len(shown) \in Nat
          BY TypesMean
        <5>3. /\ Len(shown) + c \in 1 .. Len(shown) + c /\ ~ (Len(shown) + c <= Len(shown))
              /\ (Len(shown) + c) - Len(shown) = c
          BY <3>1, <5>2
        <5> QED BY <5>1, <5>2, <5>3
      <4>2. c \in 1 .. c
        BY <3>1
      <4> QED BY <1>7, <4>1, <4>2 DEF Last
    <3>4. rs[c] \in Nat /\ l \in Nat
      <4>1. rs[c] \in Lines
        BY <1>3, <3>1, ElementOfSeq
      <4> QED BY <4>1 DEF Lines
    <3>5. l > Last(shown')
      BY <3>2, <3>3, <3>4
    <3>6. summary'
      BY <2>5, <3>1
    <3> QED BY <3>5, <3>6
  <2> QED BY <1>5, <2>3, <2>4, <2>5
<1> QED BY <1>8, <1>9

LEMMA NothingLostNext ==
  ASSUME WatchTypes, PiecesRise, ShownRises, WholeLines, NothingLost, [WatchNext]_watchVars
  PROVE  NothingLost'
<1>1. Len(content) \in Nat /\ offset \in 0 .. Len(content) /\ Seen \in 0 .. Len(content)
  BY TypesMean
<1>2. ASSUME UNCHANGED <<shown, summary>>, at' # "stopped" => at # "stopped",
             ~ torn' /\ ~ raced' => ~ torn /\ ~ raced /\ Seen' = Seen
      PROVE  NothingLost'
  BY <1>2 DEF NothingLost, Shown
<1>3. CASE Writer
  <2>1. UNCHANGED <<at, offset, shown, summary>>
    BY <1>3, WriterCases DEF CreateFile, Appends, Watcher
  <2>2. CASE CreateFile
    <3>1. UNCHANGED <<torn, raced, content>>
      BY <2>2 DEF CreateFile
    <3> QED BY <1>2, <2>1, <3>1 DEF Seen
  <2>3. ASSUME NEW l, NEW from, NEW k, Appends(l, from, k)
        PROVE  NothingLost'
    <3>1. ~ torn' => ~ torn
      BY <2>3 DEF Appends
    <3>2. ~ raced' => ~ raced /\ at \notin {"measure", "measureDir"}
      BY <2>3 DEF Appends, Grows
    <3> QED BY <1>2, <2>1, <3>1, <3>2 DEF Seen
  <2> QED BY <1>3, <2>2, <2>3, WriterCases
<1>4. ASSUME Prints, UNCHANGED file, UNCHANGED raced PROVE NothingLost'
  <2>1. at' # "stopped" => ~ summary'
    <3>1. ~ summary
      BY <1>4 DEF Prints, NothingLost
    <3> QED BY <1>4, <3>1 DEF Prints
  <2>2. Seen' <= Len(content)
    BY <1>1, <1>4 DEF Prints, Seen, file
  <2>3. ASSUME ~ torn, ~ raced, NEW l \in Lines, 3 * l <= Seen'
        PROVE  Shown(l)' \/ (summary' /\ l > Last(shown'))
    <3>1. 3 * l <= Len(content)
      <4>1. Seen' \in Int
        BY <1>1, <1>4 DEF Prints, Seen, file
      <4> QED BY <1>1, <2>2, <2>3, <4>1 DEF Lines
    <3> QED BY <1>4, <2>3, <3>1, PrintsAll
  <2>4. UNCHANGED <<torn, raced>>
    BY <1>4 DEF file
  <2> QED BY <2>1, <2>3, <2>4 DEF NothingLost, Shown
<1>5. ASSUME Moves, UNCHANGED file, UNCHANGED raced PROVE NothingLost'
  <2>1. UNCHANGED <<torn, raced, shown, summary>> /\ Seen' = Seen /\ at # "stopped"
    BY <1>5 DEF Moves, Seen, file
  <2> QED BY <1>2, <2>1
<1>6. CASE UNCHANGED watchVars
  BY <1>2, <1>6 DEF watchVars, Seen
<1> QED BY <1>3, <1>4, <1>5, <1>6, WatchStepCases

-----------------------------------------------------------------------------
(* The theorems *)

WatchInv == WatchTypes /\ PiecesRise /\ ShownRises /\ WholeLines /\ NothingLost

LEMMA WatchInvariant == WatchSpec => []WatchInv
<1>1. WatchInit => WatchInv
  BY WatchTypesInit, PiecesRiseInit, ShownRisesInit, WholeLinesInit, NothingLostInit DEF WatchInv
<1>2. WatchInv /\ [WatchNext]_watchVars => WatchInv'
  BY WatchTypesNext, PiecesRiseNext, ShownRisesNext, WholeLinesNext, NothingLostNext DEF WatchInv
<1> QED BY <1>1, <1>2, PTL DEF WatchSpec

\* The file and what the watcher keeps have the types of the specification, and
\* the offset is a place of the file.
THEOREM WatchTypeCorrect == WatchSpec => []WatchTypeOK
<1>1. WatchInv => WatchTypeOK
  BY DEF WatchInv, WatchTypes
<1> QED BY <1>1, WatchInvariant, PTL

\* However the lines appear, whole or torn, before the file is found, while it is
\* looked for or after: none is printed twice, and none before an earlier one.
THEOREM PrintsOnceInOrder == WatchSpec => []ShownOnceInOrder
<1>1. WatchInv => ShownOnceInOrder
  BY DEF WatchInv, ShownRises, Begun, ShownOnceInOrder
<1> QED BY <1>1, WatchInvariant, PTL

\* If no line is written in parts and the file does not grow between a read and
\* the question for its size, every line up to the offset was printed, or is
\* behind the workflow_closed that ended the watch: what the watcher can lose it
\* loses in these two ways only.
THEOREM LossIsTearOrRace == WatchSpec => []LossNeedsTearOrRace
<1>1. WatchInv => LossNeedsTearOrRace
  <2> SUFFICES ASSUME WatchInv, ~ torn, ~ raced, NEW l \in Lines, CompleteBy(l, offset)
               PROVE  Shown(l) \/ (summary /\ l > Last(shown))
    BY DEF LossNeedsTearOrRace
  <2>1. Len(content) \in Nat /\ offset \in 0 .. Len(content) /\ l \in Nat
    BY TypesMean DEF WatchInv, Lines
  <2>2. PICK i \in 3 .. offset : \A p \in 1 .. 3 : content[i - 3 + p] = [line |-> l, part |-> p]
    BY DEF CompleteBy
  <2>3. content[i] = [line |-> l, part |-> 3] /\ i \in 1 .. Len(content)
    <3>1. 3 \in 1 .. 3 /\ i - 3 + 3 = i
      BY <2>1
    <3> QED BY <2>1, <2>2, <3>1
  <2>4. Key(content[i]) = i + 3 /\ Key(content[i]) = 3 * l + 3
    BY <2>3 DEF WatchInv, WholeLines, Key
  <2>5. 3 * l <= Seen
    BY <2>1, <2>4 DEF Seen
  <2> QED BY <2>5 DEF WatchInv, NothingLost
<1> QED BY <1>1, WatchInvariant, PTL

=============================================================================
