------------------------- MODULE ChainVerifierProofs -------------------------
(***************************************************************************)
(* Lemmas about modules ChainVerifier and PythonVerifier: what sorting     *)
(* does to a sequence of receipts of any length, what a chain without      *)
(* errors looks like, and that the three verdicts on it are one.           *)
(***************************************************************************)
EXTENDS PythonVerifier, SequenceTheorems, FiniteSetTheorems, TLAPS

-----------------------------------------------------------------------------
(* Ranks in a strict total order *)

\* A set of numbers that is not empty has a least one.  It takes the place of
\* induction: the claim fails at no place, for there is no first such place.
LEMMA LeastNumber ==
  ASSUME NEW T \in SUBSET Nat, T # {}
  PROVE  \E m \in T : \A n \in T : m <= n
<1> DEFINE R == {p \in Nat \X Nat : p[1] < p[2]}
<1>1. IsWellFoundedOn(R, Nat)
  BY NatLessThanWellFounded DEF OpToRel
<1>2. \A m, n \in T : n < m => <<n, m>> \in R
  OBVIOUS
<1> HIDE DEF R
<1>3. PICK m \in T : \A n \in T : ~ (<<n, m>> \in R)
  BY <1>1, WFMin
<1>4. \A n \in T : m <= n
  <2> SUFFICES ASSUME NEW n \in T PROVE m <= n
    OBVIOUS
  <2>1. ~ (n < m)
    BY <1>2, <1>3
  <2> QED BY <2>1
<1> QED BY <1>4

\* Induction over the places of a sequence, the claim being a set of places.
LEMMA PlaceInduction ==
  ASSUME NEW n \in Nat, NEW T, 1 \in T, \A k \in 2 .. n : k - 1 \in T => k \in T
  PROVE  1 .. n \subseteq T
<1> DEFINE Missing == (1 .. n) \ T
<1>1. SUFFICES ASSUME Missing # {} PROVE FALSE
  OBVIOUS
<1>2. PICK m \in Missing : \A k \in Missing : m <= k
  <2>1. Missing \in SUBSET Nat
    OBVIOUS
  <2> HIDE DEF Missing
  <2> QED BY <1>1, <2>1, LeastNumber
<1>3. m \in 2 .. n
  OBVIOUS
<1>4. m - 1 \in T
  BY <1>2, <1>3
<1> QED BY <1>3, <1>4

\* In a finite set that is totally ordered, the number of elements below an
\* element tells it from all others, and each number up to the size occurs.
LEMMA Ranking ==
  ASSUME NEW S, IsFiniteSet(S), NEW below \in [S -> SUBSET S],
         \A i \in S : i \notin below[i],
         \A i, j \in S : i # j => i \in below[j] \/ j \in below[i],
         \A i, j \in S : i \in below[j] => below[i] \subseteq below[j]
  PROVE  /\ Cardinality(S) \in Nat
         /\ \A i \in S : Cardinality(below[i]) \in 0 .. Cardinality(S) - 1
         /\ \A i, j \in S : i \in below[j] => Cardinality(below[i]) < Cardinality(below[j])
         /\ \A i, j \in S : Cardinality(below[i]) = Cardinality(below[j]) => i = j
         /\ \A k \in 0 .. Cardinality(S) - 1 : \E i \in S : Cardinality(below[i]) = k
<1> DEFINE n == Cardinality(S)
           rank == [i \in S |-> Cardinality(below[i])]
<1>1. n \in Nat
  BY FS_CardinalityType
<1>2. \A i \in S : IsFiniteSet(below[i]) /\ rank[i] \in Nat
  BY FS_Subset, FS_CardinalityType
<1>3. \A i \in S : rank[i] < n
  <2> SUFFICES ASSUME NEW i \in S PROVE rank[i] < n
    OBVIOUS
  <2>1. below[i] \in SUBSET S /\ below[i] # S
    OBVIOUS
  <2>2. Cardinality(below[i]) <= n /\ (n = Cardinality(below[i]) => S = below[i])
    BY <2>1, FS_Subset
  <2> QED BY <1>1, <1>2, <2>1, <2>2
<1>4. \A i, j \in S : i \in below[j] => rank[i] < rank[j]
  <2> SUFFICES ASSUME NEW i \in S, NEW j \in S, i \in below[j] PROVE rank[i] < rank[j]
    OBVIOUS
  <2>1. below[i] \in SUBSET below[j] /\ below[i] # below[j]
    OBVIOUS
  <2>2. /\ Cardinality(below[i]) <= Cardinality(below[j])
        /\ Cardinality(below[j]) = Cardinality(below[i]) => below[j] = below[i]
    BY <1>2, <2>1, FS_Subset
  <2> QED BY <1>2, <2>1, <2>2
<1>5. \A i, j \in S : rank[i] = rank[j] => i = j
  BY <1>2, <1>4
<1>6. rank \in Injection(S, 0 .. n - 1)
  <2>1. rank \in [S -> 0 .. n - 1]
    BY <1>1, <1>2, <1>3
  <2> HIDE DEF rank
  <2> QED BY <1>5, <2>1 DEF Injection, IsInjective
<1>7. IsFiniteSet(0 .. n - 1) /\ Cardinality(0 .. n - 1) = n
  <2>1. /\ IsFiniteSet(0 .. n - 1)
        /\ Cardinality(0 .. n - 1) = IF 0 > n - 1 THEN 0 ELSE n - 1 - 0 + 1
    <3>1. 0 \in Int /\ n - 1 \in Int
      BY ONLY <1>1
    <3> QED BY ONLY <3>1, FS_Interval
  <2> QED BY <1>1, <2>1
<1>8. rank \in Surjection(S, 0 .. n - 1)
  BY <1>6, <1>7, FS_Injection
<1>9. \A k \in 0 .. n - 1 : \E i \in S : rank[i] = k
  <2> HIDE DEF rank
  <2> QED BY <1>8 DEF Surjection
<1> QED BY <1>1, <1>2, <1>3, <1>4, <1>5, <1>9

-----------------------------------------------------------------------------
(* Sorting by number *)

LEMMA Interval ==
  ASSUME NEW n \in Nat
  PROVE  IsFiniteSet(1 .. n) /\ Cardinality(1 .. n) = n
<1>1. IsFiniteSet(1 .. n) /\ Cardinality(1 .. n) = IF 1 > n THEN 0 ELSE n - 1 + 1
  BY FS_Interval
<1> QED BY <1>1

\* Every line has one place in sorted order, every place is a line's, and the
\* numbers do not fall.
LEMMA Sorting ==
  ASSUME NEW K, \A r \in K : r.seq \in Int, NEW rs \in Seq(K)
  PROVE  /\ Len(rs) \in Nat /\ Sorted(rs) \in Seq(K) /\ Len(Sorted(rs)) = Len(rs)
         /\ \A i \in 1 .. Len(rs) : Rank(rs, i) \in 1 .. Len(rs)
                                      /\ Sorted(rs)[Rank(rs, i)] = rs[i]
         /\ \A k \in 1 .. Len(rs) : \E i \in 1 .. Len(rs) :
              Rank(rs, i) = k /\ Sorted(rs)[k] = rs[i]
         /\ \A i, j \in 1 .. Len(rs) : Rank(rs, i) = Rank(rs, j) => i = j
         /\ \A j, k \in 1 .. Len(rs) : j <= k => Sorted(rs)[j].seq <= Sorted(rs)[k].seq
<1> DEFINE n == Len(rs)
           S == 1 .. n
           below == [i \in S |-> {j \in S : Precedes(rs, j, i)}]
<1>1. n \in Nat /\ \A i \in S : rs[i] \in K /\ rs[i].seq \in Int
  BY LenProperties, ElementOfSeq
<1>2. IsFiniteSet(S) /\ Cardinality(S) = n
  BY <1>1, Interval
<1>3. below \in [S -> SUBSET S]
  OBVIOUS
<1>4. \A i \in S : i \notin below[i]
  BY <1>1 DEF Precedes
<1>5. \A i, j \in S : i # j => i \in below[j] \/ j \in below[i]
  BY <1>1 DEF Precedes
<1>6. \A i, j \in S : i \in below[j] => below[i] \subseteq below[j]
  BY <1>1 DEF Precedes
<1>7. \A i \in S : Rank(rs, i) = Cardinality(below[i]) + 1
  BY DEF Rank, Places
<1>8. \A i, j \in S : i \in below[j] <=> Precedes(rs, i, j)
  OBVIOUS
<1> HIDE DEF below
<1>9. /\ \A i \in S : Cardinality(below[i]) \in 0 .. n - 1
      /\ \A i, j \in S : i \in below[j] => Cardinality(below[i]) < Cardinality(below[j])
      /\ \A i, j \in S : Cardinality(below[i]) = Cardinality(below[j]) => i = j
      /\ \A k \in 0 .. n - 1 : \E i \in S : Cardinality(below[i]) = k
  <2> HIDE DEF S
  <2>1. \A i \in S : i \notin below[i]
    BY <1>4
  <2> QED BY <1>2, <1>3, <1>4, <1>5, <1>6, Ranking
<1>10. /\ \A i \in S : Rank(rs, i) \in S
       /\ \A i, j \in S : Precedes(rs, i, j) => Rank(rs, i) < Rank(rs, j)
       /\ \A i, j \in S : Rank(rs, i) = Rank(rs, j) => i = j
  <2> SUFFICES ASSUME NEW i \in S, NEW j \in S
               PROVE  /\ Rank(rs, i) \in S
                      /\ Precedes(rs, i, j) => Rank(rs, i) < Rank(rs, j)
                      /\ Rank(rs, i) = Rank(rs, j) => i = j
    OBVIOUS
  <2>1. Cardinality(below[i]) \in 0 .. n - 1 /\ Cardinality(below[j]) \in 0 .. n - 1
    BY <1>9
  <2>2. Rank(rs, i) = Cardinality(below[i]) + 1 /\ Rank(rs, j) = Cardinality(below[j]) + 1
    BY <1>7
  <2>3. Precedes(rs, i, j) => Cardinality(below[i]) < Cardinality(below[j])
    BY <1>8, <1>9
  <2>4. Cardinality(below[i]) = Cardinality(below[j]) => i = j
    BY <1>9
  <2> QED BY <1>1, <2>1, <2>2, <2>3, <2>4
<1>11. \A k \in S : \E i \in S : Rank(rs, i) = k
  <2> SUFFICES ASSUME NEW k \in S PROVE \E i \in S : Rank(rs, i) = k
    OBVIOUS
  <2>1. k - 1 \in 0 .. n - 1
    BY <1>1
  <2>2. PICK i \in S : Cardinality(below[i]) = k - 1
    BY <1>9, <2>1
  <2> QED BY <1>1, <1>7, <2>2
<1>12. \A k \in S : \E i \in S : Rank(rs, i) = k /\ Sorted(rs)[k] = rs[i]
  <2> SUFFICES ASSUME NEW k \in S
               PROVE  \E i \in S : Rank(rs, i) = k /\ Sorted(rs)[k] = rs[i]
    OBVIOUS
  <2> DEFINE i == CHOOSE x \in S : Rank(rs, x) = k
  <2>1. i \in S /\ Rank(rs, i) = k
    BY <1>11
  <2>2. Sorted(rs)[k] = rs[i]
    BY DEF Sorted, Places
  <2> QED BY <2>1, <2>2
<1>13. \A i \in S : Sorted(rs)[Rank(rs, i)] = rs[i]
  BY <1>10, <1>12
<1>14. Sorted(rs) \in Seq(K) /\ Len(Sorted(rs)) = n
  <2>1. Sorted(rs) \in [S -> K]
    <3>1. Sorted(rs) = [k \in S |-> Sorted(rs)[k]]
      BY DEF Sorted, Places
    <3> QED BY <1>1, <1>12, <3>1
  <2> QED BY <1>1, <2>1
<1>15. \A j, k \in S : j <= k => Sorted(rs)[j].seq <= Sorted(rs)[k].seq
  <2> SUFFICES ASSUME NEW j \in S, NEW k \in S, j <= k
               PROVE  Sorted(rs)[j].seq <= Sorted(rs)[k].seq
    OBVIOUS
  <2>1. PICK a \in S : Rank(rs, a) = j /\ Sorted(rs)[j] = rs[a]
    BY <1>12
  <2>2. PICK b \in S : Rank(rs, b) = k /\ Sorted(rs)[k] = rs[b]
    BY <1>12
  <2>3. ~ Precedes(rs, b, a)
    BY <1>1, <1>10, <2>1, <2>2
  <2> QED BY <1>1, <2>1, <2>2, <2>3 DEF Precedes
<1> QED BY <1>1, <1>10, <1>12, <1>13, <1>14, <1>15

\* Sorting changes nothing where the numbers rise already.
LEMMA SortedStays ==
  ASSUME NEW K, \A r \in K : r.seq \in Int, NEW rs \in Seq(K),
         \A i, j \in 1 .. Len(rs) : i < j => rs[i].seq < rs[j].seq
  PROVE  Sorted(rs) = rs
<1> DEFINE S == 1 .. Len(rs)
<1>1. Len(rs) \in Nat /\ \A i \in S : rs[i] \in K /\ rs[i].seq \in Int
  BY LenProperties, ElementOfSeq
<1>2. \A i \in S : Rank(rs, i) = i
  <2> SUFFICES ASSUME NEW i \in S PROVE Rank(rs, i) = i
    OBVIOUS
  <2>1. {j \in S : Precedes(rs, j, i)} = 1 .. i - 1
    BY <1>1 DEF Precedes
  <2>2. i - 1 \in Nat /\ (i - 1) + 1 = i
    BY <1>1
  <2>3. Cardinality(1 .. i - 1) = i - 1
    BY <2>2, Interval
  <2>4. Rank(rs, i) = Cardinality({j \in S : Precedes(rs, j, i)}) + 1
    BY DEF Rank, Places
  <2> QED BY <2>1, <2>2, <2>3, <2>4
<1>3. \A i \in S : Sorted(rs)[i] = rs[i]
  BY <1>2, Sorting
<1>4. Sorted(rs) \in Seq(K) /\ Len(Sorted(rs)) = Len(rs)
  BY Sorting
<1> QED BY <1>3, <1>4, SeqEqual

\* Nor does the order of the lines matter if their numbers differ.
LEMMA SortedPermuted ==
  ASSUME NEW K, \A r \in K : r.seq \in Int, NEW rs \in Seq(K), NEW ts \in Seq(K),
         Len(ts) = Len(rs), NEW move \in Bijection(1 .. Len(rs), 1 .. Len(rs)),
         \A i \in 1 .. Len(rs) : ts[i] = rs[move[i]],
         \A i, j \in 1 .. Len(rs) : rs[i].seq = rs[j].seq => i = j
  PROVE  Sorted(ts) = Sorted(rs)
<1> DEFINE S == 1 .. Len(rs)
<1>1. Len(rs) \in Nat /\ \A i \in S : rs[i] \in K /\ rs[i].seq \in Int
  BY LenProperties, ElementOfSeq
<1>2. /\ move \in [S -> S] /\ \A i, j \in S : move[i] = move[j] => i = j
      /\ \A j \in S : \E i \in S : move[i] = j
  BY DEF Bijection, Injection, Surjection, IsInjective
<1>3. \A i, j \in S : Precedes(ts, i, j) <=> Precedes(rs, move[i], move[j])
  <2> SUFFICES ASSUME NEW i \in S, NEW j \in S
               PROVE  Precedes(ts, i, j) <=> Precedes(rs, move[i], move[j])
    OBVIOUS
  <2>1. /\ move[i] \in S /\ move[j] \in S /\ (move[i] = move[j] => i = j)
        /\ ts[i] = rs[move[i]] /\ ts[j] = rs[move[j]]
    BY <1>2
  <2>2. rs[move[i]].seq \in Int /\ rs[move[j]].seq \in Int
    BY <1>1, <2>1
  <2>3. rs[move[i]].seq = rs[move[j]].seq => move[i] = move[j]
    BY <2>1
  <2> QED BY <1>1, <2>1, <2>2, <2>3 DEF Precedes
<1>4. \A i \in S : Rank(ts, i) = Rank(rs, move[i])
  <2> SUFFICES ASSUME NEW i \in S PROVE Rank(ts, i) = Rank(rs, move[i])
    OBVIOUS
  <2> DEFINE A == {j \in S : Precedes(ts, j, i)}
             B == {j \in S : Precedes(rs, j, move[i])}
             f == [j \in A |-> move[j]]
  <2>1. f \in [A -> B] /\ \A j, k \in A : f[j] = f[k] => j = k
    BY <1>2, <1>3
  <2>2. \A k \in B : \E j \in A : f[j] = k
    BY <1>2, <1>3
  <2>3. IsFiniteSet(A)
    <3>1. A \in SUBSET S /\ IsFiniteSet(S)
      BY <1>1, Interval
    <3> QED BY <3>1, FS_Subset
  <2> HIDE DEF A, B, f
  <2>4. f \in Bijection(A, B)
    BY <2>1, <2>2 DEF Bijection, Injection, Surjection, IsInjective
  <2>5. Cardinality(A) = Cardinality(B)
    BY <2>3, <2>4, FS_Bijection DEF ExistsBijection
  <2> QED BY <2>5 DEF Rank, Places, A, B
<1>5. \A k \in S : Sorted(ts)[k] = Sorted(rs)[k]
  <2> SUFFICES ASSUME NEW k \in S PROVE Sorted(ts)[k] = Sorted(rs)[k]
    OBVIOUS
  <2>1. PICK i \in S : Rank(ts, i) = k /\ Sorted(ts)[k] = ts[i]
    <3>1. \A l \in 1 .. Len(ts) : \E i \in 1 .. Len(ts) : Rank(ts, i) = l /\ Sorted(ts)[l] = ts[i]
      <4>1. (\A r \in K : r.seq \in Int) /\ ts \in Seq(K)
        OBVIOUS
      <4> QED BY ONLY <4>1, Sorting
    <3> QED BY <3>1
  <2>2. Sorted(rs)[Rank(rs, move[i])] = rs[move[i]]
    <3>1. move[i] \in 1 .. Len(rs)
      BY <1>2
    <3>2. (\A r \in K : r.seq \in Int) /\ rs \in Seq(K)
      OBVIOUS
    <3> QED BY ONLY <3>1, <3>2, Sorting
  <2> QED BY <1>4, <2>1, <2>2
<1>6. /\ Sorted(rs) \in Seq(K) /\ Len(Sorted(rs)) = Len(rs)
      /\ Sorted(ts) \in Seq(K) /\ Len(Sorted(ts)) = Len(rs)
  BY Sorting
<1> QED BY <1>5, <1>6, SeqEqual

-----------------------------------------------------------------------------
(* Chains without errors *)

\* What a sorted chain without errors is.
Chained(s) ==
  /\ HeadsChain(s[1])
  /\ \A k \in 1 .. Len(s) : SignatureValid(s[k]) /\ s[k].edit # "version"
  /\ \A k \in 2 .. Len(s) : /\ s[k].wf = s[1].wf
                            /\ s[k].seq = s[k-1].seq + 1
                            /\ s[k].prev = HashAsRead(s[k-1])

LEMMA NoErrorMeansChained ==
  ASSUME NEW s, s # << >>
  PROVE  SortedErrors(s) = {} <=> Chained(s)
<1>1. HeadErrors(s) = {} <=> HeadsChain(s[1])
  BY DEF HeadErrors, HeadsChain
<1>2. WorkflowErrors(s) = {} <=> \A k \in 2 .. Len(s) : s[k].wf = s[1].wf
  BY DEF WorkflowErrors
<1>3. VersionErrors(s) = {} <=> \A k \in 1 .. Len(s) : s[k].edit # "version"
  BY DEF VersionErrors
<1>4. SignatureErrors(s) = {} <=> \A k \in 1 .. Len(s) : SignatureValid(s[k])
  BY DEF SignatureErrors
<1>5. GapErrors(s) = {} <=> \A k \in 2 .. Len(s) : s[k].seq = s[k-1].seq + 1
  BY DEF GapErrors
<1>6. HashErrors(s) = {} <=> \A k \in 2 .. Len(s) : s[k].prev = HashAsRead(s[k-1])
  BY DEF HashErrors
<1>7. SortedErrors(s) = HeadErrors(s) \cup WorkflowErrors(s) \cup VersionErrors(s)
                        \cup SignatureErrors(s) \cup GapErrors(s) \cup HashErrors(s)
  BY DEF SortedErrors
<1> QED BY <1>1, <1>2, <1>3, <1>4, <1>5, <1>6, <1>7 DEF Chained

\* An error names a place of the chain, and one of the signature is at a
\* receipt whose signature is not valid.
LEMMA ErrorHasPlace ==
  ASSUME NEW s, Len(s) \in Nat, s # << >> => Len(s) > 0, NEW e \in SortedErrors(s)
  PROVE  /\ e.index \in 1 .. Len(s)
         /\ e.code = "L1_INVALID" => ~ SignatureValid(s[e.index])
<1>1. s # << >>
  BY DEF SortedErrors
<1>2. 1 \in 1 .. Len(s)
  BY <1>1
<1>3. CASE e \in HeadErrors(s)
  BY <1>2, <1>3 DEF HeadErrors, Error
<1>4. CASE e \in WorkflowErrors(s)
  BY <1>4 DEF WorkflowErrors, Error
<1>5. CASE e \in VersionErrors(s)
  BY <1>5 DEF VersionErrors, Error
<1>6. CASE e \in SignatureErrors(s)
  BY <1>6 DEF SignatureErrors, Error
<1>7. CASE e \in GapErrors(s)
  BY <1>7 DEF GapErrors, Error
<1>8. CASE e \in HashErrors(s)
  BY <1>8 DEF HashErrors, Error
<1> QED BY <1>1, <1>3, <1>4, <1>5, <1>6, <1>7, <1>8 DEF SortedErrors

\* Along a chain without errors the number is the place, from 0.
LEMMA NumberIsPlace ==
  ASSUME NEW n \in Nat, NEW s, n > 0 => s[1].seq = 0,
         \A k \in 2 .. n : s[k].seq = s[k-1].seq + 1
  PROVE  \A k \in 1 .. n : s[k].seq = k - 1
<1> DEFINE T == {k \in 1 .. n : s[k].seq = k - 1}
<1>1. CASE n > 0
  <2>1. 1 \in T
    BY <1>1
  <2>2. \A k \in 2 .. n : k - 1 \in T => k \in T
    OBVIOUS
  <2> HIDE DEF T
  <2>3. 1 .. n \subseteq T
    BY <2>1, <2>2, PlaceInduction
  <2> QED BY <2>3 DEF T
<1> QED BY <1>1

\* Then all lines have numbers of their own.
LEMMA NumbersDiffer ==
  ASSUME NEW K, \A r \in K : r.seq \in Int, NEW rs \in Seq(K), rs # << >>,
         Chained(Sorted(rs))
  PROVE  /\ \A k \in 1 .. Len(rs) : Sorted(rs)[k].seq = k - 1
         /\ \A i, j \in 1 .. Len(rs) : rs[i].seq = rs[j].seq => i = j
         /\ \A i \in 1 .. Len(rs) : SignatureValid(rs[i])
<1> DEFINE s == Sorted(rs)
<1>1. Len(rs) \in Nat /\ Len(s) = Len(rs) /\ Len(rs) > 0
  BY Sorting
<1>2. \A k \in 1 .. Len(rs) : s[k].seq = k - 1
  <2>1. s[1].seq = 0 /\ \A k \in 2 .. Len(rs) : s[k].seq = s[k-1].seq + 1
    BY <1>1 DEF Chained, HeadsChain
  <2> QED BY <1>1, <2>1, NumberIsPlace
<1>3. \A i \in 1 .. Len(rs) : Rank(rs, i) \in 1 .. Len(rs) /\ s[Rank(rs, i)] = rs[i]
  BY Sorting
<1>4. \A i, j \in 1 .. Len(rs) : rs[i].seq = rs[j].seq => i = j
  <2> SUFFICES ASSUME NEW i \in 1 .. Len(rs), NEW j \in 1 .. Len(rs), rs[i].seq = rs[j].seq
               PROVE  Rank(rs, i) = Rank(rs, j)
    BY Sorting
  <2>1. /\ Rank(rs, i) \in 1 .. Len(rs) /\ Rank(rs, j) \in 1 .. Len(rs)
        /\ s[Rank(rs, i)] = rs[i] /\ s[Rank(rs, j)] = rs[j]
    BY <1>3
  <2>2. s[Rank(rs, i)].seq = Rank(rs, i) - 1 /\ s[Rank(rs, j)].seq = Rank(rs, j) - 1
    BY <1>2, <2>1
  <2>3. Rank(rs, i) - 1 = Rank(rs, j) - 1
    BY <2>1, <2>2
  <2>4. Rank(rs, i) \in Int /\ Rank(rs, j) \in Int
    BY <2>1
  <2> QED BY <2>3, <2>4
<1>5. \A i \in 1 .. Len(rs) : SignatureValid(rs[i])
  BY <1>1, <1>3 DEF Chained
<1> QED BY <1>2, <1>4, <1>5

\* The table of results passes exactly when verifyChain finds no error, though
\* its rows are looked up by another index than the errors carry.
LEMMA PassMeansValid ==
  ASSUME NEW K, \A r \in K : r.seq \in Int, NEW rs \in Seq(K)
  PROVE  OverallPass(rs) <=> ChainValid(rs)
<1> DEFINE s == Sorted(rs)
<1>1. Len(rs) \in Nat /\ Len(s) = Len(rs) /\ s \in Seq(K)
  BY Sorting
<1>2. s = << >> <=> rs = << >>
  BY <1>1
<1>3. ASSUME OverallPass(rs), NEW e \in SortedErrors(s) PROVE FALSE
  <2>1. s # << >> => Len(s) > 0
    BY <1>1
  <2>2. e.index \in 1 .. Len(rs) /\ (e.code = "L1_INVALID" => ~ SignatureValid(s[e.index]))
    BY <1>1, <1>3, <2>1, ErrorHasPlace
  <2>3. e.code = "L1_INVALID"
    BY <1>3, <2>2 DEF OverallPass, RowPasses, ChainErrors, Places
  <2>4. PICK i \in 1 .. Len(rs) : s[e.index] = rs[i]
    <3>1. \A k \in 1 .. Len(rs) : \E i \in 1 .. Len(rs) : s[k] = rs[i]
      BY Sorting
    <3> QED BY <2>2, <3>1
  <2>5. SignatureValid(rs[i])
    BY <1>3 DEF OverallPass, L1Pass, Places
  <2> QED BY <2>2, <2>3, <2>4, <2>5
<1>4. ASSUME ChainValid(rs) PROVE OverallPass(rs)
  <2>1. CASE rs = << >>
    BY <2>1 DEF OverallPass, Places
  <2>2. CASE rs # << >>
    <3>1. Chained(s)
      BY <1>2, <1>4, <2>2, NoErrorMeansChained DEF ChainValid, ChainErrors
    <3>2. \A i \in 1 .. Len(rs) : SignatureValid(rs[i])
      BY <2>2, <3>1, NumbersDiffer
    <3> QED BY <1>4, <3>2 DEF OverallPass, L1Pass, RowPasses, Places, ChainValid
  <2> QED BY <2>1, <2>2
<1> QED BY <1>3, <1>4 DEF ChainValid, ChainErrors

-----------------------------------------------------------------------------
(* The order Python sorts by *)

\* The place of line i of rs in Python's order.
PyRank(rs, i) == Cardinality({j \in Places(rs) : PyPrecedes(rs, j, i)}) + 1

\* As lemma Sorting.
LEMMA PySorting ==
  ASSUME NEW K, \A r \in K : r.seq \in Int /\ r.id \in Int, NEW rs \in Seq(K)
  PROVE  /\ PySorted(rs) \in Seq(K) /\ Len(PySorted(rs)) = Len(rs)
         /\ \A i \in 1 .. Len(rs) : PyRank(rs, i) \in 1 .. Len(rs)
                                      /\ PySorted(rs)[PyRank(rs, i)] = rs[i]
         /\ \A k \in 1 .. Len(rs) : \E i \in 1 .. Len(rs) :
              PyRank(rs, i) = k /\ PySorted(rs)[k] = rs[i]
         /\ \A i, j \in 1 .. Len(rs) : PyRank(rs, i) = PyRank(rs, j) => i = j
<1> DEFINE n == Len(rs)
           S == 1 .. n
           below == [i \in S |-> {j \in S : PyPrecedes(rs, j, i)}]
<1>1. n \in Nat /\ \A i \in S : rs[i] \in K /\ rs[i].seq \in Int /\ rs[i].id \in Int
  BY LenProperties, ElementOfSeq
<1>2. IsFiniteSet(S) /\ Cardinality(S) = n
  BY <1>1, Interval
<1>3. below \in [S -> SUBSET S]
  OBVIOUS
<1>4. \A i \in S : i \notin below[i]
  BY <1>1 DEF PyPrecedes
<1>5. \A i, j \in S : i # j => i \in below[j] \/ j \in below[i]
  BY <1>1 DEF PyPrecedes
<1>6. \A i, j \in S : i \in below[j] => below[i] \subseteq below[j]
  BY <1>1 DEF PyPrecedes
<1>7. \A i \in S : PyRank(rs, i) = Cardinality(below[i]) + 1
  BY DEF PyRank, Places
<1>8. \A k \in S : PySorted(rs)[k] = rs[CHOOSE i \in S : Cardinality(below[i]) = k - 1]
  BY DEF PySorted, Places
<1> HIDE DEF below
<1>9. /\ \A i \in S : Cardinality(below[i]) \in 0 .. n - 1
      /\ \A i, j \in S : Cardinality(below[i]) = Cardinality(below[j]) => i = j
      /\ \A k \in 0 .. n - 1 : \E i \in S : Cardinality(below[i]) = k
  <2> HIDE DEF S
  <2> QED BY <1>2, <1>3, <1>4, <1>5, <1>6, Ranking
<1>10. /\ \A i \in S : PyRank(rs, i) \in S
       /\ \A i, j \in S : PyRank(rs, i) = PyRank(rs, j) => i = j
  <2> SUFFICES ASSUME NEW i \in S, NEW j \in S
               PROVE  PyRank(rs, i) \in S /\ (PyRank(rs, i) = PyRank(rs, j) => i = j)
    OBVIOUS
  <2>1. Cardinality(below[i]) \in 0 .. n - 1 /\ Cardinality(below[j]) \in 0 .. n - 1
    BY <1>9
  <2>2. PyRank(rs, i) = Cardinality(below[i]) + 1 /\ PyRank(rs, j) = Cardinality(below[j]) + 1
    BY <1>7
  <2>3. Cardinality(below[i]) = Cardinality(below[j]) => i = j
    BY <1>9
  <2> QED BY <1>1, <2>1, <2>2, <2>3
<1>11. \A k \in S : \E i \in S : PyRank(rs, i) = k /\ PySorted(rs)[k] = rs[i]
  <2> SUFFICES ASSUME NEW k \in S
               PROVE  \E i \in S : PyRank(rs, i) = k /\ PySorted(rs)[k] = rs[i]
    OBVIOUS
  <2> DEFINE i == CHOOSE x \in S : Cardinality(below[x]) = k - 1
  <2>1. k - 1 \in 0 .. n - 1
    BY <1>1
  <2>2. i \in S /\ Cardinality(below[i]) = k - 1
    BY <1>9, <2>1
  <2>3. PySorted(rs)[k] = rs[i]
    BY <1>8
  <2> HIDE DEF i
  <2>4. PyRank(rs, i) = k
    BY <1>1, <1>7, <2>2
  <2> QED BY <2>2, <2>3, <2>4
<1>12. \A i \in S : PySorted(rs)[PyRank(rs, i)] = rs[i]
  BY <1>10, <1>11
<1>13. PySorted(rs) \in Seq(K) /\ Len(PySorted(rs)) = n
  <2>1. PySorted(rs) \in [S -> K]
    <3>1. PySorted(rs) = [k \in S |-> PySorted(rs)[k]]
      BY DEF PySorted, Places
    <3> QED BY <1>1, <1>11, <3>1
  <2> QED BY <1>1, <2>1
<1> QED BY <1>10, <1>11, <1>12, <1>13

\* Without equal numbers it is the order of the library.
LEMMA PySortsAlike ==
  ASSUME NEW K, \A r \in K : r.seq \in Int /\ r.id \in Int, NEW rs \in Seq(K),
         \A i, j \in 1 .. Len(rs) : rs[i].seq = rs[j].seq => i = j
  PROVE  PySorted(rs) = Sorted(rs)
<1> DEFINE S == 1 .. Len(rs)
<1>1. \A i \in S : rs[i].seq \in Int /\ rs[i].id \in Int
  BY LenProperties, ElementOfSeq
<1>2. \A i \in S : PyRank(rs, i) = Rank(rs, i)
  <2> SUFFICES ASSUME NEW i \in S PROVE PyRank(rs, i) = Rank(rs, i)
    OBVIOUS
  <2>1. {j \in S : PyPrecedes(rs, j, i)} = {j \in S : Precedes(rs, j, i)}
    BY <1>1 DEF PyPrecedes, Precedes
  <2> QED BY <2>1 DEF PyRank, Rank, Places
<1>3. \A k \in S : PySorted(rs)[k] = Sorted(rs)[k]
  <2> SUFFICES ASSUME NEW k \in S PROVE PySorted(rs)[k] = Sorted(rs)[k]
    OBVIOUS
  <2>1. PICK i \in S : PyRank(rs, i) = k /\ PySorted(rs)[k] = rs[i]
    BY PySorting
  <2>2. Sorted(rs)[Rank(rs, i)] = rs[i]
    BY Sorting
  <2> QED BY <1>2, <2>1, <2>2
<1>4. /\ Sorted(rs) \in Seq(K) /\ Len(Sorted(rs)) = Len(rs)
      /\ PySorted(rs) \in Seq(K) /\ Len(PySorted(rs)) = Len(rs)
  BY Sorting, PySorting
<1> QED BY <1>3, <1>4, SeqEqual

\* Python compares a receipt's workflow with its predecessor's: along a chain
\* it is the first one's.
LEMMA OneWorkflow ==
  ASSUME NEW n \in Nat, NEW s, \A k \in 2 .. n : s[k].wf = s[k-1].wf
  PROVE  \A k \in 1 .. n : s[k].wf = s[1].wf
<1> DEFINE T == {k \in 1 .. n : s[k].wf = s[1].wf}
<1>1. CASE n > 0
  <2>1. 1 \in T
    BY <1>1
  <2>2. \A k \in 2 .. n : k - 1 \in T => k \in T
    OBVIOUS
  <2> HIDE DEF T
  <2>3. 1 .. n \subseteq T
    BY <2>1, <2>2, PlaceInduction
  <2> QED BY <2>3 DEF T
<1> QED BY <1>1

\* What _l2 accepts is chained, in the order of Python.
LEMMA PyL2MeansChained ==
  ASSUME NEW K, \A r \in K : r.seq \in Int /\ r.id \in Int, NEW rs \in Seq(K), rs # << >>
  PROVE  PyL2(rs) <=>
           LET s == PySorted(rs)
           IN  /\ HeadsChain(s[1])
               /\ \A k \in 1 .. Len(rs) : s[k].edit # "version"
               /\ \A k \in 2 .. Len(rs) : /\ s[k].wf = s[1].wf
                                          /\ s[k].seq = s[k-1].seq + 1
                                          /\ s[k].prev = HashAsRead(s[k-1])
<1> DEFINE s == PySorted(rs)
           n == Len(rs)
<1>1. n \in Nat /\ n > 0 /\ Len(s) = n /\ s # << >>
  BY PySorting
<1>2. PyL2(rs) <=> /\ HeadsChain(s[1])
                   /\ \A k \in 1 .. n : s[k].edit # "version"
                   /\ \A k \in 2 .. n : /\ s[k].wf = s[k-1].wf
                                        /\ s[k].seq = s[k-1].seq + 1
                                        /\ s[k].prev = HashAsRead(s[k-1])
  BY <1>1 DEF PyL2, PyFollows
<1> HIDE DEF s
<1>3. (\A k \in 2 .. n : s[k].wf = s[k-1].wf) => \A k \in 2 .. n : s[k].wf = s[1].wf
  <2>1. ASSUME \A k \in 2 .. n : s[k].wf = s[k-1].wf PROVE \A k \in 1 .. n : s[k].wf = s[1].wf
    BY <1>1, <2>1, OneWorkflow
  <2> QED BY <2>1
<1>4. (\A k \in 2 .. n : s[k].wf = s[1].wf) => \A k \in 2 .. n : s[k].wf = s[k-1].wf
  BY <1>1
<1> QED BY <1>2, <1>3, <1>4 DEF s

\* The Python verifier and the library pass the same receipts, whatever was
\* done to them, although they sort them by other keys.
LEMMA PythonPassesAlike ==
  ASSUME NEW K, \A r \in K : r.seq \in Int /\ r.id \in Int, NEW rs \in Seq(K), rs # << >>
  PROVE  PyPass(rs) <=> ChainValid(rs)
<1> DEFINE s == Sorted(rs)
           p == PySorted(rs)
           n == Len(rs)
<1>1. n \in Nat /\ n > 0 /\ Len(s) = n /\ Len(p) = n /\ s # << >>
  BY Sorting, PySorting
<1>2. ChainValid(rs) <=> Chained(s)
  BY <1>1, NoErrorMeansChained DEF ChainValid, ChainErrors
<1>3. ASSUME ChainValid(rs) PROVE PyPass(rs)
  <2>1. Chained(s)
    BY <1>2, <1>3
  <2>2. p = s
    BY <2>1, NumbersDiffer, PySortsAlike
  <2>3. PyL1(rs)
    BY <2>1, NumbersDiffer DEF PyL1, Places
  <2>4. PyL2(rs)
    BY <1>1, <2>1, <2>2, PyL2MeansChained DEF Chained
  <2> QED BY <2>3, <2>4 DEF PyPass
<1>4. ASSUME PyPass(rs) PROVE ChainValid(rs)
  <2>1. /\ HeadsChain(p[1])
        /\ \A k \in 1 .. n : p[k].edit # "version"
        /\ \A k \in 2 .. n : /\ p[k].wf = p[1].wf
                             /\ p[k].seq = p[k-1].seq + 1
                             /\ p[k].prev = HashAsRead(p[k-1])
    BY <1>4, PyL2MeansChained DEF PyPass
  <2>2. \A k \in 1 .. n : p[k].seq = k - 1
    <3>1. p[1].seq = 0 /\ \A k \in 2 .. n : p[k].seq = p[k-1].seq + 1
      BY <2>1 DEF HeadsChain
    <3> HIDE DEF p
    <3> QED BY <1>1, <3>1, NumberIsPlace
  <2>3. \A i, j \in 1 .. n : rs[i].seq = rs[j].seq => i = j
    <3> SUFFICES ASSUME NEW i \in 1 .. n, NEW j \in 1 .. n, rs[i].seq = rs[j].seq
                 PROVE  PyRank(rs, i) = PyRank(rs, j)
      BY PySorting
    <3>1. /\ PyRank(rs, i) \in 1 .. n /\ PyRank(rs, j) \in 1 .. n
          /\ p[PyRank(rs, i)] = rs[i] /\ p[PyRank(rs, j)] = rs[j]
      <4>1. \A l \in 1 .. n : PyRank(rs, l) \in 1 .. n /\ p[PyRank(rs, l)] = rs[l]
        <5>1. (\A r \in K : r.seq \in Int /\ r.id \in Int) /\ rs \in Seq(K)
          OBVIOUS
        <5> QED BY ONLY <5>1, PySorting
      <4> QED BY <4>1
    <3>2. p[PyRank(rs, i)].seq = PyRank(rs, i) - 1 /\ p[PyRank(rs, j)].seq = PyRank(rs, j) - 1
      BY <2>2, <3>1
    <3>3. PyRank(rs, i) - 1 = PyRank(rs, j) - 1
      BY <3>1, <3>2
    <3>4. PyRank(rs, i) \in Int /\ PyRank(rs, j) \in Int
      BY <3>1
    <3> QED BY <3>3, <3>4
  <2>4. p = s
    BY <2>3, PySortsAlike
  <2>5. \A k \in 1 .. n : SignatureValid(s[k])
    <3>1. \A k \in 1 .. n : \E i \in 1 .. n : s[k] = rs[i]
      BY Sorting
    <3> QED BY <1>4, <3>1 DEF PyPass, PyL1, Places
  <2>6. Chained(s)
    BY <1>1, <2>1, <2>4, <2>5 DEF Chained
  <2> QED BY <1>2, <2>6
<1> QED BY <1>3, <1>4

=============================================================================
