---------------------------- MODULE PolicyProofs ----------------------------
(***************************************************************************)
(* Proofs about module PolicyReplay and the policy engine: for any policy  *)
(* files, with any rules, packs in any order, guards and limits, and for   *)
(* calls with any arguments.  The lemmas on numbers are those of           *)
(* ChainVerifierProofs.                                                    *)
(***************************************************************************)
EXTENDS PolicyReplay, ChainVerifierProofs

-----------------------------------------------------------------------------
(* Recursive functions *)

LEMMA CountInduction ==
  ASSUME NEW n \in Nat, NEW T, 0 \in T, \A k \in 1 .. n : k - 1 \in T => k \in T
  PROVE  0 .. n \subseteq T
<1> DEFINE Rest == (0 .. n) \ T
<1>1. SUFFICES ASSUME Rest # {} PROVE FALSE
  OBVIOUS
<1>2. PICK m \in Rest : \A k \in Rest : m <= k
  <2>1. Rest \in SUBSET Nat
    OBVIOUS
  <2> HIDE DEF Rest
  <2> QED BY <1>1, <2>1, LeastNumber
<1>3. m \in 1 .. n /\ m - 1 \in 0 .. n /\ m - 1 < m
  <2>1. m # 0 /\ m \in 0 .. n
    OBVIOUS
  <2> QED BY ONLY <2>1, n \in Nat
<1>4. m - 1 \in T
  BY <1>2, <1>3
<1> QED BY <1>3, <1>4

\* A function that is given by a first value and by steps from value to value.
Goes(g, base, f, N) == g[0] = base /\ \A n \in 1 .. N : g[n] = f[n][g[n-1]]

LEMMA Recursion ==
  ASSUME NEW N \in Nat, NEW S, NEW base \in S, NEW f \in [1 .. N -> [S -> S]]
  PROVE  \E g \in [0 .. N -> S] : Goes(g, base, f, N)
<1> DEFINE Good(g, m) == g \in [0 .. m -> S] /\ g[0] = base /\ \A n \in 1 .. m : g[n] = f[n][g[n-1]]
           T == {m \in 0 .. N : \E g \in [0 .. m -> S] : Good(g, m)}
<1>1. 0 \in T
  <2> DEFINE g == [n \in 0 .. 0 |-> base]
  <2>1. g \in [0 .. 0 -> S] /\ g[0] = base /\ 1 .. 0 = {}
    OBVIOUS
  <2> HIDE DEF g
  <2>2. Good(g, 0)
    BY <2>1
  <2> QED BY <2>1, <2>2
<1>2. ASSUME NEW m \in 1 .. N, m - 1 \in T PROVE m \in T
  <2>1. PICK h \in [0 .. m - 1 -> S] : Good(h, m - 1)
    BY <1>2
  <2> DEFINE g == [n \in 0 .. m |-> IF n = m THEN f[m][h[m-1]] ELSE h[n]]
  <2>2. f[m][h[m-1]] \in S
    <3>1. h[m-1] \in S /\ f[m] \in [S -> S]
      OBVIOUS
    <3> QED BY <3>1
  <2>3. \A n \in 0 .. m : n = m \/ n \in 0 .. m - 1
    OBVIOUS
  <2>4. g \in [0 .. m -> S]
    BY <2>2, <2>3
  <2>5. g[m] = f[m][h[m-1]] /\ \A n \in 0 .. m - 1 : g[n] = h[n]
    OBVIOUS
  <2> HIDE DEF g
  <2>6. g[0] = base
    BY <2>1, <2>5
  <2>7. ASSUME NEW n \in 1 .. m PROVE g[n] = f[n][g[n-1]]
    <3>1. CASE n = m
      BY <2>5, <3>1
    <3>2. CASE n # m
      <4>1. n \in 1 .. m - 1 /\ n \in 0 .. m - 1 /\ n - 1 \in 0 .. m - 1
        BY <3>2
      <4>2. h[n] = f[n][h[n-1]]
        BY <2>1, <4>1
      <4> QED BY <2>5, <4>1, <4>2
    <3> QED BY <3>1, <3>2
  <2>8. Good(g, m)
    BY <2>4, <2>6, <2>7
  <2>9. \E h1 \in [0 .. m -> S] : Good(h1, m)
    BY ONLY <2>4, <2>8
  <2>10. m \in 0 .. N
    OBVIOUS
  <2> HIDE DEF Good
  <2> QED BY ONLY <2>9, <2>10
<1> HIDE DEF T
<1>3. 0 .. N \subseteq T
  BY <1>1, <1>2, CountInduction
<1>4. N \in T
  BY <1>3
<1> QED BY <1>4 DEF T, Goes

-----------------------------------------------------------------------------
(* The elements at some places *)

\* kept[n] is what Those keeps of the first n elements.
Keeping(kept, seq, places) ==
  /\ kept[0] = << >> /\ Those(seq, places) = kept[Len(seq)]
  /\ \A n \in 1 .. Len(seq) :
       kept[n] = IF n \in places THEN Append(kept[n-1], seq[n]) ELSE kept[n-1]

LEMMA ThoseKept ==
  ASSUME NEW S, NEW seq \in Seq(S), NEW places
  PROVE  \E kept \in [0 .. Len(seq) -> Seq(S)] : Keeping(kept, seq, places)
<1> DEFINE N == Len(seq)
           Keep(c, n) == IF n \in places THEN Append(c[n-1], seq[n]) ELSE c[n-1]
           Whole(c) == [n \in 0 .. N |-> IF n = 0 THEN << >> ELSE Keep(c, n)]
           kept == CHOOSE c : c = Whole(c)
           f == [n \in 1 .. N |-> [x \in Seq(S) |-> IF n \in places THEN Append(x, seq[n]) ELSE x]]
<1>1. N \in Nat /\ \A n \in 1 .. N : seq[n] \in S
  BY ElementOfSeq, LenProperties
<1>2. f \in [1 .. N -> [Seq(S) -> Seq(S)]]
  <2>1. \A n \in 1 .. N, x \in Seq(S) : (IF n \in places THEN Append(x, seq[n]) ELSE x) \in Seq(S)
    BY <1>1, AppendProperties
  <2> QED BY <2>1
<1>3. PICK g \in [0 .. N -> Seq(S)] : g[0] = << >> /\ \A n \in 1 .. N : g[n] = f[n][g[n-1]]
  <2>1. << >> \in Seq(S)
    BY EmptySeq
  <2>2. N \in Nat
    BY <1>1
  <2> HIDE DEF f, N
  <2>3. \E g \in [0 .. N -> Seq(S)] : Goes(g, << >>, f, N)
    BY ONLY <1>2, <2>1, <2>2, Recursion
  <2> QED BY ONLY <2>3 DEF Goes
<1>4. \A n \in 1 .. N : g[n] = Keep(g, n)
  <2> SUFFICES ASSUME NEW n \in 1 .. N PROVE g[n] = Keep(g, n)
    OBVIOUS
  <2>1. g[n-1] \in Seq(S)
    BY <1>1
  <2> QED BY <1>3, <2>1
<1>5. g = Whole(g)
  <2>1. \A n \in 0 .. N : n = 0 \/ n \in 1 .. N
    BY <1>1
  <2> QED BY <1>3, <1>4, <2>1
<1>6. kept = Whole(kept)
  BY <1>5
<1>7. Those(seq, places) = kept[N]
  BY DEF Those
<1> HIDE DEF kept
<1>8. kept[0] = << >> /\ \A n \in 1 .. N : kept[n] = Keep(kept, n)
  <2>1. kept[0] = << >>
    BY ONLY <1>1, <1>6
  <2>2. ASSUME NEW n \in 1 .. N PROVE kept[n] = Keep(kept, n)
    <3>1. n \in 0 .. N /\ n # 0
      BY ONLY <1>1, n \in 1 .. N
    <3> QED BY ONLY <1>6, <3>1
  <2> QED BY <2>1, <2>2
<1>9. DOMAIN kept = 0 .. N /\ kept = [n \in 0 .. N |-> kept[n]]
  BY <1>6
<1>10. \A n \in 0 .. N : kept[n] \in Seq(S)
  <2> DEFINE T == {n \in 0 .. N : kept[n] \in Seq(S)}
  <2>1. 0 \in T
    <3>1. kept[0] \in Seq(S)
      BY <1>8, EmptySeq
    <3>2. 0 \in 0 .. N
      BY ONLY <1>1
    <3> QED BY ONLY <3>1, <3>2
  <2>2. ASSUME NEW n \in 1 .. N, n - 1 \in T PROVE n \in T
    <3>1. kept[n-1] \in Seq(S) /\ seq[n] \in S /\ n \in 0 .. N
      BY <1>1, <2>2
    <3>2. kept[n] = Keep(kept, n)
      BY <1>8
    <3>3. kept[n] \in Seq(S)
      BY ONLY <3>1, <3>2, AppendProperties
    <3> QED BY <3>1, <3>3
  <2> HIDE DEF T
  <2>3. 0 .. N \subseteq T
    BY <1>1, <2>1, <2>2, CountInduction
  <2> QED BY <2>3 DEF T
<1>11. kept \in [0 .. N -> Seq(S)]
  BY <1>9, <1>10
<1>12. Keeping(kept, seq, places)
  BY ONLY <1>7, <1>8 DEF Keeping
<1> QED BY ONLY <1>11, <1>12

\* t is what seq has at the places P: at gives the place of each element.
Picks(at, t, seq, P) ==
  /\ at \in [1 .. Len(t) -> P]
  /\ \A i \in 1 .. Len(t) : t[i] = seq[at[i]]
  /\ \A i, j \in 1 .. Len(t) : i < j => at[i] < at[j]
  /\ \A p \in P : \E i \in 1 .. Len(t) : at[i] = p

LEMMA ThoseAre ==
  ASSUME NEW S, NEW seq \in Seq(S), NEW P \in SUBSET (1 .. Len(seq))
  PROVE  Those(seq, P) \in Seq(S) /\ \E at : Picks(at, Those(seq, P), seq, P)
<1> DEFINE N == Len(seq)
<1>a. PICK kept \in [0 .. N -> Seq(S)] : Keeping(kept, seq, P)
  BY ONLY seq \in Seq(S), ThoseKept
<1>1. /\ kept[0] = << >> /\ Those(seq, P) = kept[N]
      /\ \A n \in 1 .. N : kept[n] = IF n \in P THEN Append(kept[n-1], seq[n]) ELSE kept[n-1]
  BY ONLY <1>a DEF Keeping
<1>2. N \in Nat /\ \A n \in 1 .. N : seq[n] \in S
  BY ElementOfSeq, LenProperties
<1> DEFINE Q(n) == P \cap (1 .. n)
           T == {n \in 0 .. N : \E at : Picks(at, kept[n], seq, Q(n))}
<1>3. 0 \in T
  <2> DEFINE at == [i \in 1 .. 0 |-> 0]
  <2>1. kept[0] = << >> /\ Len(<< >>) = 0 /\ 1 .. 0 = {} /\ Q(0) = {}
    BY <1>1
  <2>2. at \in [1 .. 0 -> Q(0)]
    OBVIOUS
  <2> HIDE DEF at
  <2>3. Picks(at, kept[0], seq, Q(0))
    BY <2>1, <2>2 DEF Picks
  <2>4. 0 \in 0 .. N
    BY <1>2
  <2> HIDE DEF Q
  <2> QED BY <2>3, <2>4
<1>4. ASSUME NEW n \in 1 .. N, n - 1 \in T PROVE n \in T
  <2>1. PICK at : Picks(at, kept[n-1], seq, Q(n-1))
    BY <1>4
  <2>2. n \in 0 .. N /\ n - 1 \in 0 .. N /\ n \in Int
    BY <1>2
  <2> DEFINE u == kept[n-1]
             m == Len(u)
  <2>3. u \in Seq(S) /\ m \in Nat /\ seq[n] \in S
    <3>1. u \in Seq(S)
      BY <2>2
    <3> QED BY <3>1, <1>2, LenProperties
  <2>4. CASE n \in P
    <3> DEFINE t == Append(u, seq[n])
               to == [i \in 1 .. m + 1 |-> IF i = m + 1 THEN n ELSE at[i]]
    <3>1. kept[n] = t
      BY <1>1, <2>4
    <3>2. Len(t) = m + 1 /\ t[m+1] = seq[n] /\ \A i \in 1 .. m : t[i] = u[i]
      BY <2>3, AppendProperties
    <3>3. Q(n) = Q(n-1) \cup {n} /\ (\A p \in Q(n-1) : p < n /\ p \in Int)
      BY <2>2, <2>4
    <3>4. \A i \in 1 .. m + 1 : i = m + 1 \/ (i \in 1 .. m /\ i < m + 1)
      <4>1. m \in Nat
        BY <2>3
      <4> HIDE DEF m
      <4> QED BY ONLY <4>1
    <3>5. /\ at \in [1 .. m -> Q(n-1)]
          /\ \A i \in 1 .. m : u[i] = seq[at[i]]
          /\ \A i, j \in 1 .. m : i < j => at[i] < at[j]
          /\ \A p \in Q(n-1) : \E i \in 1 .. m : at[i] = p
      BY <2>1 DEF Picks
    <3>6. to[m+1] = n /\ (\A i \in 1 .. m : to[i] = at[i]) /\ m + 1 \in 1 .. m + 1 /\ 1 .. m \subseteq 1 .. m + 1
      BY <2>3
    <3>7. to \in [1 .. m + 1 -> Q(n)]
      <4>1. \A i \in 1 .. m + 1 : (IF i = m + 1 THEN n ELSE at[i]) \in Q(n)
        <5> HIDE DEF Q
        <5> QED BY <3>3, <3>4, <3>5
      <4> QED BY <4>1
    <3> HIDE DEF Q, to, t, u, m
    <3>8. \A i \in 1 .. m + 1 : t[i] = seq[to[i]]
      BY <3>2, <3>4, <3>5, <3>6
    <3>9. \A i, j \in 1 .. m + 1 : i < j => to[i] < to[j]
      <4> SUFFICES ASSUME NEW i \in 1 .. m + 1, NEW j \in 1 .. m + 1, i < j PROVE to[i] < to[j]
        OBVIOUS
      <4>1. i \in 1 .. m
        BY <2>3
      <4>2. CASE j = m + 1
        <5>1. at[i] \in Q(n-1)
          BY <3>5, <4>1
        <5>2. at[i] < n
          BY <3>3, <5>1
        <5> QED BY <3>6, <4>1, <4>2, <5>2
      <4>3. CASE j \in 1 .. m
        BY <3>5, <3>6, <4>1, <4>3
      <4> QED BY <3>4, <4>2, <4>3
    <3>10. \A p \in Q(n) : \E i \in 1 .. m + 1 : to[i] = p
      <4> SUFFICES ASSUME NEW p \in Q(n) PROVE \E i \in 1 .. m + 1 : to[i] = p
        OBVIOUS
      <4>1. CASE p = n
        BY <3>6, <4>1
      <4>2. CASE p \in Q(n-1)
        <5>1. PICK i \in 1 .. m : at[i] = p
          BY <3>5, <4>2
        <5> QED BY <3>6, <5>1
      <4> QED BY <3>3, <4>1, <4>2
    <3>11. Picks(to, t, seq, Q(n))
      BY <3>2, <3>7, <3>8, <3>9, <3>10 DEF Picks
    <3> QED BY <3>1, <3>11, <2>2
  <2>5. CASE n \notin P
    <3>1. kept[n] = u
      BY <1>1, <2>5
    <3>2. Q(n) = Q(n-1)
      BY <2>2, <2>5
    <3> HIDE DEF Q
    <3> QED BY <3>1, <3>2, <2>1, <2>2
  <2> QED BY <2>4, <2>5
<1> HIDE DEF T
<1>5. N \in T
  <2>1. 0 .. N \subseteq T
    BY <1>2, <1>3, <1>4, CountInduction
  <2> QED BY <1>2, <2>1
<1>6. Q(N) = P
  OBVIOUS
<1>7. PICK at : Picks(at, kept[N], seq, Q(N))
  BY <1>5 DEF T
<1>8. Picks(at, Those(seq, P), seq, P)
  BY <1>1, <1>6, <1>7
<1>9. Those(seq, P) \in Seq(S)
  <2>1. N \in 0 .. N
    BY <1>2
  <2> QED BY <1>1, <2>1
<1> QED BY <1>8, <1>9

LEMMA Listing ==
  ASSUME NEW S, NEW s \in Seq(S)
  PROVE  Sequence(s) /\ ToSet(s) \subseteq S /\ ToSet(s) = {s[i] : i \in 1 .. Len(s)}
<1>1. Len(s) \in Nat /\ DOMAIN s = 1 .. Len(s) /\ s = [i \in 1 .. Len(s) |-> s[i]] /\ \A i \in 1 .. Len(s) : s[i] \in S
  BY LenProperties, ElementOfSeq
<1>2. s \in [1 .. Len(s) -> ToSet(s)]
  BY <1>1 DEF ToSet
<1>3. s \in Seq(ToSet(s))
  BY <1>1, <1>2, SeqDef
<1> QED BY <1>1, <1>3 DEF Sequence, ToSet

LEMMA ListingAt ==
  ASSUME NEW s, Sequence(s)
  PROVE  /\ Len(s) \in Nat /\ DOMAIN s = 1 .. Len(s)
         /\ \A i \in DOMAIN s : s[i] \in ToSet(s)
         /\ \A x \in ToSet(s) : \E i \in DOMAIN s : s[i] = x
<1>1. s \in Seq(ToSet(s))
  BY DEF Sequence
<1> QED BY <1>1, LenProperties DEF ToSet

-----------------------------------------------------------------------------
(* The simulation of the limits *)

LEMMA ApplicableAre ==
  ASSUME NEW limits, Sequence(limits), NEW tool
  PROVE  /\ Applicable(limits, tool) \in Seq(ToSet(limits))
         /\ \E P \in SUBSET DOMAIN limits : \E at : Picks(at, Applicable(limits, tool), limits, P)
<1> DEFINE of(name) == Those(limits, {k \in DOMAIN limits : limits[k].tool = name})
<1>1. limits \in Seq(ToSet(limits)) /\ DOMAIN limits = 1 .. Len(limits)
  BY ListingAt DEF Sequence
<1>2. ASSUME NEW name
      PROVE  of(name) \in Seq(ToSet(limits)) /\ \E P \in SUBSET DOMAIN limits : \E at : Picks(at, of(name), limits, P)
  <2> DEFINE P == {k \in DOMAIN limits : limits[k].tool = name}
  <2>1. P \in SUBSET (1 .. Len(limits)) /\ P \in SUBSET DOMAIN limits
    BY <1>1
  <2>2. of(name) = Those(limits, P)
    OBVIOUS
  <2> HIDE DEF P, of
  <2>3. Those(limits, P) \in Seq(ToSet(limits)) /\ \E at : Picks(at, Those(limits, P), limits, P)
    BY <1>1, <2>1, ThoseAre
  <2> QED BY <2>1, <2>2, <2>3
<1>3. Applicable(limits, tool) = of(tool) \/ Applicable(limits, tool) = of("*")
  BY DEF Applicable
<1> HIDE DEF of
<1> QED BY <1>2, <1>3

LimitKeys(r, policy) ==
  [k \in DOMAIN Applicable(policy.limits, r.tool) |-> CounterKey(Applicable(policy.limits, r.tool)[k], r.at)]

Exhausted(used, r, policy) ==
  \E k \in DOMAIN Applicable(policy.limits, r.tool) :
    Count(used, LimitKeys(r, policy)[k]) >= Applicable(policy.limits, r.tool)[k].max

Answer(used, r, policy) ==
  IF Exhausted(used, r, policy) THEN "BLOCK"
  ELSE IF HasParamsRule(r.tool, policy) THEN "UNKNOWN" ELSE "ALLOW"

LEMMA SimulateIs ==
  ASSUME NEW state, NEW r, NEW policy
  PROVE  Simulate(state, r, policy) =
           [used |-> IF Exhausted(state.used, r, policy) THEN state.used ELSE state.used \o LimitKeys(r, policy),
            said |-> Append(state.said, Answer(state.used, r, policy))]
BY DEF Simulate, Exhausted, LimitKeys, Answer

Keys(rs, policy) == {CounterKey(limit, r.at) : limit \in ToSet(policy.limits), r \in ToSet(rs)}

SimulationState(rs, policy) == [used : Seq(Keys(rs, policy)), said : Seq({"BLOCK", "UNKNOWN", "ALLOW"})]

LEMMA SimulateInState ==
  ASSUME NEW rs, Sequence(rs), NEW policy, Sequence(policy.limits),
         NEW state \in SimulationState(rs, policy), NEW r \in ToSet(rs)
  PROVE  Simulate(state, r, policy) \in SimulationState(rs, policy)
<1> DEFINE K == Keys(rs, policy)
           app == Applicable(policy.limits, r.tool)
<1>1. app \in Seq(ToSet(policy.limits))
  BY ApplicableAre
<1>2. Len(app) \in Nat /\ DOMAIN app = 1 .. Len(app) /\ \A k \in 1 .. Len(app) : app[k] \in ToSet(policy.limits)
  BY <1>1, LenProperties, ElementOfSeq
<1>3. LimitKeys(r, policy) \in Seq(K)
  <2>1. \A k \in DOMAIN app : CounterKey(app[k], r.at) \in K
    <3> HIDE DEF app
    <3> QED BY <1>2 DEF Keys
  <2>2. LimitKeys(r, policy) = [k \in DOMAIN app |-> CounterKey(app[k], r.at)]
    BY DEF LimitKeys
  <2> HIDE DEF K, app
  <2>3. LimitKeys(r, policy) \in [1 .. Len(app) -> K]
    BY <1>2, <2>1, <2>2
  <2> QED BY <1>2, <2>3, SeqDef
<1>4. state.used \in Seq(K) /\ state.said \in Seq({"BLOCK", "UNKNOWN", "ALLOW"})
  BY DEF SimulationState
<1> HIDE DEF K
<1>5. state.used \o LimitKeys(r, policy) \in Seq(K)
  BY <1>3, <1>4, ConcatProperties
<1>6. Answer(state.used, r, policy) \in {"BLOCK", "UNKNOWN", "ALLOW"}
  BY DEF Answer
<1>7. Append(state.said, Answer(state.used, r, policy)) \in Seq({"BLOCK", "UNKNOWN", "ALLOW"})
  BY <1>4, <1>6, AppendProperties
<1> QED BY <1>4, <1>5, <1>7, SimulateIs DEF SimulationState, K

\* The calls counted before each receipt, and what the simulation says of it.
Simulates(used, rs, policy) ==
  /\ used \in [0 .. Len(rs) -> Seq(Keys(rs, policy))]
  /\ used[0] = << >>
  /\ \A n \in 1 .. Len(rs) :
       /\ RunCounterfactualSimulation(rs, policy)[n] = Answer(used[n-1], rs[n], policy)
       /\ used[n] = IF Exhausted(used[n-1], rs[n], policy) THEN used[n-1]
                    ELSE used[n-1] \o LimitKeys(rs[n], policy)

LEMMA Simulation ==
  ASSUME NEW rs, Sequence(rs), NEW policy, Sequence(policy.limits)
  PROVE  \E used : Simulates(used, rs, policy)
<1> DEFINE N == Len(rs)
           SS == SimulationState(rs, policy)
           base == [used |-> << >>, said |-> << >>]
           Whole(c) == [n \in 0 .. N |-> IF n = 0 THEN base ELSE Simulate(c[n-1], rs[n], policy)]
           st == CHOOSE c : c = Whole(c)
           f == [n \in 1 .. N |-> [x \in SS |-> Simulate(x, rs[n], policy)]]
<1>1. N \in Nat /\ \A n \in 1 .. N : rs[n] \in ToSet(rs)
  BY ListingAt
<1>2. f \in [1 .. N -> [SS -> SS]]
  <2>1. \A n \in 1 .. N, x \in SS : Simulate(x, rs[n], policy) \in SS
    BY <1>1, SimulateInState
  <2> HIDE DEF SS, N
  <2> QED BY <2>1
<1>3. PICK g \in [0 .. N -> SS] : g[0] = base /\ \A n \in 1 .. N : g[n] = f[n][g[n-1]]
  <2>1. base \in SS
    BY EmptySeq DEF SimulationState
  <2>2. N \in Nat
    BY <1>1
  <2> HIDE DEF f, N, base, SS
  <2>3. \E g \in [0 .. N -> SS] : Goes(g, base, f, N)
    BY ONLY <1>2, <2>1, <2>2, Recursion
  <2> QED BY ONLY <2>3 DEF Goes
<1>4. \A n \in 1 .. N : g[n] = Simulate(g[n-1], rs[n], policy)
  <2> SUFFICES ASSUME NEW n \in 1 .. N PROVE g[n] = Simulate(g[n-1], rs[n], policy)
    OBVIOUS
  <2> HIDE DEF SS, base
  <2>1. g[n-1] \in SS
    BY <1>1
  <2> QED BY <1>3, <2>1
<1>5. g = Whole(g)
  <2> HIDE DEF SS, base
  <2>1. \A n \in 0 .. N : n = 0 \/ n \in 1 .. N
    BY <1>1
  <2>2. \A n \in 0 .. N : g[n] = IF n = 0 THEN base ELSE Simulate(g[n-1], rs[n], policy)
    BY <1>3, <1>4, <2>1
  <2> QED BY <2>2
<1>6. st = Whole(st)
  <2> HIDE DEF Whole
  <2> QED BY <1>5
<1>7. RunCounterfactualSimulation(rs, policy) = st[N].said
  BY DEF RunCounterfactualSimulation
<1> HIDE DEF st
<1>8. st[0] = base /\ DOMAIN st = 0 .. N
  <2> HIDE DEF base
  <2> QED BY ONLY <1>1, <1>6
<1>9. ASSUME NEW n \in 1 .. N PROVE st[n] = Simulate(st[n-1], rs[n], policy)
  <2>1. n \in 0 .. N /\ n # 0
    BY ONLY <1>1, n \in 1 .. N
  <2> HIDE DEF base
  <2> QED BY ONLY <1>6, <2>1
<1> HIDE DEF N, base
<1>10. ASSUME NEW n \in 0 .. N PROVE st[n] \in SS
  <2> DEFINE T == {k \in 0 .. N : st[k] \in SS}
  <2>1. 0 \in T
    <3>1. base \in SS
      BY EmptySeq DEF SimulationState, base
    <3> QED BY <1>1, <1>8, <3>1
  <2>2. ASSUME NEW k \in 1 .. N, k - 1 \in T PROVE k \in T
    <3>1. st[k-1] \in SS /\ rs[k] \in ToSet(rs) /\ k \in 0 .. N
      BY <1>1, <2>2
    <3>2. Simulate(st[k-1], rs[k], policy) \in SS
      BY <3>1, SimulateInState
    <3> QED BY <1>9, <3>1, <3>2
  <2> HIDE DEF T
  <2>3. 0 .. N \subseteq T
    BY <1>1, <2>1, <2>2, CountInduction
  <2> QED BY <2>3 DEF T
<1>11. ASSUME NEW n \in 1 .. N
       PROVE  /\ st[n].used = IF Exhausted(st[n-1].used, rs[n], policy) THEN st[n-1].used
                              ELSE st[n-1].used \o LimitKeys(rs[n], policy)
              /\ st[n].said = Append(st[n-1].said, Answer(st[n-1].used, rs[n], policy))
  <2>1. PICK s : s = st[n-1]
    OBVIOUS
  <2>2. st[n] = Simulate(s, rs[n], policy)
    BY <1>9, <2>1
  <2>3. st[n] = [used |-> IF Exhausted(s.used, rs[n], policy) THEN s.used ELSE s.used \o LimitKeys(rs[n], policy),
                 said |-> Append(s.said, Answer(s.used, rs[n], policy))]
    BY ONLY <2>2, SimulateIs
  <2>4. st[n].used = IF Exhausted(s.used, rs[n], policy) THEN s.used ELSE s.used \o LimitKeys(rs[n], policy)
    BY ONLY <2>3
  <2>5. st[n].said = Append(s.said, Answer(s.used, rs[n], policy))
    BY ONLY <2>3
  <2> QED BY ONLY <2>1, <2>4, <2>5
<1>12. ASSUME NEW n \in 0 .. N
       PROVE  st[n].used \in Seq(Keys(rs, policy)) /\ st[n].said \in Seq({"BLOCK", "UNKNOWN", "ALLOW"})
  BY <1>10 DEF SimulationState
<1>13. ASSUME NEW n \in 0 .. N
       PROVE  Len(st[n].said) = n /\ \A i \in 1 .. n : st[n].said[i] = Answer(st[i-1].used, rs[i], policy)
  <2> DEFINE Told(k) == Len(st[k].said) = k /\ \A i \in 1 .. k : st[k].said[i] = Answer(st[i-1].used, rs[i], policy)
             T == {k \in 0 .. N : Told(k)}
  <2>1. 0 \in T
    BY <1>1, <1>8 DEF base
  <2>2. ASSUME NEW k \in 1 .. N, k - 1 \in T PROVE k \in T
    <3>1. k \in 0 .. N /\ k - 1 \in 0 .. N /\ k \in Nat /\ Told(k - 1)
      BY <1>1, <2>2
    <3> DEFINE said == st[k-1].said
               new == Answer(st[k-1].used, rs[k], policy)
    <3>2. st[k].said = Append(said, new)
      BY <1>11
    <3>3. said \in Seq({"BLOCK", "UNKNOWN", "ALLOW"})
      BY <3>1, <1>12
    <3>4. new \in {"BLOCK", "UNKNOWN", "ALLOW"}
      BY DEF Answer
    <3> HIDE DEF said, new
    <3>5. Len(Append(said, new)) = Len(said) + 1 /\ Append(said, new)[Len(said) + 1] = new
          /\ \A i \in 1 .. Len(said) : Append(said, new)[i] = said[i]
      BY <3>3, <3>4, AppendProperties
    <3>6. Len(said) = k - 1 /\ \A i \in 1 .. k - 1 : said[i] = Answer(st[i-1].used, rs[i], policy)
      BY <3>1 DEF said
    <3>7. Len(st[k].said) = k /\ st[k].said[k] = new /\ \A i \in 1 .. k - 1 : st[k].said[i] = said[i]
      BY <3>1, <3>2, <3>5, <3>6
    <3>8. ASSUME NEW i \in 1 .. k PROVE st[k].said[i] = Answer(st[i-1].used, rs[i], policy)
      <4>1. CASE i = k
        BY <3>7, <4>1 DEF new
      <4>2. CASE i # k
        <5>1. i \in 1 .. k - 1
          BY <3>1, <4>2
        <5> QED BY <3>6, <3>7, <5>1
      <4> QED BY <4>1, <4>2
    <3>9. Told(k)
      BY <3>7, <3>8
    <3> HIDE DEF Told
    <3> QED BY <3>1, <3>9
  <2> HIDE DEF T
  <2>3. 0 .. N \subseteq T
    BY <1>1, <2>1, <2>2, CountInduction
  <2> QED BY <2>3 DEF T
<1> DEFINE used == [n \in 0 .. N |-> st[n].used]
<1>14. used \in [0 .. N -> Seq(Keys(rs, policy))] /\ \A n \in 0 .. N : used[n] = st[n].used
  BY <1>12
<1>15. used[0] = << >>
  BY <1>1, <1>8 DEF base
<1> HIDE DEF used
<1>16. ASSUME NEW n \in 1 .. N
       PROVE  /\ RunCounterfactualSimulation(rs, policy)[n] = Answer(used[n-1], rs[n], policy)
              /\ used[n] = IF Exhausted(used[n-1], rs[n], policy) THEN used[n-1]
                           ELSE used[n-1] \o LimitKeys(rs[n], policy)
  <2>1. n \in 0 .. N /\ n - 1 \in 0 .. N /\ N \in 0 .. N
    BY <1>1
  <2>2. used[n] = st[n].used /\ used[n-1] = st[n-1].used
    BY <1>14, <2>1
  <2>3. st[N].said[n] = Answer(st[n-1].used, rs[n], policy)
    BY <1>13, <2>1
  <2> QED BY <1>7, <1>11, <2>2, <2>3
<1>17. Simulates(used, rs, policy)
  BY <1>14, <1>15, <1>16 DEF Simulates, N
<1> QED BY <1>17

-----------------------------------------------------------------------------
(* What the receipts are *)

Receipts(ats) ==
  [tool : {call.tool : call \in Calls \cup Probes}, args : {call.args : call \in Calls \cup Probes},
   model : {call.model : call \in Calls \cup Probes}, at : ats,
   policy : {f \in DOMAIN Files : Usable(f)},
   decision : {"FAIL_CLOSED"} \cup {Decision(f, call) : f \in DOMAIN Files, call \in Calls \cup Probes}]

\* A receipt that the workflow may have had by the given time.
Receivable(now) ==
  {r \in Receipts(Start .. now) :
     /\ [tool |-> r.tool, args |-> r.args, model |-> r.model] \in
          {[tool |-> call.tool, args |-> call.args, model |-> call.model] : call \in Calls \cup Probes}
     /\ r.decision \in {Decision(r.policy, r), "FAIL_CLOSED"}}

ReplayInv ==
  /\ file \in DOMAIN Files
  /\ clock \in Int /\ Start <= clock
  /\ receipts \in Seq(Receivable(clock))

LEMMA RecordsKeeps ==
  ASSUME ReplayInv, NEW call \in Calls \cup Probes, NEW d,
         d \in {Decision(file, call), "FAIL_CLOSED"}, Records(call, d)
  PROVE  ReplayInv'
<1> DEFINE r == [tool |-> call.tool, args |-> call.args, model |-> call.model, at |-> clock,
                 policy |-> file, decision |-> d]
<1>1. file' = file /\ clock' = clock /\ receipts' = Append(receipts, r) /\ Usable(file)
  BY DEF Records
<1>2. r.tool = call.tool /\ r.args = call.args /\ r.model = call.model /\ r.at = clock /\ r.policy = file /\ r.decision = d
  OBVIOUS
<1>3. Decision(file, r) = Decision(file, call)
  <2> HIDE DEF r
  <2> QED BY <1>2 DEF Decision
<1>4. r \in Receivable(clock)
  <2>1. clock \in Start .. clock /\ file \in {f \in DOMAIN Files : Usable(f)} /\ file \in DOMAIN Files
    BY <1>1, ReplayBounds DEF ReplayInv
  <2>2. /\ call.tool \in {c.tool : c \in Calls \cup Probes} /\ call.args \in {c.args : c \in Calls \cup Probes}
        /\ call.model \in {c.model : c \in Calls \cup Probes}
    OBVIOUS
  <2>3. d \in {"FAIL_CLOSED"} \cup {Decision(f, c) : f \in DOMAIN Files, c \in Calls \cup Probes}
    BY <2>1
  <2>4. [tool |-> call.tool, args |-> call.args, model |-> call.model] \in
          {[tool |-> c.tool, args |-> c.args, model |-> c.model] : c \in Calls \cup Probes}
    OBVIOUS
  <2>5. r.decision \in {Decision(r.policy, r), "FAIL_CLOSED"}
    <3> HIDE DEF r
    <3> QED BY <1>2, <1>3
  <2>6. r \in Receipts(Start .. clock)
    BY ONLY <2>1, <2>2, <2>3 DEF Receipts
  <2> HIDE DEF r
  <2> QED BY <1>2, <2>4, <2>5, <2>6 DEF Receivable
<1> HIDE DEF r
<1>5. Append(receipts, r) \in Seq(Receivable(clock))
  BY <1>4, AppendProperties DEF ReplayInv
<1> QED BY <1>1, <1>5 DEF ReplayInv

LEMMA ReplayInvInductive ==
  /\ ReplayInit => ReplayInv
  /\ ReplayInv /\ [ReplayNext]_replayVars => ReplayInv'
<1>1. ASSUME ReplayInit PROVE ReplayInv
  <2>1. Start \in Int /\ << >> \in Seq(Receivable(clock))
    BY ReplayBounds, EmptySeq
  <2> QED BY <1>1, <2>1 DEF ReplayInit, ReplayInv
<1>2. ASSUME ReplayInv, [ReplayNext]_replayVars PROVE ReplayInv'
  <2>1. ASSUME NEW call \in Calls, CallTool(call) PROVE ReplayInv'
    BY <1>2, <2>1, RecordsKeeps DEF CallTool
  <2>2. ASSUME NEW call \in Calls, DeadLetter(call) PROVE ReplayInv'
    BY <1>2, <2>2, RecordsKeeps DEF DeadLetter
  <2>3. ASSUME NEW call \in Probes, Probe(call) PROVE ReplayInv'
    BY <1>2, <2>3, RecordsKeeps DEF Probe
  <2>4. CASE Tick
    <3>1. file' = file /\ receipts' = receipts /\ clock' = clock + 1
      BY <2>4 DEF Tick
    <3>2. clock' \in Int /\ Start <= clock'
      BY <1>2, <3>1, ReplayBounds DEF ReplayInv
    <3>3. Receivable(clock) \subseteq Receivable(clock')
      <4>1. Start .. clock \subseteq Start .. clock'
        BY <1>2, <3>1, ReplayBounds DEF ReplayInv
      <4>2. Receipts(Start .. clock) \subseteq Receipts(Start .. clock')
        BY ONLY <4>1 DEF Receipts
      <4>3. ASSUME NEW r \in Receivable(clock) PROVE r \in Receivable(clock')
        BY <4>2 DEF Receivable
      <4> QED BY <4>3
    <3>4. receipts \in Seq(Receivable(clock'))
      <4>1. receipts \in Seq(Receivable(clock))
        BY <1>2 DEF ReplayInv
      <4>2. Len(receipts) \in Nat /\ receipts \in [1 .. Len(receipts) -> Receivable(clock')]
        BY <3>3, <4>1, LenProperties
      <4> QED BY <4>2, SeqDef
    <3> QED BY <1>2, <3>1, <3>2, <3>4 DEF ReplayInv
  <2>5. CASE EditPolicy
    BY <1>2, <2>5 DEF ReplayInv, EditPolicy
  <2>6. CASE UNCHANGED replayVars
    BY <1>2, <2>6 DEF ReplayInv, replayVars
  <2> QED BY <1>2, <2>1, <2>2, <2>3, <2>4, <2>5, <2>6 DEF ReplayNext
<1> QED BY <1>1, <1>2

\* Every receipt is of a call, decided by a policy that could be loaded, and
\* is not from the future.
THEOREM ReceiptsAsDecided == ReplaySpec => []ReplayInv
<1>1. ReplayInit => ReplayInv
  BY ReplayInvInductive
<1>2. ReplayInv /\ [ReplayNext]_replayVars => ReplayInv'
  BY ReplayInvInductive
<1> QED BY <1>1, <1>2, PTL DEF ReplaySpec

-----------------------------------------------------------------------------
(* Lists *)

LEMMA Joined ==
  ASSUME NEW s, NEW t, Sequence(s), Sequence(t)
  PROVE  Sequence(s \o t) /\ ToSet(s \o t) = ToSet(s) \cup ToSet(t)
<1> DEFINE S == ToSet(s) \cup ToSet(t)
<1>1. /\ Len(s) \in Nat /\ DOMAIN s = 1 .. Len(s) /\ (\A i \in DOMAIN s : s[i] \in ToSet(s))
      /\ Len(t) \in Nat /\ DOMAIN t = 1 .. Len(t) /\ (\A i \in DOMAIN t : t[i] \in ToSet(t))
  BY ListingAt
<1>2. s \in Seq(S) /\ t \in Seq(S)
  <2>1. s \in [1 .. Len(s) -> S] /\ t \in [1 .. Len(t) -> S]
    <3>1. s \in Seq(ToSet(s)) /\ t \in Seq(ToSet(t))
      BY DEF Sequence
    <3>2. s = [i \in 1 .. Len(s) |-> s[i]] /\ t = [i \in 1 .. Len(t) |-> t[i]]
      BY <3>1, LenProperties
    <3> QED BY <1>1, <3>2
  <2> QED BY <1>1, <2>1, SeqDef
<1> HIDE DEF S
<1>3. /\ s \o t \in Seq(S) /\ Len(s \o t) = Len(s) + Len(t)
      /\ \A i \in 1 .. Len(s) + Len(t) : (s \o t)[i] = IF i <= Len(s) THEN s[i] ELSE t[i - Len(s)]
  BY <1>2, ConcatProperties
<1>4. Sequence(s \o t) /\ ToSet(s \o t) \subseteq S
  BY <1>3, Listing
<1>5. ToSet(s \o t) = {(s \o t)[i] : i \in 1 .. Len(s) + Len(t)}
  BY <1>3, Listing
<1>6. ASSUME NEW x \in ToSet(s) PROVE x \in ToSet(s \o t)
  <2>1. PICK i \in 1 .. Len(s) : s[i] = x
    BY <1>1, ListingAt
  <2>2. i \in 1 .. Len(s) + Len(t) /\ (s \o t)[i] = x
    BY <1>1, <1>3, <2>1
  <2> QED BY <1>5, <2>2
<1>7. ASSUME NEW x \in ToSet(t) PROVE x \in ToSet(s \o t)
  <2>1. PICK i \in 1 .. Len(t) : t[i] = x
    BY <1>1, ListingAt
  <2>2. i + Len(s) \in 1 .. Len(s) + Len(t) /\ ~ (i + Len(s) <= Len(s)) /\ (i + Len(s)) - Len(s) = i
    BY <1>1
  <2>3. (s \o t)[i + Len(s)] = x
    BY <1>3, <2>1, <2>2
  <2> QED BY <1>5, <2>2, <2>3
<1> QED BY <1>4, <1>6, <1>7 DEF S

LEMMA EmptyList == Sequence(<< >>) /\ ToSet(<< >>) = {}
<1>1. PICK e : e = << >>
  OBVIOUS
<1>2. e \in Seq({})
  BY <1>1, EmptySeq
<1>3. Sequence(e) /\ ToSet(e) \subseteq {}
  BY <1>2, Listing
<1> QED BY <1>1, <1>3

LEMMA List1 ==
  ASSUME NEW a
  PROVE  Sequence(<<a>>)
<1>1. <<a>> \in Seq({a})
  OBVIOUS
<1> QED BY ONLY <1>1, Listing

LEMMA List2 ==
  ASSUME NEW a, NEW b
  PROVE  Sequence(<<a, b>>)
<1>1. <<a, b>> \in Seq({a, b})
  OBVIOUS
<1> QED BY ONLY <1>1, Listing

LEMMA List3 ==
  ASSUME NEW a, NEW b, NEW c
  PROVE  Sequence(<<a, b, c>>)
<1>1. <<a, b, c>> \in Seq({a, b, c})
  OBVIOUS
<1> QED BY ONLY <1>1, Listing

LEMMA List5 ==
  ASSUME NEW a, NEW b, NEW c, NEW d, NEW e
  PROVE  Sequence(<<a, b, c, d, e>>)
<1>1. <<a, b, c, d, e>> \in Seq({a, b, c, d, e})
  OBVIOUS
<1> QED BY ONLY <1>1, Listing

LEMMA List6 ==
  ASSUME NEW a, NEW b, NEW c, NEW d, NEW e, NEW f
  PROVE  Sequence(<<a, b, c, d, e, f>>)
<1>1. <<a, b, c, d, e, f>> \in Seq({a, b, c, d, e, f})
  OBVIOUS
<1> QED BY ONLY <1>1, Listing

LEMMA List7 ==
  ASSUME NEW a, NEW b, NEW c, NEW d, NEW e, NEW f, NEW g
  PROVE  Sequence(<<a, b, c, d, e, f, g>>)
<1>1. <<a, b, c, d, e, f, g>> \in Seq({a, b, c, d, e, f, g})
  OBVIOUS
<1> QED BY ONLY <1>1, Listing

LEMMA List8 ==
  ASSUME NEW a, NEW b, NEW c, NEW d, NEW e, NEW f, NEW g, NEW h
  PROVE  Sequence(<<a, b, c, d, e, f, g, h>>)
<1>1. <<a, b, c, d, e, f, g, h>> \in Seq({a, b, c, d, e, f, g, h})
  OBVIOUS
<1> QED BY ONLY <1>1, Listing

-----------------------------------------------------------------------------
(* The guards of the packs *)

LEMMA GuardsAre ==
  ASSUME NEW tool, NEW d, NEW field, NEW op, NEW value, NEW n, NEW params
  PROVE  /\ Rule(tool, d, params) = [tool |-> tool, decision |-> d, params |-> params, merge |-> FALSE]
         /\ Guard(tool, d, field, op, value) = [tool |-> tool, decision |-> d, params |-> <<Condition(field, op, value)>>, merge |-> FALSE]
         /\ Missing(tool, d, field) = [tool |-> tool, decision |-> d, params |-> <<Condition(field, "not_exists", Absent)>>, merge |-> FALSE]
         /\ Empty(tool, d, field) = [tool |-> tool, decision |-> d, params |-> <<Condition(field, "eq", Text(""))>>, merge |-> FALSE]
         /\ Blank(tool, d, field) = [tool |-> tool, decision |-> d, params |-> <<Condition(field, "match", Pattern("blank"))>>, merge |-> FALSE]
         /\ Unlisted(tool, field, value) = [tool |-> tool, decision |-> "BLOCK", params |-> <<Condition(field, "not_in", value)>>, merge |-> FALSE]
         /\ Over(tool, d, field, n) = [tool |-> tool, decision |-> d, params |-> <<Condition(field, "gt", Number(n))>>, merge |-> FALSE]
         /\ OverDigits(tool, d, field, n) = [tool |-> tool, decision |-> d, params |-> <<Condition(field, "gt_bigint", Digits(n))>>, merge |-> FALSE]
BY DEF Rule, Guard, Missing, Empty, Blank, Unlisted, Over, OverDigits

LEMMA GuardsHave ==
  ASSUME NEW tool, NEW d, NEW field, NEW op, NEW value, NEW n, NEW params
  PROVE  /\ Rule(tool, d, params).tool = tool /\ Rule(tool, d, params).decision = d
         /\ Guard(tool, d, field, op, value).tool = tool /\ Guard(tool, d, field, op, value).decision = d
         /\ Missing(tool, d, field).tool = tool /\ Missing(tool, d, field).decision = d
         /\ Empty(tool, d, field).tool = tool /\ Empty(tool, d, field).decision = d
         /\ Blank(tool, d, field).tool = tool /\ Blank(tool, d, field).decision = d
         /\ Unlisted(tool, field, value).tool = tool /\ Unlisted(tool, field, value).decision = "BLOCK"
         /\ Over(tool, d, field, n).tool = tool /\ Over(tool, d, field, n).decision = d
         /\ OverDigits(tool, d, field, n).tool = tool /\ OverDigits(tool, d, field, n).decision = d
<1>1. Rule(tool, d, params).tool = tool /\ Rule(tool, d, params).decision = d
  BY DEF Rule
<1>2. Guard(tool, d, field, op, value).tool = tool /\ Guard(tool, d, field, op, value).decision = d
  BY DEF Rule, Guard
<1>3. Missing(tool, d, field).tool = tool /\ Missing(tool, d, field).decision = d
  BY DEF Rule, Guard, Missing
<1>4. Empty(tool, d, field).tool = tool /\ Empty(tool, d, field).decision = d
  BY DEF Rule, Guard, Empty
<1>5. Blank(tool, d, field).tool = tool /\ Blank(tool, d, field).decision = d
  BY DEF Rule, Guard, Blank
<1>6. Unlisted(tool, field, value).tool = tool /\ Unlisted(tool, field, value).decision = "BLOCK"
  BY DEF Rule, Guard, Unlisted
<1>7. Over(tool, d, field, n).tool = tool /\ Over(tool, d, field, n).decision = d
  BY DEF Rule, Guard, Over
<1>8. OverDigits(tool, d, field, n).tool = tool /\ OverDigits(tool, d, field, n).decision = d
  BY DEF Rule, Guard, OverDigits
<1> QED BY ONLY <1>1, <1>2, <1>3, <1>4, <1>5, <1>6, <1>7, <1>8

LEMMA StripeRefundIs ==
  /\ Sequence(StripeRefund)
  /\ \A x \in ToSet(StripeRefund) : x.tool = "stripe_refund" /\ x.decision # "ALLOW"
  /\ Missing("stripe_refund", "BLOCK", "charge_id") \in ToSet(StripeRefund)
  /\ Empty("stripe_refund", "BLOCK", "charge_id") \in ToSet(StripeRefund)
  /\ Missing("stripe_refund", "STEP_UP", "amount") \in ToSet(StripeRefund)
  /\ Empty("stripe_refund", "STEP_UP", "amount") \in ToSet(StripeRefund)
  /\ Over("stripe_refund", "BLOCK", "amount", 500000) \in ToSet(StripeRefund)
  /\ Over("stripe_refund", "STEP_UP", "amount", 50000) \in ToSet(StripeRefund)
<1> DEFINE s == <<Missing("stripe_refund", "BLOCK", "charge_id"),
                   Empty("stripe_refund", "BLOCK", "charge_id"),
                   Missing("stripe_refund", "STEP_UP", "amount"),
                   Empty("stripe_refund", "STEP_UP", "amount"),
                   Over("stripe_refund", "BLOCK", "amount", 500000),
                   Over("stripe_refund", "STEP_UP", "amount", 50000)>>
<1>1. Sequence(s)
  BY ONLY List6
<1>2. StripeRefund = s
  BY DEF StripeRefund
<1>3. Len(s) = 6
  OBVIOUS
<1>4. s[1] = Missing("stripe_refund", "BLOCK", "charge_id")
  OBVIOUS
<1>5. s[2] = Empty("stripe_refund", "BLOCK", "charge_id")
  OBVIOUS
<1>6. s[3] = Missing("stripe_refund", "STEP_UP", "amount")
  OBVIOUS
<1>7. s[4] = Empty("stripe_refund", "STEP_UP", "amount")
  OBVIOUS
<1>8. s[5] = Over("stripe_refund", "BLOCK", "amount", 500000)
  OBVIOUS
<1>9. s[6] = Over("stripe_refund", "STEP_UP", "amount", 50000)
  OBVIOUS
<1> HIDE DEF s
<1>10. DOMAIN s = 1 .. 6 /\ (\A i \in DOMAIN s : s[i] \in ToSet(s)) /\ \A x \in ToSet(s) : \E i \in DOMAIN s : s[i] = x
  BY <1>1, <1>3, ListingAt
<1>11. ASSUME NEW x \in ToSet(s) PROVE x.tool = "stripe_refund" /\ x.decision # "ALLOW"
  <2>1. PICK i \in 1 .. 6 : s[i] = x
    BY <1>10
  <2>2. i \in {1, 2, 3, 4, 5, 6}
    BY <2>1
  <2>3. s[1].tool = "stripe_refund" /\ s[1].decision # "ALLOW"
    BY ONLY <1>4, GuardsHave
  <2>4. s[2].tool = "stripe_refund" /\ s[2].decision # "ALLOW"
    BY ONLY <1>5, GuardsHave
  <2>5. s[3].tool = "stripe_refund" /\ s[3].decision # "ALLOW"
    BY ONLY <1>6, GuardsHave
  <2>6. s[4].tool = "stripe_refund" /\ s[4].decision # "ALLOW"
    BY ONLY <1>7, GuardsHave
  <2>7. s[5].tool = "stripe_refund" /\ s[5].decision # "ALLOW"
    BY ONLY <1>8, GuardsHave
  <2>8. s[6].tool = "stripe_refund" /\ s[6].decision # "ALLOW"
    BY ONLY <1>9, GuardsHave
  <2> QED BY ONLY <2>1, <2>2, <2>3, <2>4, <2>5, <2>6, <2>7, <2>8
<1>12. 1 \in DOMAIN s /\ 2 \in DOMAIN s /\ 3 \in DOMAIN s /\ 4 \in DOMAIN s /\ 5 \in DOMAIN s /\ 6 \in DOMAIN s
  BY <1>10
<1> QED BY ONLY <1>1, <1>2, <1>4, <1>5, <1>6, <1>7, <1>8, <1>9, <1>10, <1>11, <1>12

LEMMA StripeOutIs ==
  ASSUME NEW tool
  PROVE  /\ Sequence(StripeOut(tool))
         /\ \A x \in ToSet(StripeOut(tool)) : x.tool = tool /\ x.decision # "ALLOW"
         /\ Missing(tool, "BLOCK", "destination") \in ToSet(StripeOut(tool))
         /\ Blank(tool, "BLOCK", "destination") \in ToSet(StripeOut(tool))
         /\ Missing(tool, "STEP_UP", "amount") \in ToSet(StripeOut(tool))
         /\ Empty(tool, "STEP_UP", "amount") \in ToSet(StripeOut(tool))
         /\ Guard(tool, "STEP_UP", "amount", "not_match", Pattern("integer")) \in ToSet(StripeOut(tool))
         /\ Unlisted(tool, "destination", Allowlist) \in ToSet(StripeOut(tool))
         /\ OverDigits(tool, "STEP_UP", "amount", 50000) \in ToSet(StripeOut(tool))
<1> DEFINE s == <<Missing(tool, "BLOCK", "destination"),
                   Blank(tool, "BLOCK", "destination"),
                   Missing(tool, "STEP_UP", "amount"),
                   Empty(tool, "STEP_UP", "amount"),
                   Guard(tool, "STEP_UP", "amount", "not_match", Pattern("integer")),
                   Unlisted(tool, "destination", Allowlist),
                   OverDigits(tool, "STEP_UP", "amount", 50000)>>
<1>1. Sequence(s)
  BY ONLY List7
<1>2. StripeOut(tool) = s
  BY DEF StripeOut
<1>3. Len(s) = 7
  OBVIOUS
<1>4. s[1] = Missing(tool, "BLOCK", "destination")
  OBVIOUS
<1>5. s[2] = Blank(tool, "BLOCK", "destination")
  OBVIOUS
<1>6. s[3] = Missing(tool, "STEP_UP", "amount")
  OBVIOUS
<1>7. s[4] = Empty(tool, "STEP_UP", "amount")
  OBVIOUS
<1>8. s[5] = Guard(tool, "STEP_UP", "amount", "not_match", Pattern("integer"))
  OBVIOUS
<1>9. s[6] = Unlisted(tool, "destination", Allowlist)
  OBVIOUS
<1>10. s[7] = OverDigits(tool, "STEP_UP", "amount", 50000)
  OBVIOUS
<1> HIDE DEF s
<1>11. DOMAIN s = 1 .. 7 /\ (\A i \in DOMAIN s : s[i] \in ToSet(s)) /\ \A x \in ToSet(s) : \E i \in DOMAIN s : s[i] = x
  BY <1>1, <1>3, ListingAt
<1>12. ASSUME NEW x \in ToSet(s) PROVE x.tool = tool /\ x.decision # "ALLOW"
  <2>1. PICK i \in 1 .. 7 : s[i] = x
    BY <1>11
  <2>2. i \in {1, 2, 3, 4, 5, 6, 7}
    BY <2>1
  <2>3. s[1].tool = tool /\ s[1].decision # "ALLOW"
    BY ONLY <1>4, GuardsHave
  <2>4. s[2].tool = tool /\ s[2].decision # "ALLOW"
    BY ONLY <1>5, GuardsHave
  <2>5. s[3].tool = tool /\ s[3].decision # "ALLOW"
    BY ONLY <1>6, GuardsHave
  <2>6. s[4].tool = tool /\ s[4].decision # "ALLOW"
    BY ONLY <1>7, GuardsHave
  <2>7. s[5].tool = tool /\ s[5].decision # "ALLOW"
    BY ONLY <1>8, GuardsHave
  <2>8. s[6].tool = tool /\ s[6].decision # "ALLOW"
    BY ONLY <1>9, GuardsHave
  <2>9. s[7].tool = tool /\ s[7].decision # "ALLOW"
    BY ONLY <1>10, GuardsHave
  <2> QED BY ONLY <2>1, <2>2, <2>3, <2>4, <2>5, <2>6, <2>7, <2>8, <2>9
<1>13. 1 \in DOMAIN s /\ 2 \in DOMAIN s /\ 3 \in DOMAIN s /\ 4 \in DOMAIN s /\ 5 \in DOMAIN s /\ 6 \in DOMAIN s /\ 7 \in DOMAIN s
  BY <1>11
<1> QED BY ONLY <1>1, <1>2, <1>4, <1>5, <1>6, <1>7, <1>8, <1>9, <1>10, <1>11, <1>12, <1>13

LEMMA UpiGuardsIs ==
  ASSUME NEW tool
  PROVE  /\ Sequence(UpiGuards(tool))
         /\ \A x \in ToSet(UpiGuards(tool)) : x.tool = tool /\ x.decision # "ALLOW"
         /\ Missing(tool, "STEP_UP", "vpa") \in ToSet(UpiGuards(tool))
         /\ Blank(tool, "STEP_UP", "vpa") \in ToSet(UpiGuards(tool))
         /\ Unlisted(tool, "vpa", Allowlist) \in ToSet(UpiGuards(tool))
         /\ Missing(tool, "STEP_UP", "amount") \in ToSet(UpiGuards(tool))
         /\ Blank(tool, "STEP_UP", "amount") \in ToSet(UpiGuards(tool))
         /\ Guard(tool, "STEP_UP", "amount", "not_match", Pattern("integer")) \in ToSet(UpiGuards(tool))
         /\ OverDigits(tool, "BLOCK", "amount", 1000000) \in ToSet(UpiGuards(tool))
         /\ OverDigits(tool, "STEP_UP", "amount", 100000) \in ToSet(UpiGuards(tool))
<1> DEFINE s == <<Missing(tool, "STEP_UP", "vpa"),
                   Blank(tool, "STEP_UP", "vpa"),
                   Unlisted(tool, "vpa", Allowlist),
                   Missing(tool, "STEP_UP", "amount"),
                   Blank(tool, "STEP_UP", "amount"),
                   Guard(tool, "STEP_UP", "amount", "not_match", Pattern("integer")),
                   OverDigits(tool, "BLOCK", "amount", 1000000),
                   OverDigits(tool, "STEP_UP", "amount", 100000)>>
<1>1. Sequence(s)
  BY ONLY List8
<1>2. UpiGuards(tool) = s
  BY DEF UpiGuards
<1>3. Len(s) = 8
  OBVIOUS
<1>4. s[1] = Missing(tool, "STEP_UP", "vpa")
  OBVIOUS
<1>5. s[2] = Blank(tool, "STEP_UP", "vpa")
  OBVIOUS
<1>6. s[3] = Unlisted(tool, "vpa", Allowlist)
  OBVIOUS
<1>7. s[4] = Missing(tool, "STEP_UP", "amount")
  OBVIOUS
<1>8. s[5] = Blank(tool, "STEP_UP", "amount")
  OBVIOUS
<1>9. s[6] = Guard(tool, "STEP_UP", "amount", "not_match", Pattern("integer"))
  OBVIOUS
<1>10. s[7] = OverDigits(tool, "BLOCK", "amount", 1000000)
  OBVIOUS
<1>11. s[8] = OverDigits(tool, "STEP_UP", "amount", 100000)
  OBVIOUS
<1> HIDE DEF s
<1>12. DOMAIN s = 1 .. 8 /\ (\A i \in DOMAIN s : s[i] \in ToSet(s)) /\ \A x \in ToSet(s) : \E i \in DOMAIN s : s[i] = x
  BY <1>1, <1>3, ListingAt
<1>13. ASSUME NEW x \in ToSet(s) PROVE x.tool = tool /\ x.decision # "ALLOW"
  <2>1. PICK i \in 1 .. 8 : s[i] = x
    BY <1>12
  <2>2. i \in {1, 2, 3, 4, 5, 6, 7, 8}
    BY <2>1
  <2>3. s[1].tool = tool /\ s[1].decision # "ALLOW"
    BY ONLY <1>4, GuardsHave
  <2>4. s[2].tool = tool /\ s[2].decision # "ALLOW"
    BY ONLY <1>5, GuardsHave
  <2>5. s[3].tool = tool /\ s[3].decision # "ALLOW"
    BY ONLY <1>6, GuardsHave
  <2>6. s[4].tool = tool /\ s[4].decision # "ALLOW"
    BY ONLY <1>7, GuardsHave
  <2>7. s[5].tool = tool /\ s[5].decision # "ALLOW"
    BY ONLY <1>8, GuardsHave
  <2>8. s[6].tool = tool /\ s[6].decision # "ALLOW"
    BY ONLY <1>9, GuardsHave
  <2>9. s[7].tool = tool /\ s[7].decision # "ALLOW"
    BY ONLY <1>10, GuardsHave
  <2>10. s[8].tool = tool /\ s[8].decision # "ALLOW"
    BY ONLY <1>11, GuardsHave
  <2> QED BY ONLY <2>1, <2>2, <2>3, <2>4, <2>5, <2>6, <2>7, <2>8, <2>9, <2>10
<1>14. 1 \in DOMAIN s /\ 2 \in DOMAIN s /\ 3 \in DOMAIN s /\ 4 \in DOMAIN s /\ 5 \in DOMAIN s /\ 6 \in DOMAIN s /\ 7 \in DOMAIN s /\ 8 \in DOMAIN s
  BY <1>12
<1> QED BY ONLY <1>1, <1>2, <1>4, <1>5, <1>6, <1>7, <1>8, <1>9, <1>10, <1>11, <1>12, <1>13, <1>14

LEMMA AchAmountIs ==
  /\ Sequence(AchAmount)
  /\ \A x \in ToSet(AchAmount) : x.tool = "ach_transfer" /\ x.decision # "ALLOW"
  /\ Missing("ach_transfer", "STEP_UP", "amount") \in ToSet(AchAmount)
  /\ Blank("ach_transfer", "STEP_UP", "amount") \in ToSet(AchAmount)
  /\ Guard("ach_transfer", "STEP_UP", "amount", "not_match", Pattern("positive")) \in ToSet(AchAmount)
  /\ OverDigits("ach_transfer", "BLOCK", "amount", 5000000) \in ToSet(AchAmount)
  /\ OverDigits("ach_transfer", "STEP_UP", "amount", 100000) \in ToSet(AchAmount)
<1> DEFINE s == <<Missing("ach_transfer", "STEP_UP", "amount"),
                   Blank("ach_transfer", "STEP_UP", "amount"),
                   Guard("ach_transfer", "STEP_UP", "amount", "not_match", Pattern("positive")),
                   OverDigits("ach_transfer", "BLOCK", "amount", 5000000),
                   OverDigits("ach_transfer", "STEP_UP", "amount", 100000)>>
<1>1. Sequence(s)
  BY ONLY List5
<1>2. AchAmount = s
  BY DEF AchAmount
<1>3. Len(s) = 5
  OBVIOUS
<1>4. s[1] = Missing("ach_transfer", "STEP_UP", "amount")
  OBVIOUS
<1>5. s[2] = Blank("ach_transfer", "STEP_UP", "amount")
  OBVIOUS
<1>6. s[3] = Guard("ach_transfer", "STEP_UP", "amount", "not_match", Pattern("positive"))
  OBVIOUS
<1>7. s[4] = OverDigits("ach_transfer", "BLOCK", "amount", 5000000)
  OBVIOUS
<1>8. s[5] = OverDigits("ach_transfer", "STEP_UP", "amount", 100000)
  OBVIOUS
<1> HIDE DEF s
<1>9. DOMAIN s = 1 .. 5 /\ (\A i \in DOMAIN s : s[i] \in ToSet(s)) /\ \A x \in ToSet(s) : \E i \in DOMAIN s : s[i] = x
  BY <1>1, <1>3, ListingAt
<1>10. ASSUME NEW x \in ToSet(s) PROVE x.tool = "ach_transfer" /\ x.decision # "ALLOW"
  <2>1. PICK i \in 1 .. 5 : s[i] = x
    BY <1>9
  <2>2. i \in {1, 2, 3, 4, 5}
    BY <2>1
  <2>3. s[1].tool = "ach_transfer" /\ s[1].decision # "ALLOW"
    BY ONLY <1>4, GuardsHave
  <2>4. s[2].tool = "ach_transfer" /\ s[2].decision # "ALLOW"
    BY ONLY <1>5, GuardsHave
  <2>5. s[3].tool = "ach_transfer" /\ s[3].decision # "ALLOW"
    BY ONLY <1>6, GuardsHave
  <2>6. s[4].tool = "ach_transfer" /\ s[4].decision # "ALLOW"
    BY ONLY <1>7, GuardsHave
  <2>7. s[5].tool = "ach_transfer" /\ s[5].decision # "ALLOW"
    BY ONLY <1>8, GuardsHave
  <2> QED BY ONLY <2>1, <2>2, <2>3, <2>4, <2>5, <2>6, <2>7
<1>11. 1 \in DOMAIN s /\ 2 \in DOMAIN s /\ 3 \in DOMAIN s /\ 4 \in DOMAIN s /\ 5 \in DOMAIN s
  BY <1>9
<1> QED BY ONLY <1>1, <1>2, <1>4, <1>5, <1>6, <1>7, <1>8, <1>9, <1>10, <1>11

LEMMA OpenclawTransferIs ==
  /\ Sequence(OpenclawTransfer)
  /\ \A x \in ToSet(OpenclawTransfer) : x.tool = "openclaw.agent.transfer" /\ x.decision # "ALLOW"
  /\ Missing("openclaw.agent.transfer", "BLOCK", "recipient") \in ToSet(OpenclawTransfer)
  /\ Empty("openclaw.agent.transfer", "BLOCK", "recipient") \in ToSet(OpenclawTransfer)
  /\ Missing("openclaw.agent.transfer", "STEP_UP", "amount_wei") \in ToSet(OpenclawTransfer)
  /\ Guard("openclaw.agent.transfer", "STEP_UP", "amount_wei", "not_match", Pattern("integer")) \in ToSet(OpenclawTransfer)
  /\ Unlisted("openclaw.agent.transfer", "recipient", Allowlist) \in ToSet(OpenclawTransfer)
  /\ OverDigits("openclaw.agent.transfer", "BLOCK", "amount_wei", 50000) \in ToSet(OpenclawTransfer)
  /\ OverDigits("openclaw.agent.transfer", "STEP_UP", "amount_wei", 1000) \in ToSet(OpenclawTransfer)
<1> DEFINE s == <<Missing("openclaw.agent.transfer", "BLOCK", "recipient"),
                   Empty("openclaw.agent.transfer", "BLOCK", "recipient"),
                   Missing("openclaw.agent.transfer", "STEP_UP", "amount_wei"),
                   Guard("openclaw.agent.transfer", "STEP_UP", "amount_wei", "not_match", Pattern("integer")),
                   Unlisted("openclaw.agent.transfer", "recipient", Allowlist),
                   OverDigits("openclaw.agent.transfer", "BLOCK", "amount_wei", 50000),
                   OverDigits("openclaw.agent.transfer", "STEP_UP", "amount_wei", 1000)>>
<1>1. Sequence(s)
  BY ONLY List7
<1>2. OpenclawTransfer = s
  BY DEF OpenclawTransfer
<1>3. Len(s) = 7
  OBVIOUS
<1>4. s[1] = Missing("openclaw.agent.transfer", "BLOCK", "recipient")
  OBVIOUS
<1>5. s[2] = Empty("openclaw.agent.transfer", "BLOCK", "recipient")
  OBVIOUS
<1>6. s[3] = Missing("openclaw.agent.transfer", "STEP_UP", "amount_wei")
  OBVIOUS
<1>7. s[4] = Guard("openclaw.agent.transfer", "STEP_UP", "amount_wei", "not_match", Pattern("integer"))
  OBVIOUS
<1>8. s[5] = Unlisted("openclaw.agent.transfer", "recipient", Allowlist)
  OBVIOUS
<1>9. s[6] = OverDigits("openclaw.agent.transfer", "BLOCK", "amount_wei", 50000)
  OBVIOUS
<1>10. s[7] = OverDigits("openclaw.agent.transfer", "STEP_UP", "amount_wei", 1000)
  OBVIOUS
<1> HIDE DEF s
<1>11. DOMAIN s = 1 .. 7 /\ (\A i \in DOMAIN s : s[i] \in ToSet(s)) /\ \A x \in ToSet(s) : \E i \in DOMAIN s : s[i] = x
  BY <1>1, <1>3, ListingAt
<1>12. ASSUME NEW x \in ToSet(s) PROVE x.tool = "openclaw.agent.transfer" /\ x.decision # "ALLOW"
  <2>1. PICK i \in 1 .. 7 : s[i] = x
    BY <1>11
  <2>2. i \in {1, 2, 3, 4, 5, 6, 7}
    BY <2>1
  <2>3. s[1].tool = "openclaw.agent.transfer" /\ s[1].decision # "ALLOW"
    BY ONLY <1>4, GuardsHave
  <2>4. s[2].tool = "openclaw.agent.transfer" /\ s[2].decision # "ALLOW"
    BY ONLY <1>5, GuardsHave
  <2>5. s[3].tool = "openclaw.agent.transfer" /\ s[3].decision # "ALLOW"
    BY ONLY <1>6, GuardsHave
  <2>6. s[4].tool = "openclaw.agent.transfer" /\ s[4].decision # "ALLOW"
    BY ONLY <1>7, GuardsHave
  <2>7. s[5].tool = "openclaw.agent.transfer" /\ s[5].decision # "ALLOW"
    BY ONLY <1>8, GuardsHave
  <2>8. s[6].tool = "openclaw.agent.transfer" /\ s[6].decision # "ALLOW"
    BY ONLY <1>9, GuardsHave
  <2>9. s[7].tool = "openclaw.agent.transfer" /\ s[7].decision # "ALLOW"
    BY ONLY <1>10, GuardsHave
  <2> QED BY ONLY <2>1, <2>2, <2>3, <2>4, <2>5, <2>6, <2>7, <2>8, <2>9
<1>13. 1 \in DOMAIN s /\ 2 \in DOMAIN s /\ 3 \in DOMAIN s /\ 4 \in DOMAIN s /\ 5 \in DOMAIN s /\ 6 \in DOMAIN s /\ 7 \in DOMAIN s
  BY <1>11
<1> QED BY ONLY <1>1, <1>2, <1>4, <1>5, <1>6, <1>7, <1>8, <1>9, <1>10, <1>11, <1>12, <1>13

LEMMA OpenclawSwapIs ==
  /\ Sequence(OpenclawSwap)
  /\ \A x \in ToSet(OpenclawSwap) : x.tool = "openclaw.agent.swap" /\ x.decision # "ALLOW"
  /\ Missing("openclaw.agent.swap", "BLOCK", "slippage_bps") \in ToSet(OpenclawSwap)
  /\ Over("openclaw.agent.swap", "BLOCK", "slippage_bps", 50) \in ToSet(OpenclawSwap)
  /\ Missing("openclaw.agent.swap", "BLOCK", "output_token") \in ToSet(OpenclawSwap)
  /\ Empty("openclaw.agent.swap", "BLOCK", "output_token") \in ToSet(OpenclawSwap)
  /\ Unlisted("openclaw.agent.swap", "output_token", OneOf({"ETH", "USDC", "USDT"})) \in ToSet(OpenclawSwap)
<1> DEFINE s == <<Missing("openclaw.agent.swap", "BLOCK", "slippage_bps"),
                   Over("openclaw.agent.swap", "BLOCK", "slippage_bps", 50),
                   Missing("openclaw.agent.swap", "BLOCK", "output_token"),
                   Empty("openclaw.agent.swap", "BLOCK", "output_token"),
                   Unlisted("openclaw.agent.swap", "output_token", OneOf({"ETH", "USDC", "USDT"}))>>
<1>1. Sequence(s)
  BY ONLY List5
<1>2. OpenclawSwap = s
  BY DEF OpenclawSwap
<1>3. Len(s) = 5
  OBVIOUS
<1>4. s[1] = Missing("openclaw.agent.swap", "BLOCK", "slippage_bps")
  OBVIOUS
<1>5. s[2] = Over("openclaw.agent.swap", "BLOCK", "slippage_bps", 50)
  OBVIOUS
<1>6. s[3] = Missing("openclaw.agent.swap", "BLOCK", "output_token")
  OBVIOUS
<1>7. s[4] = Empty("openclaw.agent.swap", "BLOCK", "output_token")
  OBVIOUS
<1>8. s[5] = Unlisted("openclaw.agent.swap", "output_token", OneOf({"ETH", "USDC", "USDT"}))
  OBVIOUS
<1> HIDE DEF s
<1>9. DOMAIN s = 1 .. 5 /\ (\A i \in DOMAIN s : s[i] \in ToSet(s)) /\ \A x \in ToSet(s) : \E i \in DOMAIN s : s[i] = x
  BY <1>1, <1>3, ListingAt
<1>10. ASSUME NEW x \in ToSet(s) PROVE x.tool = "openclaw.agent.swap" /\ x.decision # "ALLOW"
  <2>1. PICK i \in 1 .. 5 : s[i] = x
    BY <1>9
  <2>2. i \in {1, 2, 3, 4, 5}
    BY <2>1
  <2>3. s[1].tool = "openclaw.agent.swap" /\ s[1].decision # "ALLOW"
    BY ONLY <1>4, GuardsHave
  <2>4. s[2].tool = "openclaw.agent.swap" /\ s[2].decision # "ALLOW"
    BY ONLY <1>5, GuardsHave
  <2>5. s[3].tool = "openclaw.agent.swap" /\ s[3].decision # "ALLOW"
    BY ONLY <1>6, GuardsHave
  <2>6. s[4].tool = "openclaw.agent.swap" /\ s[4].decision # "ALLOW"
    BY ONLY <1>7, GuardsHave
  <2>7. s[5].tool = "openclaw.agent.swap" /\ s[5].decision # "ALLOW"
    BY ONLY <1>8, GuardsHave
  <2> QED BY ONLY <2>1, <2>2, <2>3, <2>4, <2>5, <2>6, <2>7
<1>11. 1 \in DOMAIN s /\ 2 \in DOMAIN s /\ 3 \in DOMAIN s /\ 4 \in DOMAIN s /\ 5 \in DOMAIN s
  BY <1>9
<1> QED BY ONLY <1>1, <1>2, <1>4, <1>5, <1>6, <1>7, <1>8, <1>9, <1>10, <1>11

LEMMA StripeChargeIs == Sequence(StripeCharge) /\ \A x \in ToSet(StripeCharge) : x.tool \in {"stripe_charge", "stripe_create_charge"} /\ x.decision # "ALLOW"
<1> DEFINE s == <<Over("stripe_charge", "BLOCK", "amount", 100000),
                 Over("stripe_charge", "STEP_UP", "amount", 50000),
                 Unlisted("stripe_charge", "currency", OneOf({"usd", "eur", "gbp", "jpy", "cad", "aud"})),
                 Over("stripe_create_charge", "BLOCK", "amount", 100000),
                 Over("stripe_create_charge", "STEP_UP", "amount", 50000)>>
<1>1. Sequence(s)
  BY ONLY List5
<1>2. StripeCharge = s
  BY DEF StripeCharge
<1>3. Len(s) = 5
  OBVIOUS
<1>4. s[1] = Over("stripe_charge", "BLOCK", "amount", 100000)
  OBVIOUS
<1>5. s[2] = Over("stripe_charge", "STEP_UP", "amount", 50000)
  OBVIOUS
<1>6. s[3] = Unlisted("stripe_charge", "currency", OneOf({"usd", "eur", "gbp", "jpy", "cad", "aud"}))
  OBVIOUS
<1>7. s[4] = Over("stripe_create_charge", "BLOCK", "amount", 100000)
  OBVIOUS
<1>8. s[5] = Over("stripe_create_charge", "STEP_UP", "amount", 50000)
  OBVIOUS
<1> HIDE DEF s
<1>9. ASSUME NEW x \in ToSet(s) PROVE x.tool \in {"stripe_charge", "stripe_create_charge"} /\ x.decision # "ALLOW"
  <2>1. PICK i \in 1 .. 5 : s[i] = x
    BY <1>1, <1>3, ListingAt
  <2>2. i \in {1, 2, 3, 4, 5}
    BY <2>1
  <2>3. s[1].tool \in {"stripe_charge", "stripe_create_charge"} /\ s[1].decision # "ALLOW"
    BY ONLY <1>4, GuardsHave
  <2>4. s[2].tool \in {"stripe_charge", "stripe_create_charge"} /\ s[2].decision # "ALLOW"
    BY ONLY <1>5, GuardsHave
  <2>5. s[3].tool \in {"stripe_charge", "stripe_create_charge"} /\ s[3].decision # "ALLOW"
    BY ONLY <1>6, GuardsHave
  <2>6. s[4].tool \in {"stripe_charge", "stripe_create_charge"} /\ s[4].decision # "ALLOW"
    BY ONLY <1>7, GuardsHave
  <2>7. s[5].tool \in {"stripe_charge", "stripe_create_charge"} /\ s[5].decision # "ALLOW"
    BY ONLY <1>8, GuardsHave
  <2> QED BY ONLY <2>1, <2>2, <2>3, <2>4, <2>5, <2>6, <2>7
<1> QED BY ONLY <1>1, <1>2, <1>9

LEMMA StripeUpdateIs == Sequence(StripeUpdate) /\ \A x \in ToSet(StripeUpdate) : x.tool = "stripe_update_customer" /\ x.decision # "ALLOW"
<1> DEFINE s == <<Rule("stripe_update_customer", "STEP_UP", <<[field |-> <<"metadata", "env">>, op |-> "in", value |-> OneOf({"production", "prod"})]>>)>>
<1>1. Sequence(s)
  BY ONLY List1
<1>2. StripeUpdate = s
  BY DEF StripeUpdate
<1>3. Len(s) = 1
  OBVIOUS
<1>4. s[1] = Rule("stripe_update_customer", "STEP_UP", <<[field |-> <<"metadata", "env">>, op |-> "in", value |-> OneOf({"production", "prod"})]>>)
  OBVIOUS
<1> HIDE DEF s
<1>5. ASSUME NEW x \in ToSet(s) PROVE x.tool = "stripe_update_customer" /\ x.decision # "ALLOW"
  <2>1. PICK i \in 1 .. 1 : s[i] = x
    BY <1>1, <1>3, ListingAt
  <2>2. i \in {1}
    BY <2>1
  <2>3. s[1].tool = "stripe_update_customer" /\ s[1].decision # "ALLOW"
    BY ONLY <1>4, GuardsHave
  <2> QED BY ONLY <2>1, <2>2, <2>3
<1> QED BY ONLY <1>1, <1>2, <1>5

LEMMA StripeCustomerIs == Sequence(StripeCustomer) /\ \A x \in ToSet(StripeCustomer) : x.tool = "stripe_delete_customer"
<1> DEFINE s == <<Guard("stripe_delete_customer", "ALLOW", "allow_customer_delete", "eq", True),
                 Rule("stripe_delete_customer", "BLOCK", << >>)>>
<1>1. Sequence(s)
  BY ONLY List2
<1>2. StripeCustomer = s
  BY DEF StripeCustomer
<1>3. Len(s) = 2
  OBVIOUS
<1>4. s[1] = Guard("stripe_delete_customer", "ALLOW", "allow_customer_delete", "eq", True)
  OBVIOUS
<1>5. s[2] = Rule("stripe_delete_customer", "BLOCK", << >>)
  OBVIOUS
<1> HIDE DEF s
<1>6. ASSUME NEW x \in ToSet(s) PROVE x.tool = "stripe_delete_customer"
  <2>1. PICK i \in 1 .. 2 : s[i] = x
    BY <1>1, <1>3, ListingAt
  <2>2. i \in {1, 2}
    BY <2>1
  <2>3. s[1].tool = "stripe_delete_customer"
    BY ONLY <1>4, GuardsHave
  <2>4. s[2].tool = "stripe_delete_customer"
    BY ONLY <1>5, GuardsHave
  <2> QED BY ONLY <2>1, <2>2, <2>3, <2>4
<1> QED BY ONLY <1>1, <1>2, <1>6

LEMMA StripeBeneficiaryIs == Sequence(StripeBeneficiary) /\ \A x \in ToSet(StripeBeneficiary) : x.tool \in {"stripe_charge", "stripe_create_charge"} /\ x.decision # "ALLOW"
<1> DEFINE s == <<Unlisted("stripe_charge", "destination", List({})),
                 Unlisted("stripe_create_charge", "destination", List({}))>>
<1>1. Sequence(s)
  BY ONLY List2
<1>2. StripeBeneficiary = s
  BY DEF StripeBeneficiary
<1>3. Len(s) = 2
  OBVIOUS
<1>4. s[1] = Unlisted("stripe_charge", "destination", List({}))
  OBVIOUS
<1>5. s[2] = Unlisted("stripe_create_charge", "destination", List({}))
  OBVIOUS
<1> HIDE DEF s
<1>6. ASSUME NEW x \in ToSet(s) PROVE x.tool \in {"stripe_charge", "stripe_create_charge"} /\ x.decision # "ALLOW"
  <2>1. PICK i \in 1 .. 2 : s[i] = x
    BY <1>1, <1>3, ListingAt
  <2>2. i \in {1, 2}
    BY <2>1
  <2>3. s[1].tool \in {"stripe_charge", "stripe_create_charge"} /\ s[1].decision # "ALLOW"
    BY ONLY <1>4, GuardsHave
  <2>4. s[2].tool \in {"stripe_charge", "stripe_create_charge"} /\ s[2].decision # "ALLOW"
    BY ONLY <1>5, GuardsHave
  <2> QED BY ONLY <2>1, <2>2, <2>3, <2>4
<1> QED BY ONLY <1>1, <1>2, <1>6

LEMMA PciDssStripeIs == Sequence(PciDssStripe) /\ \A x \in ToSet(PciDssStripe) : x.tool \in {"stripe_charge", "stripe_create_customer"} /\ x.decision # "ALLOW"
<1> DEFINE s == <<Guard("stripe_charge", "STEP_UP", "capture_method", "eq", Text("manual")),
                 Rule("stripe_charge", "STEP_UP", <<[field |-> <<"metadata", "cardholder_env">>, op |-> "eq", value |-> Text("production")]>>),
                 Missing("stripe_create_customer", "BLOCK", "email")>>
<1>1. Sequence(s)
  BY ONLY List3
<1>2. PciDssStripe = s
  BY DEF PciDssStripe
<1>3. Len(s) = 3
  OBVIOUS
<1>4. s[1] = Guard("stripe_charge", "STEP_UP", "capture_method", "eq", Text("manual"))
  OBVIOUS
<1>5. s[2] = Rule("stripe_charge", "STEP_UP", <<[field |-> <<"metadata", "cardholder_env">>, op |-> "eq", value |-> Text("production")]>>)
  OBVIOUS
<1>6. s[3] = Missing("stripe_create_customer", "BLOCK", "email")
  OBVIOUS
<1> HIDE DEF s
<1>7. ASSUME NEW x \in ToSet(s) PROVE x.tool \in {"stripe_charge", "stripe_create_customer"} /\ x.decision # "ALLOW"
  <2>1. PICK i \in 1 .. 3 : s[i] = x
    BY <1>1, <1>3, ListingAt
  <2>2. i \in {1, 2, 3}
    BY <2>1
  <2>3. s[1].tool \in {"stripe_charge", "stripe_create_customer"} /\ s[1].decision # "ALLOW"
    BY ONLY <1>4, GuardsHave
  <2>4. s[2].tool \in {"stripe_charge", "stripe_create_customer"} /\ s[2].decision # "ALLOW"
    BY ONLY <1>5, GuardsHave
  <2>5. s[3].tool \in {"stripe_charge", "stripe_create_customer"} /\ s[3].decision # "ALLOW"
    BY ONLY <1>6, GuardsHave
  <2> QED BY ONLY <2>1, <2>2, <2>3, <2>4, <2>5
<1> QED BY ONLY <1>1, <1>2, <1>7

LEMMA AchCodeIs == Sequence(AchCode) /\ \A x \in ToSet(AchCode) : x.tool = "ach_transfer"
<1> DEFINE s == <<Missing("ach_transfer", "BLOCK", "sec_code"),
                 Blank("ach_transfer", "BLOCK", "sec_code"),
                 Unlisted("ach_transfer", "sec_code", OneOf({"CCD"})),
                 Rule("ach_transfer", "ALLOW", <<Condition("direction", "eq", Text("credit")), Condition("auto_approve_credits", "eq", True)>>),
                 Rule("ach_transfer", "STEP_UP", <<Condition("direction", "eq", Text("credit"))>>)>>
<1>1. Sequence(s)
  BY ONLY List5
<1>2. AchCode = s
  BY DEF AchCode
<1>3. Len(s) = 5
  OBVIOUS
<1>4. s[1] = Missing("ach_transfer", "BLOCK", "sec_code")
  OBVIOUS
<1>5. s[2] = Blank("ach_transfer", "BLOCK", "sec_code")
  OBVIOUS
<1>6. s[3] = Unlisted("ach_transfer", "sec_code", OneOf({"CCD"}))
  OBVIOUS
<1>7. s[4] = Rule("ach_transfer", "ALLOW", <<Condition("direction", "eq", Text("credit")), Condition("auto_approve_credits", "eq", True)>>)
  OBVIOUS
<1>8. s[5] = Rule("ach_transfer", "STEP_UP", <<Condition("direction", "eq", Text("credit"))>>)
  OBVIOUS
<1> HIDE DEF s
<1>9. ASSUME NEW x \in ToSet(s) PROVE x.tool = "ach_transfer"
  <2>1. PICK i \in 1 .. 5 : s[i] = x
    BY <1>1, <1>3, ListingAt
  <2>2. i \in {1, 2, 3, 4, 5}
    BY <2>1
  <2>3. s[1].tool = "ach_transfer"
    BY ONLY <1>4, GuardsHave
  <2>4. s[2].tool = "ach_transfer"
    BY ONLY <1>5, GuardsHave
  <2>5. s[3].tool = "ach_transfer"
    BY ONLY <1>6, GuardsHave
  <2>6. s[4].tool = "ach_transfer"
    BY ONLY <1>7, GuardsHave
  <2>7. s[5].tool = "ach_transfer"
    BY ONLY <1>8, GuardsHave
  <2> QED BY ONLY <2>1, <2>2, <2>3, <2>4, <2>5, <2>6, <2>7
<1> QED BY ONLY <1>1, <1>2, <1>9

LEMMA AchAccountAllowlistIs == Sequence(AchAccountAllowlist) /\ \A x \in ToSet(AchAccountAllowlist) : x.tool = "ach_transfer" /\ x.decision # "ALLOW"
<1> DEFINE s == <<Unlisted("ach_transfer", "account_id", Allowlist)>>
<1>1. Sequence(s)
  BY ONLY List1
<1>2. AchAccountAllowlist = s
  BY DEF AchAccountAllowlist
<1>3. Len(s) = 1
  OBVIOUS
<1>4. s[1] = Unlisted("ach_transfer", "account_id", Allowlist)
  OBVIOUS
<1> HIDE DEF s
<1>5. ASSUME NEW x \in ToSet(s) PROVE x.tool = "ach_transfer" /\ x.decision # "ALLOW"
  <2>1. PICK i \in 1 .. 1 : s[i] = x
    BY <1>1, <1>3, ListingAt
  <2>2. i \in {1}
    BY <2>1
  <2>3. s[1].tool = "ach_transfer" /\ s[1].decision # "ALLOW"
    BY ONLY <1>4, GuardsHave
  <2> QED BY ONLY <2>1, <2>2, <2>3
<1> QED BY ONLY <1>1, <1>2, <1>5

LEMMA UpiVpaAllowlistIs == Sequence(UpiVpaAllowlist) /\ \A x \in ToSet(UpiVpaAllowlist) : x.tool \in {"upi_payment", "upi_transfer"} /\ x.decision # "ALLOW"
<1> DEFINE s == <<Unlisted("upi_payment", "vpa", Allowlist),
                 Unlisted("upi_transfer", "vpa", Allowlist)>>
<1>1. Sequence(s)
  BY ONLY List2
<1>2. UpiVpaAllowlist = s
  BY DEF UpiVpaAllowlist
<1>3. Len(s) = 2
  OBVIOUS
<1>4. s[1] = Unlisted("upi_payment", "vpa", Allowlist)
  OBVIOUS
<1>5. s[2] = Unlisted("upi_transfer", "vpa", Allowlist)
  OBVIOUS
<1> HIDE DEF s
<1>6. ASSUME NEW x \in ToSet(s) PROVE x.tool \in {"upi_payment", "upi_transfer"} /\ x.decision # "ALLOW"
  <2>1. PICK i \in 1 .. 2 : s[i] = x
    BY <1>1, <1>3, ListingAt
  <2>2. i \in {1, 2}
    BY <2>1
  <2>3. s[1].tool \in {"upi_payment", "upi_transfer"} /\ s[1].decision # "ALLOW"
    BY ONLY <1>4, GuardsHave
  <2>4. s[2].tool \in {"upi_payment", "upi_transfer"} /\ s[2].decision # "ALLOW"
    BY ONLY <1>5, GuardsHave
  <2> QED BY ONLY <2>1, <2>2, <2>3, <2>4
<1> QED BY ONLY <1>1, <1>2, <1>6

LEMMA OpenclawEscrowIs == Sequence(OpenclawEscrow) /\ \A x \in ToSet(OpenclawEscrow) : x.tool \in {"openclaw.agent.checkout.escrow.release", "openclaw.agent.checkout.escrow.refund"}
<1> DEFINE s == <<Guard("openclaw.agent.checkout.escrow.release", "ALLOW", "auto_approve_escrow_release", "eq", True),
                 Rule("openclaw.agent.checkout.escrow.release", "STEP_UP", << >>),
                 Rule("openclaw.agent.checkout.escrow.refund", "ALLOW", << >>)>>
<1>1. Sequence(s)
  BY ONLY List3
<1>2. OpenclawEscrow = s
  BY DEF OpenclawEscrow
<1>3. Len(s) = 3
  OBVIOUS
<1>4. s[1] = Guard("openclaw.agent.checkout.escrow.release", "ALLOW", "auto_approve_escrow_release", "eq", True)
  OBVIOUS
<1>5. s[2] = Rule("openclaw.agent.checkout.escrow.release", "STEP_UP", << >>)
  OBVIOUS
<1>6. s[3] = Rule("openclaw.agent.checkout.escrow.refund", "ALLOW", << >>)
  OBVIOUS
<1> HIDE DEF s
<1>7. ASSUME NEW x \in ToSet(s) PROVE x.tool \in {"openclaw.agent.checkout.escrow.release", "openclaw.agent.checkout.escrow.refund"}
  <2>1. PICK i \in 1 .. 3 : s[i] = x
    BY <1>1, <1>3, ListingAt
  <2>2. i \in {1, 2, 3}
    BY <2>1
  <2>3. s[1].tool \in {"openclaw.agent.checkout.escrow.release", "openclaw.agent.checkout.escrow.refund"}
    BY ONLY <1>4, GuardsHave
  <2>4. s[2].tool \in {"openclaw.agent.checkout.escrow.release", "openclaw.agent.checkout.escrow.refund"}
    BY ONLY <1>5, GuardsHave
  <2>5. s[3].tool \in {"openclaw.agent.checkout.escrow.release", "openclaw.agent.checkout.escrow.refund"}
    BY ONLY <1>6, GuardsHave
  <2> QED BY ONLY <2>1, <2>2, <2>3, <2>4, <2>5
<1> QED BY ONLY <1>1, <1>2, <1>7

LEMMA AchPartiesAre ==
  /\ Sequence(AchParties)
  /\ \A x \in ToSet(AchParties) : x.tool = "ach_transfer" /\ x.decision # "ALLOW"
  /\ \A field \in {"routing_number", "account_id"} :
       /\ Missing("ach_transfer", "BLOCK", field) \in ToSet(AchParties)
       /\ Blank("ach_transfer", "BLOCK", field) \in ToSet(AchParties)
       /\ Unlisted("ach_transfer", field, Allowlist) \in ToSet(AchParties)
<1> DEFINE guards(field) ==
      <<Missing("ach_transfer", "BLOCK", field), Blank("ach_transfer", "BLOCK", field),
        Unlisted("ach_transfer", field, Allowlist)>>
<1>1. ASSUME NEW field
      PROVE  /\ Sequence(guards(field))
             /\ \A x \in ToSet(guards(field)) : x.tool = "ach_transfer" /\ x.decision # "ALLOW"
             /\ Missing("ach_transfer", "BLOCK", field) \in ToSet(guards(field))
             /\ Blank("ach_transfer", "BLOCK", field) \in ToSet(guards(field))
             /\ Unlisted("ach_transfer", field, Allowlist) \in ToSet(guards(field))
  <2> DEFINE s == guards(field)
  <2>1. Sequence(s)
    BY ONLY List3
  <2>2. Len(s) = 3 /\ s[1] = Missing("ach_transfer", "BLOCK", field) /\ s[2] = Blank("ach_transfer", "BLOCK", field)
        /\ s[3] = Unlisted("ach_transfer", field, Allowlist)
    OBVIOUS
  <2>3. guards(field) = s
    OBVIOUS
  <2> HIDE DEF s
  <2>4. 1 \in DOMAIN s /\ 2 \in DOMAIN s /\ 3 \in DOMAIN s /\ \A i \in DOMAIN s : s[i] \in ToSet(s)
    BY <2>1, <2>2, ListingAt
  <2>5. ASSUME NEW x \in ToSet(s) PROVE x.tool = "ach_transfer" /\ x.decision # "ALLOW"
    <3>1. PICK i \in 1 .. 3 : s[i] = x
      BY <2>1, <2>2, ListingAt
    <3>2. i \in {1, 2, 3}
      BY <3>1
    <3>3. s[1].tool = "ach_transfer" /\ s[1].decision # "ALLOW"
      BY ONLY <2>2, GuardsHave
    <3>4. s[2].tool = "ach_transfer" /\ s[2].decision # "ALLOW"
      BY ONLY <2>2, GuardsHave
    <3>5. s[3].tool = "ach_transfer" /\ s[3].decision # "ALLOW"
      BY ONLY <2>2, GuardsHave
    <3> QED BY ONLY <3>1, <3>2, <3>3, <3>4, <3>5
  <2> QED BY ONLY <2>1, <2>2, <2>3, <2>4, <2>5
<1>2. AchParties = guards("routing_number") \o guards("account_id")
  BY DEF AchParties
<1> HIDE DEF guards
<1>3. Sequence(AchParties) /\ ToSet(AchParties) = ToSet(guards("routing_number")) \cup ToSet(guards("account_id"))
  BY ONLY <1>1, <1>2, Joined
<1> QED BY ONLY <1>1, <1>3

\* The packs that allow a call of a tool outright.
Allows ==
  {<<"stripe", "stripe_delete_customer">>, <<"ach", "ach_transfer">>,
   <<"openclaw", "openclaw.agent.checkout.escrow.release">>, <<"openclaw", "openclaw.agent.checkout.escrow.refund">>}

LEMMA PacksAre ==
  ASSUME NEW id \in DOMAIN SCHEMA_PACKS
  PROVE  /\ Sequence(SCHEMA_PACKS[id])
         /\ \A x \in ToSet(SCHEMA_PACKS[id]) : x.tool # "*" /\ (x.decision = "ALLOW" => <<id, x.tool>> \in Allows)
<1> DEFINE Fits(name, s) ==
      Sequence(s) /\ \A x \in ToSet(s) : x.tool # "*" /\ (x.decision = "ALLOW" => <<name, x.tool>> \in Allows)
<1>1. ASSUME NEW name, NEW s, NEW t, Fits(name, s), Fits(name, t) PROVE Fits(name, s \o t)
  <2>1. Sequence(s \o t) /\ ToSet(s \o t) = ToSet(s) \cup ToSet(t)
    BY ONLY <1>1, Joined
  <2> QED BY ONLY <1>1, <2>1
<1>2. Fits("stripe", StripeCharge) /\ Fits("stripe", StripeRefund) /\ Fits("stripe", StripeUpdate)
  BY StripeChargeIs, StripeRefundIs, StripeUpdateIs
<1>3. Fits("stripe", StripeTransfer)
  <2>1. StripeTransfer = StripeOut("stripe_transfer")
    BY DEF StripeTransfer
  <2> QED BY ONLY <2>1, StripeOutIs
<1>4. Fits("stripe", StripePayout)
  <2>1. StripePayout = StripeOut("stripe_payout")
    BY DEF StripePayout
  <2> QED BY ONLY <2>1, StripeOutIs
<1>5. Fits("stripe", StripeCustomer)
  BY StripeCustomerIs DEF Allows
<1>6. Fits("beneficiary", StripeBeneficiary) /\ Fits("pci", PciDssStripe) /\ Fits("ach_allowlist", AchAccountAllowlist)
      /\ Fits("upi_allowlist", UpiVpaAllowlist)
  BY StripeBeneficiaryIs, PciDssStripeIs, AchAccountAllowlistIs, UpiVpaAllowlistIs
<1>7. Fits("ach", AchParties) /\ Fits("ach", AchAmount)
  BY AchPartiesAre, AchAmountIs
<1>8. Fits("ach", AchCode)
  BY AchCodeIs DEF Allows
<1>9. Fits("upi", UpiPayment)
  <2>1. UpiPayment = UpiGuards("upi_payment")
    BY DEF UpiPayment
  <2> QED BY ONLY <2>1, UpiGuardsIs
<1>10. Fits("upi", UpiTransfer)
  <2>1. UpiTransfer = UpiGuards("upi_transfer")
    BY DEF UpiTransfer
  <2> QED BY ONLY <2>1, UpiGuardsIs
<1>11. Fits("openclaw", OpenclawTransfer) /\ Fits("openclaw", OpenclawSwap)
  BY OpenclawTransferIs, OpenclawSwapIs
<1>12. Fits("openclaw", OpenclawEscrow)
  BY OpenclawEscrowIs DEF Allows
<1> HIDE DEF Fits
<1>13. Fits("stripe", StripeEnforce)
  <2>1. Fits("stripe", StripeCharge \o StripeRefund)
    BY ONLY <1>1, <1>2
  <2>2. Fits("stripe", StripeCharge \o StripeRefund \o StripeUpdate)
    BY ONLY <1>1, <1>2, <2>1
  <2>3. Fits("stripe", StripeCharge \o StripeRefund \o StripeUpdate \o StripeTransfer)
    BY ONLY <1>1, <1>3, <2>2
  <2>4. Fits("stripe", StripeCharge \o StripeRefund \o StripeUpdate \o StripeTransfer \o StripePayout)
    BY ONLY <1>1, <1>4, <2>3
  <2>5. Fits("stripe", StripeCharge \o StripeRefund \o StripeUpdate \o StripeTransfer \o StripePayout \o StripeCustomer)
    BY ONLY <1>1, <1>5, <2>4
  <2> QED BY ONLY <2>5 DEF StripeEnforce
<1>14. Fits("ach", AchEnforce)
  <2>1. Fits("ach", AchParties \o AchAmount)
    BY ONLY <1>1, <1>7
  <2>2. Fits("ach", AchParties \o AchAmount \o AchCode)
    BY ONLY <1>1, <1>8, <2>1
  <2> QED BY ONLY <2>2 DEF AchEnforce
<1>15. Fits("upi", UpiPayment \o UpiTransfer)
  BY ONLY <1>1, <1>9, <1>10
<1>16. Fits("openclaw", OpenclawTransfer \o OpenclawSwap \o OpenclawEscrow)
  <2>1. Fits("openclaw", OpenclawTransfer \o OpenclawSwap)
    BY ONLY <1>1, <1>11
  <2> QED BY ONLY <1>1, <1>12, <2>1
<1>17. \A name \in DOMAIN SCHEMA_PACKS : Fits(name, SCHEMA_PACKS[name])
  <2>1. DOMAIN SCHEMA_PACKS = {"stripe", "beneficiary", "pci", "ach", "ach_allowlist", "upi", "upi_allowlist", "openclaw"}
    BY DEF SCHEMA_PACKS
  <2>2. /\ SCHEMA_PACKS["stripe"] = StripeEnforce /\ SCHEMA_PACKS["beneficiary"] = StripeBeneficiary
        /\ SCHEMA_PACKS["pci"] = PciDssStripe /\ SCHEMA_PACKS["ach"] = AchEnforce
        /\ SCHEMA_PACKS["ach_allowlist"] = AchAccountAllowlist /\ SCHEMA_PACKS["upi"] = UpiPayment \o UpiTransfer
        /\ SCHEMA_PACKS["upi_allowlist"] = UpiVpaAllowlist
        /\ SCHEMA_PACKS["openclaw"] = OpenclawTransfer \o OpenclawSwap \o OpenclawEscrow
    BY DEF SCHEMA_PACKS
  <2> QED BY ONLY <1>6, <1>13, <1>14, <1>15, <1>16, <2>1, <2>2
<1> QED BY <1>17 DEF Fits

LEMMA SequenceIn ==
  ASSUME NEW s, Sequence(s), NEW S, ToSet(s) \subseteq S
  PROVE  s \in Seq(S)
<1>1. s \in Seq(ToSet(s))
  BY DEF Sequence
<1>2. Len(s) \in Nat /\ s \in [1 .. Len(s) -> S]
  BY <1>1, LenProperties, ListingAt
<1> QED BY ONLY <1>2, SeqDef

LEMMA PackIdsAre ==
  ASSUME NEW schemas, Sequence(schemas)
  PROVE  Sequence(PackIds(schemas)) /\ ToSet(PackIds(schemas)) = ToSet(schemas)
<1> DEFINE P == {i \in DOMAIN schemas : schemas[i] \notin {schemas[j] : j \in 1 .. (i - 1)}}
           ids == PackIds(schemas)
<1>1. schemas \in Seq(ToSet(schemas)) /\ DOMAIN schemas = 1 .. Len(schemas) /\ Len(schemas) \in Nat
  BY ListingAt DEF Sequence
<1>2. P \in SUBSET (1 .. Len(schemas)) /\ ids = Those(schemas, P)
  BY <1>1 DEF PackIds
<1> HIDE DEF P, ids
<1>3. ids \in Seq(ToSet(schemas)) /\ \E at : Picks(at, ids, schemas, P)
  BY <1>1, <1>2, ThoseAre
<1>4. Sequence(ids) /\ ToSet(ids) \subseteq ToSet(schemas) /\ ToSet(ids) = {ids[i] : i \in 1 .. Len(ids)}
  BY <1>3, Listing
<1>5. ASSUME NEW x \in ToSet(schemas) PROVE x \in ToSet(ids)
  <2> DEFINE Q == {i \in 1 .. Len(schemas) : schemas[i] = x}
  <2>1. Q \in SUBSET Nat /\ Q # {}
    BY <1>1, ListingAt
  <2>2. PICK p \in Q : \A i \in Q : p <= i
    <3> HIDE DEF Q
    <3> QED BY <2>1, LeastNumber
  <2>3. p \in P
    <3> SUFFICES ASSUME NEW j \in 1 .. (p - 1), schemas[j] = schemas[p] PROVE FALSE
      BY <1>1 DEF P
    <3>1. j \in Q /\ j < p
      BY <1>1
    <3> QED BY <2>2, <3>1
  <2>4. PICK at : Picks(at, ids, schemas, P)
    BY <1>3
  <2>5. PICK i \in 1 .. Len(ids) : at[i] = p
    BY <2>3, <2>4 DEF Picks
  <2>6. ids[i] = schemas[p]
    BY <2>4, <2>5 DEF Picks
  <2> QED BY <1>4, <2>2, <2>6
<1> QED BY <1>4, <1>5 DEF ids

\* The rules of the first packs, as they are put together.
Gathers(g, schemas) ==
  /\ g[0] = << >> /\ PackRules(schemas) = g[Len(PackIds(schemas))]
  /\ \A n \in 1 .. Len(PackIds(schemas)) : g[n] = g[n-1] \o SCHEMA_PACKS[PackIds(schemas)[n]]
  /\ \A n \in 0 .. Len(PackIds(schemas)) : Sequence(g[n]) /\ \A x \in ToSet(g[n]) : x.tool # "*"

LEMMA PackRulesAre ==
  ASSUME NEW schemas, Sequence(schemas), ToSet(schemas) \subseteq DOMAIN SCHEMA_PACKS
  PROVE  \E g : Gathers(g, schemas)
<1> DEFINE ids == PackIds(schemas)
           N == Len(ids)
           S == UNION {ToSet(SCHEMA_PACKS[id]) : id \in DOMAIN SCHEMA_PACKS}
           Whole(c) == [n \in 0 .. N |-> IF n = 0 THEN << >> ELSE c[n-1] \o SCHEMA_PACKS[ids[n]]]
           all == CHOOSE c : c = Whole(c)
           f == [n \in 1 .. N |-> [x \in Seq(S) |-> x \o SCHEMA_PACKS[ids[n]]]]
<1>1. N \in Nat /\ \A n \in 1 .. N : ids[n] \in DOMAIN SCHEMA_PACKS
  BY PackIdsAre, ListingAt
<1>2. ASSUME NEW n \in 1 .. N
      PROVE  /\ SCHEMA_PACKS[ids[n]] \in Seq(S) /\ Sequence(SCHEMA_PACKS[ids[n]])
             /\ \A x \in ToSet(SCHEMA_PACKS[ids[n]]) : x.tool # "*"
  <2> PICK id : id = ids[n]
    OBVIOUS
  <2>1. id \in DOMAIN SCHEMA_PACKS
    BY <1>1
  <2>2. Sequence(SCHEMA_PACKS[id]) /\ \A x \in ToSet(SCHEMA_PACKS[id]) : x.tool # "*"
    BY <2>1, PacksAre
  <2>3. ToSet(SCHEMA_PACKS[id]) \subseteq S
    BY <2>1
  <2> HIDE DEF S
  <2>4. SCHEMA_PACKS[id] \in Seq(S)
    BY ONLY <2>2, <2>3, SequenceIn
  <2> QED BY <2>2, <2>4
<1> HIDE DEF S
<1>3. f \in [1 .. N -> [Seq(S) -> Seq(S)]]
  <2>1. ASSUME NEW n \in 1 .. N, NEW x \in Seq(S) PROVE x \o SCHEMA_PACKS[ids[n]] \in Seq(S)
    <3>1. SCHEMA_PACKS[ids[n]] \in Seq(S)
      BY <1>2
    <3> QED BY ONLY <3>1, x \in Seq(S), ConcatProperties
  <2> HIDE DEF N
  <2> QED BY <2>1
<1>4. PICK g \in [0 .. N -> Seq(S)] : g[0] = << >> /\ \A n \in 1 .. N : g[n] = f[n][g[n-1]]
  <2>1. << >> \in Seq(S)
    BY EmptySeq
  <2>2. N \in Nat
    BY <1>1
  <2> HIDE DEF f, N
  <2>3. \E g \in [0 .. N -> Seq(S)] : Goes(g, << >>, f, N)
    BY ONLY <1>3, <2>1, <2>2, Recursion
  <2> QED BY ONLY <2>3 DEF Goes
<1>5. \A n \in 1 .. N : g[n] = g[n-1] \o SCHEMA_PACKS[ids[n]]
  <2> SUFFICES ASSUME NEW n \in 1 .. N PROVE g[n] = g[n-1] \o SCHEMA_PACKS[ids[n]]
    OBVIOUS
  <2>1. g[n-1] \in Seq(S)
    BY <1>1
  <2> QED BY <1>4, <2>1
<1>6. g = Whole(g)
  <2>1. \A n \in 0 .. N : n = 0 \/ n \in 1 .. N
    BY <1>1
  <2>2. \A n \in 0 .. N : g[n] = IF n = 0 THEN << >> ELSE g[n-1] \o SCHEMA_PACKS[ids[n]]
    BY <1>4, <1>5, <2>1
  <2> QED BY <2>2
<1>7. all = Whole(all)
  <2> HIDE DEF Whole
  <2> QED BY <1>6
<1>8. PackRules(schemas) = all[N]
  BY DEF PackRules
<1> HIDE DEF all
<1>9. all[0] = << >>
  BY ONLY <1>1, <1>7
<1>10. ASSUME NEW n \in 1 .. N PROVE all[n] = all[n-1] \o SCHEMA_PACKS[ids[n]]
  <2>1. n \in 0 .. N /\ n # 0
    BY ONLY <1>1, n \in 1 .. N
  <2> QED BY ONLY <1>7, <2>1
<1> DEFINE Fine(n) == Sequence(all[n]) /\ \A x \in ToSet(all[n]) : x.tool # "*"
           T == {n \in 0 .. N : Fine(n)}
<1>11. 0 .. N \subseteq T
  <2>1. 0 \in T
    <3>1. Fine(0)
      BY ONLY <1>9, EmptyList
    <3> QED BY <1>1, <3>1
  <2>2. ASSUME NEW n \in 1 .. N, n - 1 \in T PROVE n \in T
    <3>1. Fine(n - 1) /\ n \in 0 .. N
      BY <1>1, <2>2
    <3> PICK s, t : s = all[n-1] /\ t = SCHEMA_PACKS[ids[n]]
      OBVIOUS
    <3>2. all[n] = s \o t /\ Sequence(s) /\ Sequence(t)
      BY <1>2, <1>10, <3>1
    <3>3. Sequence(s \o t) /\ ToSet(s \o t) = ToSet(s) \cup ToSet(t)
      BY ONLY <3>2, Joined
    <3>4. \A x \in ToSet(s) \cup ToSet(t) : x.tool # "*"
      BY <1>2, <3>1
    <3>5. Fine(n)
      BY ONLY <3>2, <3>3, <3>4
    <3> HIDE DEF Fine
    <3> QED BY <3>1, <3>5
  <2> HIDE DEF T
  <2> QED BY <1>1, <2>1, <2>2, CountInduction
<1>12. Gathers(all, schemas)
  <2>1. \A n \in 0 .. N : Fine(n)
    BY <1>11
  <2> QED BY <1>8, <1>9, <1>10, <2>1 DEF Gathers
<1> QED BY <1>12

-----------------------------------------------------------------------------
(* Merging the rules of the packs *)

LEMMA SomeOf ==
  ASSUME NEW seq, Sequence(seq), NEW P \in SUBSET DOMAIN seq
  PROVE  /\ Sequence(Those(seq, P)) /\ ToSet(Those(seq, P)) = {seq[p] : p \in P}
         /\ \E at : Picks(at, Those(seq, P), seq, P)
<1>1. seq \in Seq(ToSet(seq)) /\ DOMAIN seq = 1 .. Len(seq) /\ P \in SUBSET (1 .. Len(seq))
  BY ListingAt DEF Sequence
<1> DEFINE t == Those(seq, P)
<1>2. t \in Seq(ToSet(seq)) /\ \E at : Picks(at, t, seq, P)
  BY <1>1, ThoseAre
<1> HIDE DEF t
<1>3. Sequence(t) /\ ToSet(t) = {t[i] : i \in 1 .. Len(t)}
  BY <1>2, Listing
<1>4. PICK at : Picks(at, t, seq, P)
  BY <1>2
<1>5. at \in [1 .. Len(t) -> P] /\ (\A i \in 1 .. Len(t) : t[i] = seq[at[i]]) /\ \A p \in P : \E i \in 1 .. Len(t) : at[i] = p
  BY <1>4 DEF Picks
<1>6. ToSet(t) = {seq[p] : p \in P}
  BY ONLY <1>3, <1>5
<1> QED BY <1>2, <1>3, <1>6 DEF t

LEMMA AddedRules ==
  ASSUME NEW rules, NEW pack, Sequence(pack)
  PROVE  /\ \A tool : Sequence(Named(pack, tool)) /\ ToSet(Named(pack, tool)) \subseteq ToSet(pack)
         /\ \A n : Sequence(Injected(rules, pack, n)) /\ ToSet(Injected(rules, pack, n)) \subseteq ToSet(pack)
         /\ Sequence(Unclaimed(rules, pack)) /\ ToSet(Unclaimed(rules, pack)) \subseteq ToSet(pack)
<1>1. ASSUME NEW P \in SUBSET DOMAIN pack
      PROVE  Sequence(Those(pack, P)) /\ ToSet(Those(pack, P)) \subseteq ToSet(pack)
  <2>1. Sequence(Those(pack, P)) /\ ToSet(Those(pack, P)) = {pack[p] : p \in P}
    BY SomeOf
  <2>2. \A p \in P : pack[p] \in ToSet(pack)
    BY ListingAt
  <2> QED BY ONLY <2>1, <2>2
<1>2. ASSUME NEW tool PROVE Sequence(Named(pack, tool)) /\ ToSet(Named(pack, tool)) \subseteq ToSet(pack)
  <2>1. {i \in DOMAIN pack : pack[i].tool = tool} \in SUBSET DOMAIN pack
    OBVIOUS
  <2> QED BY ONLY <1>1, <2>1 DEF Named
<1>3. Sequence(Unclaimed(rules, pack)) /\ ToSet(Unclaimed(rules, pack)) \subseteq ToSet(pack)
  <2>1. {i \in DOMAIN pack : pack[i].tool \notin OperatorTools(rules)} \in SUBSET DOMAIN pack
    OBVIOUS
  <2> QED BY ONLY <1>1, <2>1 DEF Unclaimed
<1>4. ASSUME NEW n PROVE Sequence(Injected(rules, pack, n)) /\ ToSet(Injected(rules, pack, n)) \subseteq ToSet(pack)
  <2>1. Injected(rules, pack, n) = Named(pack, rules[n].tool) \/ Injected(rules, pack, n) = << >>
    BY DEF Injected
  <2>2. CASE Injected(rules, pack, n) = << >>
    BY ONLY <2>2, EmptyList
  <2> QED BY ONLY <1>2, <2>1, <2>2
<1> QED BY ONLY <1>2, <1>3, <1>4

\* The merged rules as they grow, one rule of the operator at a time.
Merging(g, rules, pack) ==
  /\ g[0] = << >> /\ MergePackRules(rules, pack) = g[Len(rules)] \o Unclaimed(rules, pack)
  /\ \A n \in 1 .. Len(rules) : g[n] = Append(g[n-1] \o Injected(rules, pack, n), rules[n])
  /\ \A n \in 0 .. Len(rules) : Sequence(g[n])

LEMMA MergeIs ==
  ASSUME NEW rules, Sequence(rules), NEW pack, Sequence(pack)
  PROVE  \E g : Merging(g, rules, pack)
<1> DEFINE N == Len(rules)
           S == ToSet(rules) \cup ToSet(pack)
           Whole(c) == [n \in 0 .. N |-> IF n = 0 THEN << >> ELSE Append(c[n-1] \o Injected(rules, pack, n), rules[n])]
           result == CHOOSE c : c = Whole(c)
           f == [n \in 1 .. N |-> [x \in Seq(S) |-> Append(x \o Injected(rules, pack, n), rules[n])]]
<1>1. N \in Nat /\ \A n \in 1 .. N : rules[n] \in S
  BY ListingAt
<1>2. ASSUME NEW n \in 1 .. N, NEW x \in Seq(S)
      PROVE  Append(x \o Injected(rules, pack, n), rules[n]) \in Seq(S)
  <2>1. Sequence(Injected(rules, pack, n)) /\ ToSet(Injected(rules, pack, n)) \subseteq S
    BY AddedRules
  <2>2. rules[n] \in S
    BY <1>1
  <2> PICK i : i = Injected(rules, pack, n)
    OBVIOUS
  <2> HIDE DEF S
  <2>3. i \in Seq(S)
    BY ONLY <2>1, i = Injected(rules, pack, n), SequenceIn
  <2>4. x \o i \in Seq(S)
    BY ONLY <2>3, x \in Seq(S), ConcatProperties
  <2>5. Append(x \o i, rules[n]) \in Seq(S)
    BY ONLY <2>2, <2>4, AppendProperties
  <2> QED BY ONLY <2>5, i = Injected(rules, pack, n)
<1> HIDE DEF S
<1>3. f \in [1 .. N -> [Seq(S) -> Seq(S)]]
  <2> HIDE DEF N
  <2> QED BY <1>2
<1>4. PICK g \in [0 .. N -> Seq(S)] : g[0] = << >> /\ \A n \in 1 .. N : g[n] = f[n][g[n-1]]
  <2>1. << >> \in Seq(S)
    BY EmptySeq
  <2>2. N \in Nat
    BY <1>1
  <2> HIDE DEF f, N
  <2>3. \E g \in [0 .. N -> Seq(S)] : Goes(g, << >>, f, N)
    BY ONLY <1>3, <2>1, <2>2, Recursion
  <2> QED BY ONLY <2>3 DEF Goes
<1>5. \A n \in 1 .. N : g[n] = Append(g[n-1] \o Injected(rules, pack, n), rules[n])
  <2> SUFFICES ASSUME NEW n \in 1 .. N PROVE g[n] = Append(g[n-1] \o Injected(rules, pack, n), rules[n])
    OBVIOUS
  <2>1. g[n-1] \in Seq(S)
    BY <1>1
  <2> QED BY <1>4, <2>1
<1>6. g = Whole(g)
  <2>1. \A n \in 0 .. N : n = 0 \/ n \in 1 .. N
    BY <1>1
  <2>2. \A n \in 0 .. N : g[n] = IF n = 0 THEN << >> ELSE Append(g[n-1] \o Injected(rules, pack, n), rules[n])
    BY <1>4, <1>5, <2>1
  <2> QED BY <2>2
<1>7. result = Whole(result)
  <2> HIDE DEF Whole
  <2> QED BY <1>6
<1>8. MergePackRules(rules, pack) = result[N] \o Unclaimed(rules, pack)
  BY DEF MergePackRules
<1> HIDE DEF result
<1>9. result[0] = << >>
  BY ONLY <1>1, <1>7
<1>10. ASSUME NEW n \in 1 .. N PROVE result[n] = Append(result[n-1] \o Injected(rules, pack, n), rules[n])
  <2>1. n \in 0 .. N /\ n # 0
    BY ONLY <1>1, n \in 1 .. N
  <2> QED BY ONLY <1>7, <2>1
<1> DEFINE T == {n \in 0 .. N : result[n] \in Seq(S)}
<1>11. 0 .. N \subseteq T
  <2>1. 0 \in T
    <3>1. result[0] \in Seq(S)
      BY <1>9, EmptySeq
    <3> QED BY <1>1, <3>1
  <2>2. ASSUME NEW n \in 1 .. N, n - 1 \in T PROVE n \in T
    <3>1. result[n-1] \in Seq(S) /\ n \in 0 .. N
      BY <1>1, <2>2
    <3>2. result[n] \in Seq(S)
      BY <1>2, <1>10, <3>1
    <3> QED BY <3>1, <3>2
  <2> HIDE DEF T
  <2> QED BY <1>1, <2>1, <2>2, CountInduction
<1>12. \A n \in 0 .. N : Sequence(result[n])
  <2> SUFFICES ASSUME NEW n \in 0 .. N PROVE Sequence(result[n])
    OBVIOUS
  <2>1. result[n] \in Seq(S)
    BY <1>11
  <2> QED BY ONLY <2>1, Listing
<1>13. Merging(result, rules, pack)
  BY <1>8, <1>9, <1>10, <1>12 DEF Merging
<1> QED BY <1>13

\* A policy that has been loaded: the fields of its file, with the rules merged.
LEMMA LoadedPolicy ==
  ASSUME NEW f \in DOMAIN Files, Usable(f)
  PROVE  LET p == Policies[f]
             F == Files[f]
         IN  /\ p = [F EXCEPT !.rules = MergePackRules(F.rules, PackRules(F.schemas))]
             /\ p.rules = MergePackRules(F.rules, PackRules(F.schemas))
             /\ p.default = F.default /\ p.step_up = F.step_up /\ p.limits = F.limits
             /\ p.network = F.network /\ p.filesystem = F.filesystem /\ p.models = F.models
             /\ Sequence(p.limits) /\ Sequence(F.rules) /\ Sequence(PackRules(F.schemas))
             /\ (\A x \in ToSet(PackRules(F.schemas)) : x.tool # "*")
             /\ Sequence(p.rules) /\ ToSet(F.schemas) \subseteq DOMAIN SCHEMA_PACKS
<1> PICK F, p : F = Files[f] /\ p = Policies[f]
  OBVIOUS
<1> DEFINE pack == PackRules(F.schemas)
           M == MergePackRules(F.rules, pack)
<1>1. PolicyFile(F)
  BY FilesAssumption
<1>2. p = LoadPolicy(F) /\ p # LoadError
  BY DEF Policies, Usable
<1>3. p = [F EXCEPT !.rules = M] /\ ToSet(F.schemas) \subseteq DOMAIN SCHEMA_PACKS
  BY ONLY <1>2 DEF LoadPolicy
<1> HIDE DEF M
<1>4. /\ p.rules = M
      /\ p.default = F.default /\ p.step_up = F.step_up /\ p.limits = F.limits
      /\ p.network = F.network /\ p.filesystem = F.filesystem /\ p.models = F.models
  <2>1. DOMAIN F = {"default", "rules", "schemas", "step_up", "limits", "network", "filesystem", "models"}
    BY <1>1 DEF PolicyFile
  <2> QED BY ONLY <1>3, <2>1
<1>5. Sequence(F.rules) /\ Sequence(F.schemas) /\ Sequence(F.limits)
  BY <1>1 DEF PolicyFile
<1>6. Sequence(pack) /\ \A x \in ToSet(pack) : x.tool # "*"
  <2>1. PICK g : Gathers(g, F.schemas)
    BY <1>3, <1>5, PackRulesAre
  <2>2. Len(PackIds(F.schemas)) \in 0 .. Len(PackIds(F.schemas))
    BY <1>5, PackIdsAre, ListingAt
  <2> QED BY <2>1, <2>2 DEF Gathers
<1> HIDE DEF pack
<1>7. Sequence(M)
  <2>1. PICK g : Merging(g, F.rules, pack)
    BY ONLY <1>5, <1>6, MergeIs
  <2>2. Len(F.rules) \in 0 .. Len(F.rules)
    BY <1>5, ListingAt
  <2> PICK s, t : s = g[Len(F.rules)] /\ t = Unclaimed(F.rules, pack)
    OBVIOUS
  <2>3. Sequence(s) /\ Sequence(t) /\ M = s \o t
    BY <1>6, <2>1, <2>2, AddedRules DEF Merging, M
  <2> QED BY ONLY <2>3, Joined
<1> QED BY <1>3, <1>4, <1>5, <1>6, <1>7 DEF M, pack

-----------------------------------------------------------------------------
(* A clean replay *)

LEMMA FirstDeciding ==
  ASSUME NEW rules, Sequence(rules), NEW tool, NEW args, Deciding(rules, tool, args) # {}
  PROVE  /\ Min(Deciding(rules, tool, args)) \in Deciding(rules, tool, args)
         /\ \A i \in Deciding(rules, tool, args) : Min(Deciding(rules, tool, args)) <= i
<1> DEFINE D == Deciding(rules, tool, args)
<1>1. D \in SUBSET Nat
  BY ListingAt DEF Deciding
<1> HIDE DEF D
<1>2. \E m \in D : \A n \in D : m <= n
  BY <1>1, LeastNumber DEF D
<1> QED BY <1>2 DEF Min, D

LEMMA Unguarded ==
  ASSUME NEW f \in DOMAIN Files, Usable(f), ArgumentGuards(f) = NoGuards, NEW args, NEW model
  PROVE  ~Guarded(Policies[f], args, model)
<1> PICK p : p = Policies[f]
  OBVIOUS
<1>1. ArgumentGuards(f) = [network |-> p.network, filesystem |-> p.filesystem, models |-> p.models]
  BY LoadedPolicy DEF ArgumentGuards
<1>2. p.network = NoGuards.network /\ p.filesystem = NoGuards.filesystem /\ p.models = NoGuards.models
  <2> PICK n, s, m : n = p.network /\ s = p.filesystem /\ m = p.models
    OBVIOUS
  <2>1. NoGuards = [network |-> n, filesystem |-> s, models |-> m]
    BY <1>1
  <2> QED BY ONLY <2>1, n = p.network /\ s = p.filesystem /\ m = p.models
<1>3. /\ NoGuards.network.require_tls = FALSE /\ NoGuards.network.blocked = {} /\ NoGuards.network.allowed = {}
      /\ NoGuards.filesystem.blocked = {} /\ NoGuards.filesystem.extensions = {} /\ NoGuards.filesystem.allowed = {}
      /\ NoGuards.models.blocked = {} /\ NoGuards.models.allowed = {}
  BY DEF NoGuards
<1>4. ~ModelBlocks(p.models, model)
  BY ONLY <1>2, <1>3 DEF ModelBlocks
<1>5. ASSUME NEW v PROVE ~NetworkBlocks(p.network, v)
  BY ONLY <1>2, <1>3 DEF NetworkBlocks
<1>6. ASSUME NEW v PROVE ~FilesystemBlocks(p.filesystem, v)
  BY ONLY <1>2, <1>3 DEF FilesystemBlocks
<1> QED BY <1>4, <1>5, <1>6 DEF Guarded

LEMMA ReplayAgrees ==
  ASSUME NEW f \in DOMAIN Files, Usable(f), ArgumentGuards(f) = NoGuards,
         NEW call, ~HasParamsRule(call.tool, Policies[f])
  PROVE  ReplayDecision(call, Policies[f]) = Decision(f, call)
<1> PICK p : p = Policies[f]
  OBVIOUS
<1>1. Sequence(p.rules)
  BY LoadedPolicy
<1>2. ASSUME NEW i \in DOMAIN p.rules, p.rules[i].tool \in {call.tool, "*"}, NEW args
      PROVE  Says(p.rules[i], args) = "match"
  BY <1>2 DEF HasParamsRule, Says
<1>3. ASSUME NEW tool \in {call.tool, "*"}, NEW args
      PROVE  Deciding(p.rules, tool, args) = {i \in DOMAIN p.rules : p.rules[i].tool = tool}
  BY ONLY <1>2, tool \in {call.tool, "*"} DEF Deciding
<1>4. ASSUME NEW tool \in {call.tool, "*"}, NEW args, Deciding(p.rules, tool, args) # {}
      PROVE  Verdict(p.rules[Min(Deciding(p.rules, tool, args))], args)
               = p.rules[Min({i \in DOMAIN p.rules : p.rules[i].tool = tool})].decision
  <2> PICK m : m = Min(Deciding(p.rules, tool, args))
    OBVIOUS
  <2>1. m \in Deciding(p.rules, tool, args)
    BY ONLY <1>1, <1>4, m = Min(Deciding(p.rules, tool, args)), FirstDeciding
  <2>2. m \in DOMAIN p.rules /\ p.rules[m].tool = tool
    BY <2>1 DEF Deciding
  <2>3. Says(p.rules[m], args) = "match"
    BY <1>2, <2>2
  <2>4. Verdict(p.rules[m], args) = p.rules[m].decision
    BY <2>3 DEF Verdict
  <2> QED BY <1>3, <2>4
<1> DEFINE Of(tool) == {i \in DOMAIN p.rules : p.rules[i].tool = tool}
           Plainly == IF StepsUp(p, call.tool) THEN "STEP_UP"
                      ELSE IF Of(call.tool) # {} THEN p.rules[Min(Of(call.tool))].decision
                      ELSE IF Of("*") # {} THEN p.rules[Min(Of("*"))].decision
                      ELSE p.default
<1>5. ASSUME NEW args, NEW model PROVE EvaluatePolicy(call.tool, p, args, model) = Plainly
  <2>1. ~Guarded(p, args, model)
    BY Unguarded
  <2>2. /\ Deciding(p.rules, call.tool, args) = Of(call.tool) /\ Deciding(p.rules, "*", args) = Of("*")
    BY <1>3
  <2>3. Of(call.tool) # {} => Verdict(p.rules[Min(Of(call.tool))], args) = p.rules[Min(Of(call.tool))].decision
    BY <1>4, <2>2
  <2>4. Of("*") # {} => Verdict(p.rules[Min(Of("*"))], args) = p.rules[Min(Of("*"))].decision
    BY <1>4, <2>2
  <2> HIDE DEF Of
  <2> QED BY ONLY <2>1, <2>2, <2>3, <2>4 DEF EvaluatePolicy
<1> HIDE DEF Plainly
<1> QED BY <1>5 DEF ReplayDecision, Decision

LEMMA CleanReplay == ReplayInv => CleanReplayMeansNoDrift
<1> SUFFICES ASSUME ReplayInv, NEW since \in Start .. clock, RunTest(since) = 0, ArgumentGuards(file) = NoGuards,
                    NEW i \in DOMAIN FilterReceiptsSince(receipts, since),
                    RunCounterfactualSimulation(FilterReceiptsSince(receipts, since), Policies[file])[i] = "ALLOW"
             PROVE  Decision(file, FilterReceiptsSince(receipts, since)[i]) = FilterReceiptsSince(receipts, since)[i].decision
  BY DEF CleanReplayMeansNoDrift
<1> PICK rs, policy : rs = FilterReceiptsSince(receipts, since) /\ policy = Policies[file]
  OBVIOUS
<1>1. file \in DOMAIN Files /\ Usable(file) /\ Drifted(rs, policy) = {}
  BY DEF RunTest, ReplayInv
<1>2. Sequence(rs)
  <2>1. Sequence(receipts)
    BY Listing DEF ReplayInv
  <2>2. {k \in DOMAIN receipts : receipts[k].at >= since} \in SUBSET DOMAIN receipts
    OBVIOUS
  <2> QED BY <2>1, <2>2, SomeOf DEF FilterReceiptsSince
<1>3. Sequence(policy.limits)
  BY <1>1, LoadedPolicy
<1>4. PICK used : Simulates(used, rs, policy)
  BY <1>2, <1>3, Simulation
<1>5. i \in 1 .. Len(rs)
  BY <1>2, ListingAt
<1>6. Answer(used[i-1], rs[i], policy) = "ALLOW"
  BY <1>4, <1>5 DEF Simulates
<1>7. ~HasParamsRule(rs[i].tool, policy)
  BY <1>6 DEF Answer
<1>8. ReplayDecision(rs[i], policy) = Decision(file, rs[i])
  BY <1>1, <1>7, ReplayAgrees
<1>9. ReplayDecision(rs[i], policy) = rs[i].decision
  BY <1>1 DEF Drifted
<1> QED BY <1>8, <1>9

\* `nonsudo test` exits with 0 only if the policy would decide every call that
\* it answers with ALLOW as it was decided, whatever its arguments were: for any
\* rules, packs, limits and annotations, and any receipts since any time.
THEOREM CleanReplayIsNoDrift == ReplaySpec => []CleanReplayMeansNoDrift
<1>1. ReplayInit => ReplayInv
  BY ReplayInvInductive
<1>2. ReplayInv /\ [ReplayNext]_replayVars => ReplayInv'
  BY ReplayInvInductive
<1>3. ReplayInv => CleanReplayMeansNoDrift
  BY CleanReplay
<1> QED BY <1>1, <1>2, <1>3, PTL DEF ReplaySpec

-----------------------------------------------------------------------------
(* The counters of the simulation *)

LEMMA CountJoined ==
  ASSUME NEW K, NEW u \in Seq(K), NEW v \in Seq(K), NEW key
  PROVE  /\ Count(u, key) \in Nat
         /\ Count(u \o v, key) \in Nat
         /\ (\A k \in 1 .. Len(v) : v[k] # key) => Count(u \o v, key) = Count(u, key)
         /\ (\E k \in 1 .. Len(v) : v[k] = key) => Count(u \o v, key) >= Count(u, key) + 1
         /\ (\E k \in 1 .. Len(v) : v[k] = key /\ \A l \in 1 .. Len(v) : v[l] = key => l = k)
              => Count(u \o v, key) = Count(u, key) + 1
<1> PICK w, m, n : w = u \o v /\ m = Len(u) /\ n = Len(v)
  OBVIOUS
<1>1. m \in Nat /\ n \in Nat /\ DOMAIN u = 1 .. m /\ DOMAIN v = 1 .. n
  BY LenProperties
<1>2. DOMAIN w = 1 .. m + n /\ \A i \in 1 .. m + n : w[i] = IF i <= m THEN u[i] ELSE v[i - m]
  <2>1. w \in Seq(K) /\ Len(w) = m + n /\ \A i \in 1 .. m + n : w[i] = IF i <= m THEN u[i] ELSE v[i - m]
    BY ConcatProperties
  <2> QED BY <2>1, LenProperties
<1> DEFINE A == {k \in 1 .. m : u[k] = key}
           W == {k \in 1 .. m + n : w[k] = key}
<1>3. Count(u, key) = Cardinality(A) /\ Count(u \o v, key) = Cardinality(W)
  BY <1>1, <1>2 DEF Count
<1>4. IsFiniteSet(A) /\ IsFiniteSet(W)
  <2>1. IsFiniteSet(1 .. m) /\ IsFiniteSet(1 .. m + n)
    BY <1>1, FS_Interval
  <2>2. A \in SUBSET (1 .. m) /\ W \in SUBSET (1 .. m + n)
    OBVIOUS
  <2> HIDE DEF A, W
  <2> QED BY <2>1, <2>2, FS_Subset
<1>5. Cardinality(A) \in Nat /\ Cardinality(W) \in Nat
  BY ONLY <1>4, FS_CardinalityType
<1>6. A = {k \in W : k <= m} /\ \A k \in W : k <= m \/ (k - m \in 1 .. n /\ v[k - m] = key)
  BY ONLY <1>1, <1>2
<1>7. ASSUME NEW k \in 1 .. n, v[k] = key
      PROVE  m + k \in W /\ m + k \notin A
  <2>1. m + k \in 1 .. m + n /\ ~ (m + k <= m) /\ (m + k) - m = k
    BY <1>1
  <2>2. w[m + k] = key
    BY ONLY <1>2, <1>7, <2>1
  <2> QED BY ONLY <1>1, <2>1, <2>2
<1>8. ASSUME \A k \in 1 .. n : v[k] # key PROVE W = A
  <2> HIDE DEF A, W
  <2> QED BY ONLY <1>6, <1>8
<1>9. ASSUME NEW k \in 1 .. n, v[k] = key PROVE Cardinality(W) >= Cardinality(A) + 1
  <2>1. m + k \in W /\ m + k \notin A
    BY <1>7, <1>9
  <2>2. A \cup {m + k} \in SUBSET W
    <3> HIDE DEF A, W
    <3> QED BY ONLY <1>6, <2>1
  <2> PICK x : x = m + k
    OBVIOUS
  <2> HIDE DEF A, W
  <2>3. Cardinality(A \cup {x}) = Cardinality(A) + 1
    BY ONLY <1>4, <2>1, x = m + k, FS_AddElement
  <2>4. Cardinality(A \cup {x}) <= Cardinality(W)
    BY ONLY <1>4, <2>2, x = m + k, FS_Subset
  <2> QED BY ONLY <1>5, <2>3, <2>4
<1>10. ASSUME NEW k \in 1 .. n, v[k] = key, \A l \in 1 .. n : v[l] = key => l = k
       PROVE  Cardinality(W) = Cardinality(A) + 1
  <2>1. m + k \in W /\ m + k \notin A
    BY <1>7, <1>10
  <2>2. \A j \in W : j <= m \/ j = m + k
    <3> SUFFICES ASSUME NEW j \in W, ~ (j <= m) PROVE j = m + k
      OBVIOUS
    <3>1. j - m = k
      BY <1>6, <1>10
    <3>2. j \in Int
      BY <1>1
    <3> QED BY ONLY <1>1, <3>1, <3>2, k \in 1 .. n
  <2> HIDE DEF A, W
  <2>3. W = A \cup {m + k}
    BY ONLY <1>6, <2>1, <2>2
  <2> PICK x : x = m + k
    OBVIOUS
  <2> QED BY ONLY <1>4, <2>1, <2>3, x = m + k, FS_AddElement
<1> HIDE DEF A, W
<1> QED BY ONLY <1>3, <1>5, <1>8, <1>9, <1>10, w = u \o v /\ m = Len(u) /\ n = Len(v)

LEMMA TallyGrows ==
  ASSUME NEW C, NEW m \in Nat, m > 0
  PROVE  /\ Cardinality(C \cap (1 .. m)) \in Nat /\ Cardinality(C \cap (1 .. (m - 1))) \in Nat
         /\ m \in C => Cardinality(C \cap (1 .. m)) = Cardinality(C \cap (1 .. (m - 1))) + 1
         /\ m \notin C => Cardinality(C \cap (1 .. m)) = Cardinality(C \cap (1 .. (m - 1)))
<1> DEFINE A == C \cap (1 .. (m - 1))
           B == C \cap (1 .. m)
<1>1. IsFiniteSet(1 .. m) /\ IsFiniteSet(1 .. (m - 1))
  BY FS_Interval
<1>2. A \in SUBSET (1 .. (m - 1)) /\ B \in SUBSET (1 .. m) /\ m \notin A
  OBVIOUS
<1>3. (m \in C => B = A \cup {m}) /\ (m \notin C => B = A)
  OBVIOUS
<1> HIDE DEF A, B
<1>4. IsFiniteSet(A) /\ IsFiniteSet(B)
  BY ONLY <1>1, <1>2, FS_Subset
<1>5. Cardinality(A) \in Nat /\ Cardinality(B) \in Nat
  BY ONLY <1>4, FS_CardinalityType
<1>6. Cardinality(A \cup {m}) = Cardinality(A) + 1
  BY ONLY <1>2, <1>4, FS_AddElement
<1> QED BY ONLY <1>3, <1>5, <1>6 DEF A, B

LEMMA WindowsAreBuckets ==
  ASSUME NEW limit, limit.window.n \in Int, NEW s \in Int, NEW t \in Int
  PROVE  /\ SameWindow(limit, s, t) => CounterKey(limit, s) = CounterKey(limit, t)
         /\ limit.window.unit = "workflow" \/ (limit.window.unit \in {"s", "m"} /\ limit.window.n > 0)
              => (CounterKey(limit, s) = CounterKey(limit, t) => SameWindow(limit, s, t))
<1> PICK n, unit, p : n = limit.window.n /\ unit = limit.window.unit /\ p = ParseWindow(limit.window)
  OBVIOUS
<1>1. p = IF n <= 0 THEN 0 ELSE IF unit = "s" THEN n ELSE IF unit = "m" THEN 60 * n ELSE 0
  BY DEF ParseWindow
<1> DEFINE Bucket(at) == IF unit = "workflow" THEN -1 ELSE IF p = 0 THEN -2 ELSE at \div p
<1>2. CounterKey(limit, s) = [tool |-> limit.tool, bucket |-> Bucket(s)]
      /\ CounterKey(limit, t) = [tool |-> limit.tool, bucket |-> Bucket(t)]
  BY DEF CounterKey
<1>3. SameWindow(limit, s, t) <=>
        \/ unit = "workflow"
        \/ unit = "s" /\ s \div n = t \div n
        \/ unit = "m" /\ s \div (60 * n) = t \div (60 * n)
  BY DEF SameWindow
<1>4. (CounterKey(limit, s) = CounterKey(limit, t)) <=> (Bucket(s) = Bucket(t))
  <2>1. [tool |-> limit.tool, bucket |-> Bucket(s)].bucket = Bucket(s)
        /\ [tool |-> limit.tool, bucket |-> Bucket(t)].bucket = Bucket(t)
    OBVIOUS
  <2> HIDE DEF Bucket
  <2> QED BY ONLY <1>2, <2>1
<1>5. SameWindow(limit, s, t) => Bucket(s) = Bucket(t)
  BY ONLY <1>1, <1>3
<1>6. ASSUME unit = "workflow" \/ (unit \in {"s", "m"} /\ n > 0), Bucket(s) = Bucket(t)
      PROVE  SameWindow(limit, s, t)
  <2>1. CASE unit = "workflow"
    BY <1>3, <2>1
  <2>2. CASE unit = "s" /\ n > 0
    <3>1. p = n /\ p # 0
      BY ONLY <1>1, <2>2, limit.window.n \in Int, n = limit.window.n
    <3> QED BY ONLY <1>3, <1>6, <2>2, <3>1
  <2>3. CASE unit = "m" /\ n > 0
    <3>1. p = 60 * n /\ p # 0
      BY ONLY <1>1, <2>3, limit.window.n \in Int, n = limit.window.n
    <3> QED BY ONLY <1>3, <1>6, <2>3, <3>1
  <2> QED BY <1>6, <2>1, <2>2, <2>3
<1> QED BY ONLY <1>4, <1>5, <1>6, n = limit.window.n, unit = limit.window.unit

\* The calls that are counted against the limit in the window of time t.
Counted(used, rs, policy, limit, t) ==
  {j \in 1 .. Len(rs) :
     /\ ~Exhausted(used[j-1], rs[j], policy)
     /\ limit \in ToSet(Applicable(policy.limits, rs[j].tool))
     /\ SameWindow(limit, rs[j].at, t)}

\* No other limit has the counter of this one, and its window can be read.
OwnCounter(rs, policy, limit, t) ==
  /\ limit.window.unit = "workflow" \/ (limit.window.unit \in {"s", "m"} /\ limit.window.n > 0)
  /\ \E a \in DOMAIN policy.limits :
       /\ policy.limits[a] = limit
       /\ \A b \in DOMAIN policy.limits, j \in 1 .. Len(rs) :
            CounterKey(policy.limits[b], rs[j].at) = CounterKey(limit, t) => b = a

LEMMA Counters ==
  ASSUME NEW rs, Sequence(rs), NEW policy, Sequence(policy.limits),
         \A l \in ToSet(policy.limits) : l.window.n \in Int,
         \A j \in 1 .. Len(rs) : rs[j].at \in Int,
         NEW used, Simulates(used, rs, policy),
         NEW limit \in ToSet(policy.limits), NEW t \in Int, NEW n \in 0 .. Len(rs)
  PROVE  LET C == Counted(used, rs, policy, limit, t) \cap (1 .. n)
             count == Count(used[n], CounterKey(limit, t))
         IN  Cardinality(C) <= count /\ (OwnCounter(rs, policy, limit, t) => count = Cardinality(C))
<1> DEFINE N == Len(rs)
           C == Counted(used, rs, policy, limit, t)
           key == CounterKey(limit, t)
           Upto(m) == Cardinality(C \cap (1 .. m))
           Own == OwnCounter(rs, policy, limit, t)
           Fine(m) == Upto(m) <= Count(used[m], key) /\ (Own => Count(used[m], key) = Upto(m))
           T == {m \in 0 .. N : Fine(m)}
<1>1. N \in Nat
  BY ListingAt
<1>2. /\ used \in [0 .. N -> Seq(Keys(rs, policy))] /\ used[0] = << >>
      /\ \A m \in 1 .. N : used[m] = IF Exhausted(used[m-1], rs[m], policy) THEN used[m-1]
                                     ELSE used[m-1] \o LimitKeys(rs[m], policy)
  BY DEF Simulates
<1>3. 0 \in T
  <2>1. Count(<< >>, key) = 0
    <3>1. {k \in DOMAIN << >> : << >>[k] = key} = {}
      OBVIOUS
    <3> HIDE DEF key
    <3> QED BY ONLY <3>1, FS_EmptySet DEF Count
  <2>2. C \cap (1 .. 0) = {}
    OBVIOUS
  <2>3. Upto(0) = 0
    BY <2>2, FS_EmptySet
  <2> HIDE DEF Upto, key, Own
  <2> QED BY <1>1, <1>2, <2>1, <2>3
<1>4. ASSUME NEW m \in 1 .. N, m - 1 \in T PROVE m \in T
  <2>1. m \in 0 .. N /\ m - 1 \in 0 .. N /\ m \in Nat /\ m > 0 /\ Fine(m - 1)
    BY <1>1, <1>4
  <2>2. /\ Upto(m) \in Nat /\ Upto(m - 1) \in Nat
        /\ (m \in C => Upto(m) = Upto(m - 1) + 1) /\ (m \notin C => Upto(m) = Upto(m - 1))
    <3> HIDE DEF C
    <3> QED BY <2>1, TallyGrows
  <2> DEFINE u == used[m-1]
             v == LimitKeys(rs[m], policy)
             app == Applicable(policy.limits, rs[m].tool)
  <2>3. /\ app \in Seq(ToSet(policy.limits)) /\ DOMAIN app = 1 .. Len(app) /\ Len(app) \in Nat
        /\ ToSet(app) = {app[k] : k \in 1 .. Len(app)}
    <3>1. app \in Seq(ToSet(policy.limits))
      BY ApplicableAre
    <3> QED BY <3>1, LenProperties, Listing
  <2>4. DOMAIN v = DOMAIN app /\ \A k \in DOMAIN app : v[k] = CounterKey(app[k], rs[m].at)
    BY DEF LimitKeys
  <2>5. u \in Seq(Keys(rs, policy)) /\ v \in Seq(Keys(rs, policy)) /\ Len(v) = Len(app)
    <3>1. u \in Seq(Keys(rs, policy))
      BY <1>2, <2>1
    <3>2. rs[m] \in ToSet(rs)
      BY ListingAt
    <3>3. \A k \in 1 .. Len(app) : app[k] \in ToSet(policy.limits)
      BY <2>3, ElementOfSeq
    <3> HIDE DEF app
    <3>4. \A k \in 1 .. Len(app) : v[k] \in Keys(rs, policy)
      BY <2>3, <2>4, <3>2, <3>3 DEF Keys
    <3>5. v \in [1 .. Len(app) -> Keys(rs, policy)]
      <4>1. v = [k \in 1 .. Len(app) |-> v[k]]
        BY <2>3, <2>4 DEF LimitKeys, app
      <4> HIDE DEF v
      <4> QED BY ONLY <3>4, <4>1
    <3> HIDE DEF v
    <3>6. v \in Seq(Keys(rs, policy))
      BY ONLY <2>3, <3>5, SeqDef
    <3>7. Len(v) = Len(app)
      BY ONLY <2>3, <2>4, <3>6, LenProperties
    <3> QED BY ONLY <3>1, <3>6, <3>7
  <2>6. Count(u, key) \in Nat
    BY ONLY <2>5, CountJoined
  <2>7. CASE Exhausted(u, rs[m], policy)
    <3>1. used[m] = u /\ m \notin C
      BY <1>2, <2>7 DEF Counted
    <3> HIDE DEF Upto, Own, key, C, T
    <3>2. Fine(m)
      BY <2>1, <2>2, <3>1
    <3> QED BY <2>1, <3>2 DEF T
  <2>8. CASE ~Exhausted(u, rs[m], policy)
    <3>1. used[m] = u \o v
      BY <1>2, <2>8
    <3>2. m \in C <=> \E k \in 1 .. Len(app) : app[k] = limit /\ SameWindow(limit, rs[m].at, t)
      BY <2>3, <2>8 DEF Counted
    <3>3. rs[m].at \in Int /\ limit.window.n \in Int
      OBVIOUS
    <3>4. m \in C => \E k \in 1 .. Len(v) : v[k] = key
      <4> SUFFICES ASSUME m \in C PROVE \E k \in 1 .. Len(v) : v[k] = key
        OBVIOUS
      <4>1. PICK k \in 1 .. Len(app) : app[k] = limit /\ SameWindow(limit, rs[m].at, t)
        BY <3>2
      <4>2. CounterKey(limit, rs[m].at) = key
        BY <3>3, <4>1, WindowsAreBuckets
      <4>3. v[k] = CounterKey(limit, rs[m].at)
        BY <2>3, <2>4, <4>1
      <4> HIDE DEF v, key
      <4> QED BY <2>5, <4>2, <4>3
    <3>5. ASSUME Own, NEW k \in 1 .. Len(v), v[k] = key
          PROVE  m \in C /\ \A l \in 1 .. Len(v) : v[l] = key => l = k
      <4>1. PICK a \in DOMAIN policy.limits :
              /\ policy.limits[a] = limit
              /\ \A b \in DOMAIN policy.limits, j \in 1 .. Len(rs) :
                   CounterKey(policy.limits[b], rs[j].at) = CounterKey(limit, t) => b = a
        BY <3>5 DEF OwnCounter
      <4>2. PICK P \in SUBSET DOMAIN policy.limits : \E at : Picks(at, app, policy.limits, P)
        BY ApplicableAre
      <4>3. PICK at : Picks(at, app, policy.limits, P)
        BY <4>2
      <4>4. /\ at \in [1 .. Len(app) -> P] /\ \A i \in 1 .. Len(app) : app[i] = policy.limits[at[i]]
            /\ \A i, j \in 1 .. Len(app) : i < j => at[i] < at[j]
        BY <4>3 DEF Picks
      <4>5. ASSUME NEW l \in 1 .. Len(v), v[l] = key PROVE at[l] = a /\ l \in 1 .. Len(app)
        <5>1. l \in 1 .. Len(app)
          BY <2>5
        <5>2. at[l] \in DOMAIN policy.limits
          BY <4>2, <4>4, <5>1
        <5>3. CounterKey(policy.limits[at[l]], rs[m].at) = key
          <6>1. v[l] = CounterKey(app[l], rs[m].at)
            BY <2>3, <2>4, <5>1
          <6> HIDE DEF v, key, app
          <6> QED BY <4>4, <4>5, <5>1, <6>1
        <5> QED BY <4>1, <5>1, <5>2, <5>3
      <4>6. at[k] = a /\ k \in 1 .. Len(app)
        BY <3>5, <4>5
      <4>7. app[k] = limit
        BY <4>1, <4>4, <4>6
      <4>8. SameWindow(limit, rs[m].at, t)
        <5>1. CounterKey(limit, rs[m].at) = CounterKey(limit, t)
          BY <2>3, <2>4, <3>5, <4>6, <4>7
        <5>2. limit.window.unit = "workflow" \/ (limit.window.unit \in {"s", "m"} /\ limit.window.n > 0)
          BY <3>5 DEF OwnCounter
        <5> QED BY <3>3, <5>1, <5>2, WindowsAreBuckets
      <4>9. ASSUME NEW l \in 1 .. Len(v), v[l] = key PROVE l = k
        <5>1. at[l] = a /\ l \in 1 .. Len(app)
          BY <4>5, <4>9
        <5>2. ~ (l < k) /\ ~ (k < l)
          <6>1. DOMAIN policy.limits = 1 .. Len(policy.limits)
            BY ListingAt
          <6>2. a \in Int
            BY <4>1, <6>1
          <6> HIDE DEF app
          <6> QED BY ONLY <4>4, <4>6, <5>1, <6>2
        <5>3. l \in Int /\ k \in Int
          BY <4>6, <5>1
        <5> QED BY ONLY <5>2, <5>3
      <4>10. m \in C
        BY <3>2, <4>6, <4>7, <4>8
      <4> QED BY <4>9, <4>10
    <3> HIDE DEF u, v, key, C, Own
    <3>6. /\ Count(u \o v, key) \in Nat
          /\ (\A k \in 1 .. Len(v) : v[k] # key) => Count(u \o v, key) = Count(u, key)
          /\ (\E k \in 1 .. Len(v) : v[k] = key) => Count(u \o v, key) >= Count(u, key) + 1
          /\ (\E k \in 1 .. Len(v) : v[k] = key /\ \A l \in 1 .. Len(v) : v[l] = key => l = k)
               => Count(u \o v, key) = Count(u, key) + 1
      BY ONLY <2>5, CountJoined
    <3>7. Upto(m - 1) <= Count(u, key) /\ (Own => Count(u, key) = Upto(m - 1))
      BY <2>1 DEF u
    <3> PICK x, y, p, q : x = Count(u, key) /\ y = Count(u \o v, key) /\ p = Upto(m - 1) /\ q = Upto(m)
      OBVIOUS
    <3>8. x \in Nat /\ y \in Nat /\ p \in Nat /\ q \in Nat /\ (m \in C => q = p + 1) /\ (m \notin C => q = p)
      BY <2>2, <2>6, <3>6
    <3>9. y = x \/ y >= x + 1
      BY <3>6, <3>8
    <3>10. q <= y
      <4>1. m \in C => y >= x + 1
        BY <3>4, <3>6
      <4>2. p <= x
        BY <3>7
      <4> QED BY ONLY <3>8, <3>9, <4>1, <4>2
    <3>11. ASSUME Own PROVE y = q
      <4>1. x = p
        BY <3>7, <3>11
      <4>2. CASE m \in C
        <5>1. y = x + 1
          BY <3>4, <3>5, <3>6, <3>11, <4>2
        <5> QED BY <3>8, <4>1, <4>2, <5>1
      <4>3. CASE m \notin C
        <5>1. \A k \in 1 .. Len(v) : v[k] # key
          BY <3>5, <3>11, <4>3
        <5> QED BY <3>6, <3>8, <4>1, <4>3, <5>1
      <4> QED BY <4>2, <4>3
    <3>12. Fine(m)
      BY <3>1, <3>10, <3>11
    <3> HIDE DEF Fine
    <3> QED BY <2>1, <3>12
  <2> QED BY <2>7, <2>8
<1> HIDE DEF T
<1>5. 0 .. N \subseteq T
  BY <1>1, <1>3, <1>4, CountInduction
<1>6. Fine(n)
  BY <1>5 DEF T
<1> QED BY <1>6

LEMMA Velocity == ReplayInv => VelocityAsDocumented
<1> PICK policy, rs : policy = Policies[file] /\ rs = receipts
  OBVIOUS
<1> DEFINE said == RunCounterfactualSimulation(rs, policy)
           App(i) == Applicable(policy.limits, rs[i].tool)
           Uses(limit, i) ==
             {j \in 1 .. (i - 1) :
                /\ said[j] # "BLOCK" /\ limit \in ToSet(App(j))
                /\ SameWindow(limit, rs[j].at, rs[i].at)}
           UsedUp(i) == \E limit \in ToSet(App(i)) : Cardinality(Uses(limit, i)) >= limit.max
<1> SUFFICES ASSUME ReplayInv, Usable(file), NEW i \in DOMAIN rs
             PROVE  /\ UsedUp(i) => said[i] = "BLOCK"
                    /\ Readable(policy.limits) => (said[i] = "BLOCK" <=> UsedUp(i))
  BY DEF VelocityAsDocumented
<1>1. file \in DOMAIN Files /\ rs \in Seq(Receivable(clock)) /\ clock \in Int
  BY DEF ReplayInv
<1>2. Sequence(rs) /\ DOMAIN rs = 1 .. Len(rs) /\ Len(rs) \in Nat
  BY <1>1, Listing, LenProperties
<1>3. \A j \in 1 .. Len(rs) : rs[j].at \in Start .. clock /\ rs[j].at \in Int
  <2> SUFFICES ASSUME NEW j \in 1 .. Len(rs) PROVE rs[j].at \in Start .. clock /\ rs[j].at \in Int
    OBVIOUS
  <2>1. rs[j] \in Receivable(clock)
    BY <1>1, ElementOfSeq
  <2>2. rs[j].at \in Start .. clock
    BY <2>1 DEF Receivable, Receipts
  <2> QED BY <1>1, <2>2, ReplayBounds
<1>4. Sequence(policy.limits) /\ \A l \in ToSet(policy.limits) : l.window.n \in Int /\ l.max \in Int
  <2>1. Sequence(policy.limits) /\ policy.limits = Files[file].limits
    BY <1>1, LoadedPolicy
  <2>2. PolicyFile(Files[file])
    BY <1>1, FilesAssumption
  <2> QED BY <2>1, <2>2 DEF PolicyFile
<1>5. PICK used : Simulates(used, rs, policy)
  BY <1>2, <1>4, Simulation
<1>6. ASSUME NEW j \in 1 .. Len(rs) PROVE said[j] = "BLOCK" <=> Exhausted(used[j-1], rs[j], policy)
  <2>1. said[j] = Answer(used[j-1], rs[j], policy)
    BY <1>5 DEF Simulates
  <2> HIDE DEF said
  <2> QED BY ONLY <2>1 DEF Answer
<1>7. i \in 1 .. Len(rs) /\ i - 1 \in 0 .. Len(rs) /\ 1 .. (i - 1) \subseteq 1 .. Len(rs)
  BY <1>2
<1>8. ASSUME NEW limit \in ToSet(policy.limits)
      PROVE  /\ Cardinality(Uses(limit, i)) <= Count(used[i-1], CounterKey(limit, rs[i].at))
             /\ OwnCounter(rs, policy, limit, rs[i].at)
                  => Count(used[i-1], CounterKey(limit, rs[i].at)) = Cardinality(Uses(limit, i))
             /\ Cardinality(Uses(limit, i)) \in Nat /\ Count(used[i-1], CounterKey(limit, rs[i].at)) \in Nat
  <2>1. Uses(limit, i) = Counted(used, rs, policy, limit, rs[i].at) \cap (1 .. (i - 1))
    <3>1. \A j \in 1 .. (i - 1) : said[j] # "BLOCK" <=> ~Exhausted(used[j-1], rs[j], policy)
      BY <1>6, <1>7
    <3> HIDE DEF said
    <3> QED BY ONLY <1>7, <3>1 DEF Counted
  <2>2. rs[i].at \in Int
    BY <1>3, <1>7
  <2> PICK t, n : t = rs[i].at /\ n = i - 1
    OBVIOUS
  <2>3. /\ Cardinality(Counted(used, rs, policy, limit, t) \cap (1 .. n)) <= Count(used[n], CounterKey(limit, t))
        /\ OwnCounter(rs, policy, limit, t)
             => Count(used[n], CounterKey(limit, t)) = Cardinality(Counted(used, rs, policy, limit, t) \cap (1 .. n))
    <3>1. t \in Int /\ n \in 0 .. Len(rs)
      BY <1>7, <2>2
    <3>2. Sequence(policy.limits) /\ \A l \in ToSet(policy.limits) : l.window.n \in Int
      BY <1>4
    <3>3. Sequence(rs) /\ \A j \in 1 .. Len(rs) : rs[j].at \in Int
      BY <1>2, <1>3
    <3>4. limit \in ToSet(policy.limits)
      OBVIOUS
    <3> QED BY ONLY <1>5, <3>1, <3>2, <3>3, <3>4, Counters
  <2>4. Count(used[n], CounterKey(limit, t)) \in Nat
    <3>1. used[n] \in Seq(Keys(rs, policy))
      BY <1>5, <1>7 DEF Simulates
    <3> QED BY ONLY <3>1, CountJoined
  <2>5. Cardinality(Uses(limit, i)) \in Nat
    <3>1. IsFiniteSet(1 .. n) /\ Uses(limit, i) \in SUBSET (1 .. n)
      BY <1>2, <1>7, FS_Interval
    <3> HIDE DEF Uses
    <3> QED BY ONLY <3>1, FS_Subset, FS_CardinalityType
  <2> HIDE DEF Uses
  <2> QED BY <2>1, <2>3, <2>4, <2>5
<1>9. /\ App(i) \in Seq(ToSet(policy.limits)) /\ DOMAIN App(i) = 1 .. Len(App(i))
      /\ ToSet(App(i)) = {App(i)[k] : k \in DOMAIN App(i)} /\ ToSet(App(i)) \subseteq ToSet(policy.limits)
  <2>1. App(i) \in Seq(ToSet(policy.limits))
    BY <1>4, ApplicableAre
  <2> HIDE DEF App
  <2> QED BY <2>1, Listing, LenProperties DEF ToSet
<1>10. Exhausted(used[i-1], rs[i], policy)
         <=> \E limit \in ToSet(App(i)) : Count(used[i-1], CounterKey(limit, rs[i].at)) >= limit.max
  BY <1>9 DEF Exhausted, LimitKeys
<1> HIDE DEF App, Uses, said
<1>11. UsedUp(i) => said[i] = "BLOCK"
  <2> SUFFICES ASSUME NEW limit \in ToSet(App(i)), Cardinality(Uses(limit, i)) >= limit.max PROVE said[i] = "BLOCK"
    BY DEF Uses
  <2>1. limit \in ToSet(policy.limits) /\ limit.max \in Int
    BY <1>4, <1>9
  <2>2. Count(used[i-1], CounterKey(limit, rs[i].at)) >= limit.max
    BY <1>8, <2>1
  <2> QED BY <1>6, <1>7, <1>10, <2>2
<1>12. ASSUME Readable(policy.limits), said[i] = "BLOCK" PROVE UsedUp(i)
  <2>1. PICK limit \in ToSet(App(i)) : Count(used[i-1], CounterKey(limit, rs[i].at)) >= limit.max
    BY <1>6, <1>7, <1>10, <1>12
  <2>2. limit \in ToSet(policy.limits)
    BY <1>9
  <2>3. PICK a \in DOMAIN policy.limits : policy.limits[a] = limit
    BY <1>4, <2>2, ListingAt
  <2>4. OwnCounter(rs, policy, limit, rs[i].at)
    <3>1. limit.window.unit = "workflow" \/ (limit.window.unit \in {"s", "m"} /\ limit.window.n > 0)
      BY <1>12, <2>3 DEF Readable
    <3>2. ASSUME NEW b \in DOMAIN policy.limits, NEW j \in 1 .. Len(rs),
                 CounterKey(policy.limits[b], rs[j].at) = CounterKey(limit, rs[i].at)
          PROVE  b = a
      <4>1. rs[j].at \in Start .. clock /\ rs[i].at \in Start .. clock
        BY <1>3, <1>7
      <4> QED BY <1>12, <2>3, <3>2, <4>1 DEF Readable
    <3> QED BY <2>3, <3>1, <3>2 DEF OwnCounter
  <2> QED BY <1>8, <2>1, <2>2, <2>4
<1> QED BY <1>11, <1>12

\* The simulation refuses a call that is over one of its limits, by the calls
\* of the same window that it did not refuse; and it refuses no other, if the
\* windows can be read and no two limits share a counter.  This for any limits,
\* and any number of receipts at any times.
THEOREM VelocityDocumented == ReplaySpec => []VelocityAsDocumented
<1>1. ReplayInit => ReplayInv
  BY ReplayInvInductive
<1>2. ReplayInv /\ [ReplayNext]_replayVars => ReplayInv'
  BY ReplayInvInductive
<1>3. ReplayInv => VelocityAsDocumented
  BY Velocity
<1> QED BY <1>1, <1>2, <1>3, PTL DEF ReplaySpec

-----------------------------------------------------------------------------
(* What a list of rules decides of a call *)

\* The verdict of the first rule of the tool that decides, if there is one.
Ruling(rules, tool, args) ==
  {Verdict(rules[i], args) : i \in {k \in Deciding(rules, tool, args) :
                                      \A j \in Deciding(rules, tool, args) : k <= j}}

Least(m, D) == m \in D /\ \A j \in D : m <= j

LEMMA RulingBy ==
  ASSUME NEW rules, Sequence(rules), NEW tool, NEW args, NEW m, Least(m, Deciding(rules, tool, args))
  PROVE  Ruling(rules, tool, args) = {Verdict(rules[m], args)}
<1> DEFINE D == Deciding(rules, tool, args)
<1>1. D \subseteq Nat
  BY ListingAt DEF Deciding
<1> HIDE DEF D
<1>2. {k \in D : \A j \in D : k <= j} = {m}
  <2>1. m \in D /\ \A j \in D : m <= j
    BY DEF D, Least
  <2>2. ASSUME NEW k \in D, \A j \in D : k <= j PROVE k = m
    <3>1. k <= m /\ m <= k /\ k \in Nat /\ m \in Nat
      BY <1>1, <2>1, <2>2
    <3> QED BY ONLY <3>1
  <2> QED BY <2>1, <2>2
<1> QED BY <1>2 DEF Ruling, D

LEMMA RulingIs ==
  ASSUME NEW rules, Sequence(rules), NEW tool, NEW args
  PROVE  /\ Deciding(rules, tool, args) = {} => Ruling(rules, tool, args) = {}
         /\ Deciding(rules, tool, args) # {} =>
              Ruling(rules, tool, args) = {Verdict(rules[Min(Deciding(rules, tool, args))], args)}
<1>1. Deciding(rules, tool, args) = {} => Ruling(rules, tool, args) = {}
  BY DEF Ruling
<1>2. ASSUME Deciding(rules, tool, args) # {}
      PROVE  Ruling(rules, tool, args) = {Verdict(rules[Min(Deciding(rules, tool, args))], args)}
  <2>1. Least(Min(Deciding(rules, tool, args)), Deciding(rules, tool, args))
    BY <1>2, FirstDeciding DEF Least
  <2> QED BY ONLY Sequence(rules), <2>1, RulingBy
<1> QED BY <1>1, <1>2

LEMMA RulingNone ==
  ASSUME NEW rules, Sequence(rules), NEW tool, NEW args, \A x \in ToSet(rules) : x.tool # tool
  PROVE  Ruling(rules, tool, args) = {}
<1>1. Deciding(rules, tool, args) = {}
  BY ListingAt DEF Deciding
<1> QED BY <1>1 DEF Ruling

LEMMA RulingOfEmpty == \A tool, args : Ruling(<< >>, tool, args) = {}
BY EmptyList, RulingNone

LEMMA RulingJoined ==
  ASSUME NEW s, Sequence(s), NEW t, Sequence(t), NEW tool, NEW args
  PROVE  Ruling(s \o t, tool, args) =
           IF Ruling(s, tool, args) # {} THEN Ruling(s, tool, args) ELSE Ruling(t, tool, args)
<1> PICK w, m, n : w = s \o t /\ m = Len(s) /\ n = Len(t)
  OBVIOUS
<1> DEFINE Fires(x) == x.tool = tool /\ Says(x, args) \in {"match", "type_error"}
           D(q) == Deciding(q, tool, args)
<1>1. m \in Nat /\ n \in Nat /\ DOMAIN s = 1 .. m /\ DOMAIN t = 1 .. n
  BY ListingAt
<1>2. /\ Sequence(w) /\ DOMAIN w = 1 .. m + n
      /\ \A i \in 1 .. m + n : w[i] = IF i <= m THEN s[i] ELSE t[i - m]
  <2>1. Sequence(w)
    BY Joined
  <2>2. s \in Seq(ToSet(s) \cup ToSet(t)) /\ t \in Seq(ToSet(s) \cup ToSet(t))
    BY SequenceIn
  <2>3. Len(w) = m + n /\ \A i \in 1 .. m + n : w[i] = IF i <= m THEN s[i] ELSE t[i - m]
    BY ONLY <2>2, w = s \o t /\ m = Len(s) /\ n = Len(t), ConcatProperties
  <2>4. DOMAIN w = 1 .. Len(w)
    BY <2>1, ListingAt
  <2> QED BY <2>1, <2>3, <2>4
<1>3. D(s) = {i \in 1 .. m : Fires(s[i])} /\ D(t) = {i \in 1 .. n : Fires(t[i])} /\ D(w) = {i \in 1 .. m + n : Fires(w[i])}
  BY <1>1, <1>2 DEF Deciding
<1> HIDE DEF Fires, D
<1>4. \A i \in 1 .. m : i \in 1 .. m + n /\ i <= m
  BY <1>1
<1>5. \A i \in 1 .. n : m + i \in 1 .. m + n /\ ~ (m + i <= m) /\ (m + i) - m = i
  BY <1>1
<1>6. \A i \in 1 .. m + n : (i <= m /\ i \in 1 .. m) \/ (~ (i <= m) /\ i - m \in 1 .. n)
  BY <1>1
<1>7. CASE D(s) # {}
  <2>1. PICK k \in D(s) : \A j \in D(s) : k <= j
    BY <1>7, FirstDeciding DEF D
  <2>2. k \in 1 .. m /\ k \in D(w) /\ w[k] = s[k]
    BY <1>2, <1>3, <1>4
  <2>3. ASSUME NEW j \in D(w) PROVE k <= j
    <3>1. j \in 1 .. m + n /\ Fires(w[j])
      BY <1>3
    <3>2. CASE j <= m
      <4>1. j \in D(s)
        BY <1>2, <1>3, <1>6, <3>1, <3>2
      <4> QED BY <2>1, <4>1
    <3>3. CASE ~ (j <= m)
      BY ONLY <1>1, <2>2, <3>1, <3>3
    <3> QED BY <3>2, <3>3
  <2>4. Ruling(w, tool, args) = {Verdict(w[k], args)}
    <3>1. Least(k, Deciding(w, tool, args))
      BY ONLY <2>2, <2>3 DEF D, Least
    <3>2. Sequence(w)
      BY <1>2
    <3> QED BY ONLY <3>1, <3>2, RulingBy
  <2>5. Ruling(s, tool, args) = {Verdict(s[k], args)}
    <3>1. Least(k, Deciding(s, tool, args))
      BY ONLY <2>1 DEF D, Least
    <3> QED BY ONLY Sequence(s), <3>1, RulingBy
  <2> QED BY <2>2, <2>4, <2>5
<1>8. CASE D(s) = {} /\ D(t) # {}
  <2>1. PICK k \in D(t) : \A j \in D(t) : k <= j
    BY <1>8, FirstDeciding DEF D
  <2>2. k \in 1 .. n /\ m + k \in D(w) /\ w[m + k] = t[k]
    BY <1>2, <1>3, <1>5
  <2>3. ASSUME NEW j \in D(w) PROVE m + k <= j
    <3>1. j \in 1 .. m + n /\ Fires(w[j])
      BY <1>3
    <3>2. ~ (j <= m)
      <4> SUFFICES ASSUME j <= m PROVE FALSE
        OBVIOUS
      <4>1. j \in D(s)
        BY <1>2, <1>3, <1>6, <3>1
      <4> QED BY <1>8, <4>1
    <3>3. j - m \in D(t)
      BY <1>2, <1>3, <1>6, <3>1, <3>2
    <3>4. k <= j - m
      BY <2>1, <3>3
    <3> QED BY ONLY <1>1, <2>2, <3>1, <3>4
  <2>4. Ruling(w, tool, args) = {Verdict(w[m + k], args)}
    <3> PICK l : l = m + k
      OBVIOUS
    <3>1. l \in D(w) /\ \A j \in D(w) : l <= j
      BY <2>2, <2>3
    <3>2. Least(l, Deciding(w, tool, args)) /\ Sequence(w)
      BY ONLY <1>2, <3>1 DEF D, Least
    <3>3. Ruling(w, tool, args) = {Verdict(w[l], args)}
      BY ONLY <3>2, RulingBy
    <3> QED BY <3>3
  <2>5. Ruling(t, tool, args) = {Verdict(t[k], args)}
    <3>1. Least(k, Deciding(t, tool, args))
      BY ONLY <2>1 DEF D, Least
    <3> QED BY ONLY Sequence(t), <3>1, RulingBy
  <2>6. Ruling(s, tool, args) = {}
    BY <1>8, RulingIs DEF D
  <2> QED BY <2>2, <2>4, <2>5, <2>6
<1>9. CASE D(s) = {} /\ D(t) = {}
  <2>1. D(w) = {}
    <3> SUFFICES ASSUME NEW j \in D(w) PROVE FALSE
      OBVIOUS
    <3>1. j \in 1 .. m + n /\ Fires(w[j])
      BY <1>3
    <3>2. j \in D(s) \/ j - m \in D(t)
      BY <1>2, <1>3, <1>6, <3>1
    <3> QED BY <1>9, <3>2
  <2> QED BY <1>2, <1>9, <2>1, RulingIs DEF D
<1> QED BY <1>7, <1>8, <1>9

LEMMA RulingOfThose ==
  ASSUME NEW s, Sequence(s), NEW P \in SUBSET DOMAIN s, NEW tool, NEW args,
         \A i \in DOMAIN s : s[i].tool = tool => i \in P
  PROVE  Ruling(Those(s, P), tool, args) = Ruling(s, tool, args)
<1> PICK t : t = Those(s, P)
  OBVIOUS
<1> DEFINE Fires(x) == x.tool = tool /\ Says(x, args) \in {"match", "type_error"}
           D(q) == Deciding(q, tool, args)
<1>1. Sequence(t) /\ \E at : Picks(at, t, s, P)
  BY SomeOf
<1>2. PICK at : Picks(at, t, s, P)
  BY <1>1
<1>3. /\ at \in [1 .. Len(t) -> P] /\ \A i \in 1 .. Len(t) : t[i] = s[at[i]]
      /\ \A i, j \in 1 .. Len(t) : i < j => at[i] < at[j]
      /\ \A p \in P : \E i \in 1 .. Len(t) : at[i] = p
  BY <1>2 DEF Picks
<1>4. DOMAIN t = 1 .. Len(t) /\ Len(t) \in Nat /\ DOMAIN s = 1 .. Len(s) /\ Len(s) \in Nat
  BY <1>1, ListingAt
<1>5. D(s) = {i \in DOMAIN s : Fires(s[i])} /\ D(t) = {i \in 1 .. Len(t) : Fires(t[i])}
  BY <1>4 DEF Deciding
<1>6. D(s) \subseteq P
  BY <1>5
<1> HIDE DEF Fires, D
<1>7. \A i \in D(t) : at[i] \in D(s)
  BY <1>3, <1>5
<1>8. CASE D(s) # {}
  <2>1. PICK k \in D(s) : \A j \in D(s) : k <= j
    BY <1>8, FirstDeciding DEF D
  <2>2. PICK i \in 1 .. Len(t) : at[i] = k
    BY <1>3, <1>6, <2>1
  <2>3. i \in D(t) /\ t[i] = s[k]
    BY <1>3, <1>5, <2>2
  <2>4. ASSUME NEW j \in D(t) PROVE i <= j
    <3>1. at[j] \in D(s) /\ j \in 1 .. Len(t)
      BY <1>5, <1>7
    <3>2. k <= at[j]
      BY <2>1, <3>1
    <3>3. j < i => at[j] < k
      BY <1>3, <2>2, <3>1
    <3>4. at[j] \in Int /\ k \in Int /\ i \in Int /\ j \in Int
      BY <1>4, <1>5, <3>1
    <3> QED BY ONLY <3>2, <3>3, <3>4
  <2>5. Ruling(t, tool, args) = {Verdict(t[i], args)}
    <3>1. Least(i, Deciding(t, tool, args))
      BY ONLY <2>3, <2>4 DEF D, Least
    <3>2. Sequence(t)
      BY <1>1
    <3> QED BY ONLY <3>1, <3>2, RulingBy
  <2>6. Ruling(s, tool, args) = {Verdict(s[k], args)}
    <3>1. Least(k, Deciding(s, tool, args))
      BY ONLY <2>1 DEF D, Least
    <3> QED BY ONLY Sequence(s), <3>1, RulingBy
  <2> QED BY <2>3, <2>5, <2>6
<1>9. CASE D(s) = {}
  <2>1. D(t) = {}
    BY <1>7, <1>9
  <2> QED BY <1>1, <1>9, <2>1, RulingIs DEF D
<1> QED BY <1>8, <1>9

LEMMA RulingOfOther ==
  ASSUME NEW x, NEW tool, x.tool # tool, NEW args
  PROVE  Ruling(<<x>>, tool, args) = {}
<1>1. ASSUME NEW y \in ToSet(<<x>>) PROVE y.tool # tool
  <2>1. y = x
    BY List1, ListingAt
  <2> QED BY <2>1
<1>2. Sequence(<<x>>)
  BY ONLY List1
<1> QED BY ONLY <1>1, <1>2, RulingNone

LEMMA RulingOfAdded ==
  ASSUME NEW rules, NEW pack, Sequence(pack), NEW tool, NEW args
  PROVE  /\ \A n : Ruling(Injected(rules, pack, n), tool, args) =
              IF /\ rules[n].tool = tool /\ rules[n].merge
                 /\ ~\E j \in 1 .. (n - 1) : rules[j].merge /\ rules[j].tool = tool
              THEN Ruling(pack, tool, args) ELSE {}
         /\ tool \notin OperatorTools(rules) => Ruling(Unclaimed(rules, pack), tool, args) = Ruling(pack, tool, args)
         /\ tool \in OperatorTools(rules) => Ruling(Unclaimed(rules, pack), tool, args) = {}
<1> DEFINE R(q) == Ruling(q, tool, args)
<1>1. R(Named(pack, tool)) = R(pack)
  <2>1. {i \in DOMAIN pack : pack[i].tool = tool} \in SUBSET DOMAIN pack
    OBVIOUS
  <2> QED BY <2>1, RulingOfThose DEF Named
<1>2. ASSUME NEW other, other # tool PROVE R(Named(pack, other)) = {}
  <2> DEFINE P == {i \in DOMAIN pack : pack[i].tool = other}
  <2>1. P \in SUBSET DOMAIN pack
    OBVIOUS
  <2>2. Sequence(Those(pack, P)) /\ ToSet(Those(pack, P)) = {pack[p] : p \in P}
    BY ONLY <2>1, Sequence(pack), SomeOf
  <2>3. \A x \in ToSet(Those(pack, P)) : x.tool # tool
    BY ONLY <1>2, <2>2
  <2> HIDE DEF P
  <2>4. R(Those(pack, P)) = {}
    BY ONLY <2>2, <2>3, RulingNone
  <2> QED BY <2>4 DEF Named, P
<1>3. ASSUME NEW n
      PROVE  R(Injected(rules, pack, n)) =
               IF /\ rules[n].tool = tool /\ rules[n].merge
                  /\ ~\E j \in 1 .. (n - 1) : rules[j].merge /\ rules[j].tool = tool
               THEN R(pack) ELSE {}
  <2> DEFINE first == rules[n].merge /\ ~\E j \in 1 .. (n - 1) : rules[j].merge /\ rules[j].tool = rules[n].tool
  <2>1. Injected(rules, pack, n) = IF first THEN Named(pack, rules[n].tool) ELSE << >>
    BY DEF Injected
  <2>2. R(<< >>) = {}
    BY ONLY RulingOfEmpty
  <2>3. CASE rules[n].tool = tool
    <3> HIDE DEF first, R
    <3>1. R(Injected(rules, pack, n)) = IF first THEN R(pack) ELSE {}
      BY ONLY <1>1, <2>1, <2>2, <2>3
    <3> QED BY ONLY <2>3, <3>1 DEF first
  <2>4. CASE rules[n].tool # tool
    <3>1. R(Named(pack, rules[n].tool)) = {}
      BY <1>2, <2>4
    <3> HIDE DEF first, R
    <3> QED BY ONLY <2>1, <2>2, <2>4, <3>1
  <2> QED BY <2>3, <2>4
<1> DEFINE P == {i \in DOMAIN pack : pack[i].tool \notin OperatorTools(rules)}
<1>4. P \in SUBSET DOMAIN pack /\ Unclaimed(rules, pack) = Those(pack, P)
  BY DEF Unclaimed
<1>5. ASSUME tool \notin OperatorTools(rules) PROVE R(Unclaimed(rules, pack)) = R(pack)
  <2>1. \A i \in DOMAIN pack : pack[i].tool = tool => i \in P
    BY <1>5
  <2> HIDE DEF P
  <2> QED BY <1>4, <2>1, RulingOfThose
<1>6. ASSUME tool \in OperatorTools(rules) PROVE R(Unclaimed(rules, pack)) = {}
  <2>1. \A p \in P : pack[p].tool # tool
    BY <1>6
  <2> HIDE DEF P
  <2>2. Sequence(Those(pack, P)) /\ ToSet(Those(pack, P)) = {pack[p] : p \in P}
    BY ONLY <1>4, Sequence(pack), SomeOf
  <2>3. \A x \in ToSet(Those(pack, P)) : x.tool # tool
    BY ONLY <2>1, <2>2
  <2> QED BY ONLY <1>4, <2>2, <2>3, RulingNone
<1> QED BY ONLY <1>3, <1>5, <1>6

\* The verdict of the first of two lists of rules that has one.
FirstOf(r, s) == IF r # {} THEN r ELSE s

LEMMA RulingGrows ==
  ASSUME NEW rules, Sequence(rules), NEW pack, Sequence(pack), NEW g, Merging(g, rules, pack),
         NEW tool, NEW args, NEW n \in 1 .. Len(rules)
  PROVE  Ruling(g[n], tool, args) =
           FirstOf(Ruling(g[n-1], tool, args),
                   FirstOf(Ruling(Injected(rules, pack, n), tool, args), Ruling(<<rules[n]>>, tool, args)))
<1> PICK s, i, x : s = g[n-1] /\ i = Injected(rules, pack, n) /\ x = rules[n]
  OBVIOUS
<1>1. g[n] = Append(s \o i, x)
  BY DEF Merging
<1>2. Sequence(s) /\ Sequence(i)
  <2>1. n - 1 \in 0 .. Len(rules)
    BY ListingAt
  <2>2. Sequence(s)
    BY <2>1 DEF Merging
  <2> QED BY <2>2, AddedRules
<1>3. Sequence(s \o i) /\ Sequence(<<x>>)
  BY ONLY <1>2, Joined, List1
<1>4. Append(s \o i, x) = (s \o i) \o <<x>>
  <2> PICK q : q = s \o i
    OBVIOUS
  <2>1. q \in Seq(ToSet(q) \cup {x}) /\ x \in ToSet(q) \cup {x}
    <3>1. Sequence(q) /\ ToSet(q) \subseteq ToSet(q) \cup {x}
      BY <1>3
    <3> QED BY ONLY <3>1, SequenceIn
  <2>2. Append(q, x) = q \o <<x>>
    BY ONLY <2>1, AppendIsConcat
  <2> QED BY <2>2
<1>5. Ruling((s \o i) \o <<x>>, tool, args) =
        IF Ruling(s \o i, tool, args) # {} THEN Ruling(s \o i, tool, args) ELSE Ruling(<<x>>, tool, args)
  BY ONLY <1>3, RulingJoined
<1>6. Ruling(s \o i, tool, args) = IF Ruling(s, tool, args) # {} THEN Ruling(s, tool, args) ELSE Ruling(i, tool, args)
  BY ONLY <1>2, RulingJoined
<1>7. Ruling((s \o i) \o <<x>>, tool, args) =
        FirstOf(Ruling(s, tool, args), FirstOf(Ruling(i, tool, args), Ruling(<<x>>, tool, args)))
  BY ONLY <1>5, <1>6 DEF FirstOf
<1> QED BY ONLY <1>1, <1>4, <1>7, s = g[n-1] /\ i = Injected(rules, pack, n) /\ x = rules[n]

LEMMA RulingOfPrefix ==
  ASSUME NEW rules, Sequence(rules), NEW tool, NEW args
  PROVE  /\ SubSeq(rules, 1, Len(rules)) = rules /\ Ruling(SubSeq(rules, 1, 0), tool, args) = {}
         /\ \A n \in 1 .. Len(rules) :
              Ruling(SubSeq(rules, 1, n), tool, args) =
                IF Ruling(SubSeq(rules, 1, n - 1), tool, args) # {} THEN Ruling(SubSeq(rules, 1, n - 1), tool, args)
                ELSE Ruling(<<rules[n]>>, tool, args)
<1> PICK S, N : S = ToSet(rules) /\ N = Len(rules)
  OBVIOUS
<1>1. rules \in Seq(S) /\ N \in Nat
  BY ListingAt DEF Sequence
<1>2. SubSeq(rules, 1, N) = rules
  BY ONLY <1>1, N = Len(rules), SubSeqFull
<1>3. SubSeq(rules, 1, 0) = << >>
  BY ONLY <1>1, SubSeqEmpty
<1>4. ASSUME NEW n \in 1 .. N
      PROVE  Ruling(SubSeq(rules, 1, n), tool, args) =
                IF Ruling(SubSeq(rules, 1, n - 1), tool, args) # {} THEN Ruling(SubSeq(rules, 1, n - 1), tool, args)
                ELSE Ruling(<<rules[n]>>, tool, args)
  <2> PICK p, q : p = SubSeq(rules, 1, n) /\ q = SubSeq(rules, 1, n - 1)
    OBVIOUS
  <2>1. /\ p \in Seq(S) /\ Len(p) = n /\ \A i \in 1 .. n : p[i] = rules[i]
        /\ q \in Seq(S) /\ Len(q) = n - 1 /\ \A i \in 1 .. n - 1 : q[i] = rules[i]
    <3>1. p \in Seq(S) /\ Len(p) = n /\ \A i \in 1 .. n : p[i] = rules[1 + i - 1]
      BY <1>1, SubSeqProperties
    <3>2. q \in Seq(S) /\ Len(q) = n - 1 /\ \A i \in 1 .. n - 1 : q[i] = rules[1 + i - 1]
      BY <1>1, SubSeqProperties
    <3> QED BY <3>1, <3>2
  <2>2. p = q \o <<rules[n]>>
    <3> PICK x : x = rules[n]
      OBVIOUS
    <3>1. x \in S
      BY <1>1, ElementOfSeq
    <3>2. <<x>> \in Seq(S) /\ Len(<<x>>) = 1 /\ <<x>>[1] = x
      BY <3>1
    <3> PICK y : y = <<x>>
      OBVIOUS
    <3>3. /\ q \o y \in Seq(S) /\ Len(q \o y) = n
          /\ \A i \in 1 .. n : (q \o y)[i] = IF i <= n - 1 THEN q[i] ELSE y[i - (n - 1)]
      <4>1. /\ q \o y \in Seq(S) /\ Len(q \o y) = Len(q) + Len(y)
            /\ \A i \in 1 .. Len(q) + Len(y) : (q \o y)[i] = IF i <= Len(q) THEN q[i] ELSE y[i - Len(q)]
        BY <2>1, <3>2, ConcatProperties
      <4>2. Len(q) = n - 1 /\ Len(y) = 1 /\ (n - 1) + 1 = n
        BY <1>1, <2>1, <3>2
      <4> QED BY ONLY <4>1, <4>2
    <3>4. ASSUME NEW i \in 1 .. n PROVE p[i] = (q \o y)[i]
      <4>1. CASE i <= n - 1
        <5>1. i \in 1 .. n - 1
          BY <1>1, <4>1
        <5> QED BY <2>1, <3>3, <4>1, <5>1
      <4>2. CASE ~ (i <= n - 1)
        <5>1. i = n /\ i - (n - 1) = 1
          BY <1>1, <4>2
        <5> QED BY <2>1, <3>2, <3>3, <4>2, <5>1
      <4> QED BY <4>1, <4>2
    <3>5. p = q \o y
      BY ONLY <2>1, <3>3, <3>4, SeqEqual
    <3> QED BY <3>5
  <2>3. Sequence(q) /\ Sequence(<<rules[n]>>)
    BY <2>1, Listing, List1
  <2>4. Ruling(q \o <<rules[n]>>, tool, args) =
          IF Ruling(q, tool, args) # {} THEN Ruling(q, tool, args) ELSE Ruling(<<rules[n]>>, tool, args)
    BY ONLY <2>3, RulingJoined
  <2> QED BY ONLY <2>2, <2>4, p = SubSeq(rules, 1, n) /\ q = SubSeq(rules, 1, n - 1)
<1> QED BY <1>2, <1>3, <1>4, RulingOfEmpty

\* Rules that the packs do not add to decide as they did.
LEMMA MergedQuietly ==
  ASSUME NEW rules, Sequence(rules), NEW pack, Sequence(pack), NEW tool, NEW args,
         \A n \in 1 .. Len(rules) : Ruling(Injected(rules, pack, n), tool, args) = {},
         Ruling(Unclaimed(rules, pack), tool, args) = {}
  PROVE  Ruling(MergePackRules(rules, pack), tool, args) = Ruling(rules, tool, args)
<1> DEFINE R(q) == Ruling(q, tool, args)
           N == Len(rules)
           pre(n) == SubSeq(rules, 1, n)
<1>1. PICK g : Merging(g, rules, pack)
  BY MergeIs
<1>2. N \in Nat
  BY ListingAt
<1>3. R(pre(0)) = {} /\ pre(N) = rules
      /\ \A n \in 1 .. N : R(pre(n)) = IF R(pre(n - 1)) # {} THEN R(pre(n - 1)) ELSE R(<<rules[n]>>)
  BY RulingOfPrefix
<1>4. R(g[0]) = {}
  BY <1>1, RulingOfEmpty DEF Merging
<1>5. ASSUME NEW n \in 1 .. N PROVE R(g[n]) = IF R(g[n-1]) # {} THEN R(g[n-1]) ELSE R(<<rules[n]>>)
  <2>1. R(Injected(rules, pack, n)) = {}
    OBVIOUS
  <2>2. R(g[n]) = FirstOf(R(g[n-1]), FirstOf(R(Injected(rules, pack, n)), R(<<rules[n]>>)))
    <3>1. Sequence(rules) /\ Sequence(pack) /\ n \in 1 .. Len(rules)
      OBVIOUS
    <3> QED BY ONLY <1>1, <3>1, RulingGrows
  <2> HIDE DEF R
  <2> QED BY ONLY <2>1, <2>2 DEF FirstOf
<1> DEFINE T == {n \in 0 .. N : R(g[n]) = R(pre(n))}
<1> HIDE DEF R, pre
<1>6. 0 .. N \subseteq T
  <2>1. 0 \in T
    <3>1. R(g[0]) = R(pre(0))
      BY ONLY <1>3, <1>4
    <3> QED BY <1>2, <3>1
  <2>2. ASSUME NEW n \in 1 .. N, n - 1 \in T PROVE n \in T
    <3>1. R(g[n-1]) = R(pre(n - 1)) /\ n \in 0 .. N
      BY <1>2, <2>2
    <3>2. R(g[n]) = R(pre(n))
      BY <1>3, <1>5, <3>1
    <3> QED BY <3>1, <3>2
  <2> HIDE DEF T
  <2> QED BY <1>2, <2>1, <2>2, CountInduction
<1>7. R(g[N]) = R(rules)
  BY <1>2, <1>3, <1>6
<1> PICK s, u : s = g[N] /\ u = Unclaimed(rules, pack)
  OBVIOUS
<1>8. MergePackRules(rules, pack) = s \o u /\ Sequence(s) /\ Sequence(u)
  BY <1>1, <1>2, AddedRules DEF Merging
<1>9. R(s \o u) = IF R(s) # {} THEN R(s) ELSE R(u)
  BY ONLY <1>8, RulingJoined DEF R
<1>10. R(u) = {}
  BY DEF R
<1> QED BY <1>7, <1>8, <1>9, <1>10 DEF R

\* The rules of the packs decide before those of the operator that ask for them.
LEMMA MergedFirst ==
  ASSUME NEW rules, Sequence(rules), NEW pack, Sequence(pack), NEW tool, tool # "*", NEW args,
         Ruling(pack, tool, args) # {}, NEW c \in 1 .. Len(rules) + 1,
         \A i \in 1 .. Len(rules) : rules[i].tool = tool => c <= i,
         c <= Len(rules) => rules[c].tool = tool /\ rules[c].merge
  PROVE  Ruling(MergePackRules(rules, pack), tool, args) = Ruling(pack, tool, args)
<1> DEFINE R(q) == Ruling(q, tool, args)
           N == Len(rules)
<1>1. PICK g : Merging(g, rules, pack)
  BY MergeIs
<1>2. N \in Nat /\ DOMAIN rules = 1 .. N /\ c \in Int
  BY ListingAt
<1>3. R(g[0]) = {}
  BY <1>1, RulingOfEmpty DEF Merging
<1>4. \A n \in 1 .. N :
        R(g[n]) = IF R(g[n-1]) # {} THEN R(g[n-1])
                  ELSE IF R(Injected(rules, pack, n)) # {} THEN R(Injected(rules, pack, n)) ELSE R(<<rules[n]>>)
  <2> SUFFICES ASSUME NEW n \in 1 .. N
               PROVE  R(g[n]) = IF R(g[n-1]) # {} THEN R(g[n-1])
                                ELSE IF R(Injected(rules, pack, n)) # {} THEN R(Injected(rules, pack, n))
                                ELSE R(<<rules[n]>>)
    OBVIOUS
  <2>1. Sequence(rules) /\ Sequence(pack) /\ n \in 1 .. Len(rules)
    OBVIOUS
  <2>2. R(g[n]) = FirstOf(R(g[n-1]), FirstOf(R(Injected(rules, pack, n)), R(<<rules[n]>>)))
    BY ONLY <1>1, <2>1, RulingGrows
  <2> HIDE DEF R
  <2> QED BY ONLY <2>2 DEF FirstOf
<1>5. \A n : R(Injected(rules, pack, n)) =
        IF /\ rules[n].tool = tool /\ rules[n].merge
           /\ ~\E j \in 1 .. (n - 1) : rules[j].merge /\ rules[j].tool = tool
        THEN R(pack) ELSE {}
  BY RulingOfAdded
<1>6. \A n \in 1 .. N : rules[n].tool # tool => R(<<rules[n]>>) = {}
  BY RulingOfOther
<1> DEFINE T == {n \in 0 .. N : R(g[n]) = IF n < c THEN {} ELSE R(pack)}
<1>7. R(pack) # {}
  OBVIOUS
<1> HIDE DEF R
<1>8. 0 .. N \subseteq T
  <2>1. 0 \in T
    BY <1>2, <1>3
  <2>2. ASSUME NEW n \in 1 .. N, n - 1 \in T PROVE n \in T
    <3>1. R(g[n-1]) = (IF n - 1 < c THEN {} ELSE R(pack)) /\ n \in 0 .. N /\ n \in Int
      BY <1>2, <2>2
    <3>2. CASE n < c
      <4>1. rules[n].tool # tool /\ n - 1 < c
        BY <1>2, <3>1, <3>2
      <4>2. R(g[n-1]) = {} /\ R(Injected(rules, pack, n)) = {} /\ R(<<rules[n]>>) = {}
        BY <1>5, <1>6, <3>1, <4>1
      <4>3. R(g[n]) = {}
        BY <1>4, <4>2
      <4> QED BY <3>1, <3>2, <4>3
    <3>3. CASE n = c
      <4>1. rules[n].tool = tool /\ rules[n].merge /\ n - 1 < c
        BY <1>2, <3>1, <3>3
      <4>2. ~\E j \in 1 .. (n - 1) : rules[j].merge /\ rules[j].tool = tool
        BY <1>2, <3>1, <3>3
      <4>3. R(g[n-1]) = {} /\ R(Injected(rules, pack, n)) = R(pack)
        BY <1>5, <3>1, <4>1, <4>2
      <4>4. R(g[n]) = R(pack)
        BY <1>4, <1>7, <4>3
      <4> QED BY <1>2, <3>1, <3>3, <4>4
    <3>4. CASE n > c
      <4>1. ~ (n - 1 < c) /\ ~ (n < c)
        BY <1>2, <3>1, <3>4
      <4>2. R(g[n-1]) = R(pack)
        BY <3>1, <4>1
      <4>3. R(g[n]) = R(pack)
        BY <1>4, <1>7, <4>2
      <4> QED BY <3>1, <4>1, <4>3
    <3> QED BY <1>2, <3>1, <3>2, <3>3, <3>4
  <2> HIDE DEF T
  <2> QED BY <1>2, <2>1, <2>2, CountInduction
<1>9. R(g[N]) = IF N < c THEN {} ELSE R(pack)
  BY <1>2, <1>8
<1> PICK s, u : s = g[N] /\ u = Unclaimed(rules, pack)
  OBVIOUS
<1>10. MergePackRules(rules, pack) = s \o u /\ Sequence(s) /\ Sequence(u)
  BY <1>1, <1>2, AddedRules DEF Merging
<1>11. R(s \o u) = IF R(s) # {} THEN R(s) ELSE R(u)
  BY ONLY <1>10, RulingJoined DEF R
<1>12. CASE N < c
  <2>1. tool \notin OperatorTools(rules)
    <3> SUFFICES ASSUME NEW i \in DOMAIN rules, rules[i].tool = tool PROVE FALSE
      BY DEF OperatorTools
    <3>1. c <= i /\ i \in Int /\ i <= N
      BY <1>2
    <3> QED BY ONLY <1>2, <1>12, <3>1
  <2>2. R(u) = R(pack)
    BY <2>1, RulingOfAdded DEF R
  <2> QED BY <1>9, <1>10, <1>11, <1>12, <2>2 DEF R
<1>13. CASE ~ (N < c)
  BY <1>7, <1>9, <1>10, <1>11, <1>13 DEF R
<1> QED BY <1>12, <1>13

-----------------------------------------------------------------------------
(* What a policy decides *)

\* Rules of p and q say the same of a call, or have the same first verdict for
\* its tool.
SayAlike(rules, others, tool, args) ==
  /\ Ruling(rules, tool, args) = Ruling(others, tool, args)
  /\ Ruling(rules, tool, args) # {} \/ Ruling(rules, "*", args) = Ruling(others, "*", args)

LEMMA VerdictIs ==
  ASSUME NEW rules, Sequence(rules), NEW tool, NEW args
  PROVE  /\ (Deciding(rules, tool, args) # {}) <=> (Ruling(rules, tool, args) # {})
         /\ Deciding(rules, tool, args) # {} =>
              Verdict(rules[Min(Deciding(rules, tool, args))], args) = CHOOSE v : v \in Ruling(rules, tool, args)
<1> PICK v, D : v = Verdict(rules[Min(Deciding(rules, tool, args))], args) /\ D = Deciding(rules, tool, args)
  OBVIOUS
<1>1. (D = {} => Ruling(rules, tool, args) = {}) /\ (D # {} => Ruling(rules, tool, args) = {v})
  BY RulingIs
<1>2. (CHOOSE x : x \in {v}) = v
  OBVIOUS
<1> QED BY <1>1, <1>2

LEMMA SameDecision ==
  ASSUME NEW p, NEW q, Sequence(p.rules), Sequence(q.rules), NEW tool, NEW args, NEW model,
         p.default = q.default, p.step_up = q.step_up, p.network = q.network,
         p.filesystem = q.filesystem, p.models = q.models,
         SayAlike(p.rules, q.rules, tool, args)
  PROVE  EvaluatePolicy(tool, p, args, model) = EvaluatePolicy(tool, q, args, model)
<1> DEFINE The(rules, name) == CHOOSE v : v \in Ruling(rules, name, args)
           D(rules, name) == Deciding(rules, name, args)
           V(rules, name) == Verdict(rules[Min(D(rules, name))], args)
<1>1. Guarded(p, args, model) <=> Guarded(q, args, model)
  BY DEF Guarded
<1>2. StepsUp(p, tool) <=> StepsUp(q, tool)
  BY DEF StepsUp
<1>3. ASSUME NEW name
      PROVE  /\ (D(p.rules, name) # {} <=> Ruling(p.rules, name, args) # {}) /\ (D(p.rules, name) # {} => V(p.rules, name) = The(p.rules, name))
             /\ (D(q.rules, name) # {} <=> Ruling(q.rules, name, args) # {}) /\ (D(q.rules, name) # {} => V(q.rules, name) = The(q.rules, name))
  BY VerdictIs
<1>4. /\ D(p.rules, tool) # {} <=> D(q.rules, tool) # {}
      /\ D(p.rules, tool) # {} => V(p.rules, tool) = V(q.rules, tool)
  <2> HIDE DEF D, V
  <2> QED BY <1>3 DEF SayAlike
<1>5. D(p.rules, tool) = {} =>
        /\ D(p.rules, "*") # {} <=> D(q.rules, "*") # {}
        /\ D(p.rules, "*") # {} => V(p.rules, "*") = V(q.rules, "*")
  <2> HIDE DEF D, V
  <2> QED BY <1>3 DEF SayAlike
<1>6. ASSUME NEW o, o = p \/ o = q
      PROVE  EvaluatePolicy(tool, o, args, model) =
               IF Guarded(o, args, model) THEN "BLOCK"
               ELSE IF StepsUp(o, tool) THEN "STEP_UP"
               ELSE IF D(o.rules, tool) # {} THEN V(o.rules, tool)
               ELSE IF D(o.rules, "*") # {} THEN V(o.rules, "*")
               ELSE o.default
  BY DEF EvaluatePolicy
<1> HIDE DEF D, V
<1>7. p.default = q.default
  OBVIOUS
<1> QED BY ONLY <1>1, <1>2, <1>4, <1>5, <1>6, <1>7

LEMMA RecordedIs ==
  ASSUME ReplayInv, NEW r \in Recorded
  PROVE  /\ r.policy \in DOMAIN Files /\ Usable(r.policy) /\ r.decision = Decision(r.policy, r)
         /\ \E call \in Calls \cup Probes : r.tool = call.tool /\ r.args = call.args /\ r.model = call.model
<1>1. PICK i \in DOMAIN receipts : r = receipts[i] /\ receipts[i].decision # "FAIL_CLOSED"
  BY DEF Recorded
<1>2. r \in Receivable(clock)
  <2>1. receipts \in Seq(Receivable(clock))
    BY DEF ReplayInv
  <2>2. DOMAIN receipts = 1 .. Len(receipts)
    BY <2>1, LenProperties
  <2> QED BY <1>1, <2>1, <2>2, ElementOfSeq
<1>3. /\ r \in Receipts(Start .. clock) /\ r.decision \in {Decision(r.policy, r), "FAIL_CLOSED"}
      /\ [tool |-> r.tool, args |-> r.args, model |-> r.model] \in
           {[tool |-> call.tool, args |-> call.args, model |-> call.model] : call \in Calls \cup Probes}
  BY <1>2 DEF Receivable
<1>4. r.policy \in {f \in DOMAIN Files : Usable(f)}
  BY <1>3 DEF Receipts
<1>5. PICK call \in Calls \cup Probes :
        [tool |-> r.tool, args |-> r.args, model |-> r.model] = [tool |-> call.tool, args |-> call.args, model |-> call.model]
  BY <1>3
<1>6. r.tool = call.tool /\ r.args = call.args /\ r.model = call.model
  BY ONLY <1>5
<1> QED BY <1>1, <1>3, <1>4, <1>6

LEMMA WithRules ==
  ASSUME NEW f \in DOMAIN Files, Usable(f), NEW rules, Sequence(rules), NEW call,
         SayAlike(Policies[f].rules, rules, call.tool, call.args)
  PROVE  Decision(f, call) = DecisionWith(f, rules, call)
<1> PICK F, p, q : F = Files[f] /\ p = Policies[f] /\ q = [F EXCEPT !.rules = rules]
  OBVIOUS
<1>1. DOMAIN F = {"default", "rules", "schemas", "step_up", "limits", "network", "filesystem", "models"}
  BY FilesAssumption DEF PolicyFile
<1>2. /\ q.rules = rules /\ q.default = F.default /\ q.step_up = F.step_up
      /\ q.network = F.network /\ q.filesystem = F.filesystem /\ q.models = F.models
  BY <1>1
<1>3. /\ p.default = F.default /\ p.step_up = F.step_up /\ p.network = F.network
      /\ p.filesystem = F.filesystem /\ p.models = F.models /\ Sequence(p.rules)
  BY LoadedPolicy
<1>4. EvaluatePolicy(call.tool, p, call.args, call.model) = EvaluatePolicy(call.tool, q, call.args, call.model)
  <2>1. SayAlike(p.rules, q.rules, call.tool, call.args)
    BY <1>2
  <2>2. /\ p.default = q.default /\ p.step_up = q.step_up /\ p.network = q.network
        /\ p.filesystem = q.filesystem /\ p.models = q.models
    BY ONLY <1>2, <1>3
  <2>3. Sequence(p.rules) /\ Sequence(q.rules)
    BY <1>2, <1>3
  <2> QED BY ONLY <2>1, <2>2, <2>3, SameDecision
<1> QED BY <1>4 DEF Decision, DecisionWith

\* Where the packs govern a tool, they decide first.
LEMMA PackFirst ==
  ASSUME NEW f \in DOMAIN Files, Usable(f), NEW tool, NEW args,
         PackGoverns(f, tool), Ruling(PackRules(Files[f].schemas), tool, args) # {}
  PROVE  Ruling(Policies[f].rules, tool, args) = Ruling(PackRules(Files[f].schemas), tool, args)
<1> PICK rules, pack : rules = Files[f].rules /\ pack = PackRules(Files[f].schemas)
  OBVIOUS
<1>1. /\ Sequence(rules) /\ Sequence(pack) /\ Policies[f].rules = MergePackRules(rules, pack)
      /\ \A x \in ToSet(pack) : x.tool # "*"
  BY LoadedPolicy
<1>2. Claims(f, tool) = {i \in DOMAIN rules : rules[i].tool = tool} /\ DOMAIN rules = 1 .. Len(rules) /\ Len(rules) \in Nat
  BY <1>1, ListingAt DEF Claims
<1>3. tool # "*"
  BY <1>1, RulingNone
<1> DEFINE C == Claims(f, tool)
<1>4. PICK c \in 1 .. Len(rules) + 1 :
        /\ \A i \in 1 .. Len(rules) : rules[i].tool = tool => c <= i
        /\ c <= Len(rules) => rules[c].tool = tool /\ rules[c].merge
  <2>1. CASE C = {}
    <3>1. \A i \in 1 .. Len(rules) : rules[i].tool # tool
      BY <1>2, <2>1
    <3>2. Len(rules) + 1 \in 1 .. Len(rules) + 1 /\ ~ (Len(rules) + 1 <= Len(rules))
      BY <1>2
    <3> QED BY <3>1, <3>2
  <2>2. CASE C # {}
    <3>1. C \in SUBSET Nat
      BY <1>2
    <3>2. \E m \in C : \A n \in C : m <= n
      <4> HIDE DEF C
      <4> QED BY ONLY <2>2, <3>1, LeastNumber
    <3>3. Min(C) \in C /\ \A n \in C : Min(C) <= n
      <4> HIDE DEF C
      <4> QED BY <3>2 DEF Min
    <3>4. rules[Min(C)].merge
      BY <2>2 DEF PackGoverns
    <3>5. Min(C) \in 1 .. Len(rules) /\ rules[Min(C)].tool = tool /\ \A i \in 1 .. Len(rules) : rules[i].tool = tool => Min(C) <= i
      BY <1>2, <3>3
    <3>6. Min(C) \in 1 .. Len(rules) + 1
      <4> HIDE DEF C
      <4> QED BY <1>2, <3>5
    <3> HIDE DEF C
    <3> QED BY <3>4, <3>5, <3>6
  <2> QED BY <2>1, <2>2
<1>5. Ruling(pack, tool, args) # {}
  OBVIOUS
<1>6. Ruling(MergePackRules(rules, pack), tool, args) = Ruling(pack, tool, args)
  <2>1. /\ Sequence(rules) /\ Sequence(pack) /\ c \in 1 .. Len(rules) + 1
        /\ (\A i \in 1 .. Len(rules) : rules[i].tool = tool => c <= i)
        /\ (c <= Len(rules) => rules[c].tool = tool /\ rules[c].merge)
    BY <1>1, <1>4
  <2> HIDE DEF C
  <2> QED BY ONLY <1>3, <1>5, <2>1, MergedFirst
<1> QED BY <1>1, <1>6

LEMMA Merged == ReplayInv => MergeAsDocumented
<1> SUFFICES ASSUME ReplayInv, NEW r \in Recorded
    PROVE  LET f == r.policy
               silent == Deciding(Packed[f], r.tool, r.args) = {}
           IN  /\ Claims(f, r.tool) # {} /\ ~Merges(f, r.tool)
                    => r.decision = DecisionWith(f, Files[f].rules, r)
               /\ PackGoverns(f, r.tool) /\ ~silent => r.decision = DecisionWith(f, Packed[f], r)
               /\ silent => r.decision = DecisionWith(f, Files[f].rules, r)
  BY DEF MergeAsDocumented
<1> PICK f, rules, pack, tool, args :
      f = r.policy /\ rules = Files[f].rules /\ pack = PackRules(Files[f].schemas) /\ tool = r.tool /\ args = r.args
  OBVIOUS
<1> DEFINE R(q) == Ruling(q, tool, args)
           Star(q) == Ruling(q, "*", args)
           M == MergePackRules(rules, pack)
<1>1. f \in DOMAIN Files /\ Usable(f) /\ r.decision = Decision(f, r)
  BY RecordedIs
<1>2. /\ Sequence(rules) /\ Sequence(pack) /\ Policies[f].rules = M
      /\ \A x \in ToSet(pack) : x.tool # "*"
  BY <1>1, LoadedPolicy
<1>3. Packed[f] = pack
  BY <1>1 DEF Packed
<1>4. (Deciding(pack, tool, args) = {}) <=> (R(pack) = {})
  BY <1>2, VerdictIs
<1>5. Star(M) = Star(rules)
  <2>1. Star(pack) = {}
    BY ONLY <1>2, RulingNone
  <2>2. \A n : Star(Injected(rules, pack, n)) = {}
    BY ONLY <1>2, <2>1, RulingOfAdded
  <2>3. Star(Unclaimed(rules, pack)) = {}
    BY ONLY <1>2, <2>1, RulingOfAdded
  <2> QED BY ONLY <1>2, <2>2, <2>3, MergedQuietly
<1>6. ASSUME R(M) = R(rules) PROVE r.decision = DecisionWith(f, Files[f].rules, r)
  <2>1. SayAlike(Policies[f].rules, rules, r.tool, r.args)
    BY <1>2, <1>5, <1>6 DEF SayAlike
  <2> QED BY <1>1, <1>2, <2>1, WithRules
<1>7. ASSUME R(M) = R(pack), R(pack) # {} PROVE r.decision = DecisionWith(f, pack, r)
  <2>1. SayAlike(Policies[f].rules, pack, r.tool, r.args)
    BY <1>2, <1>7 DEF SayAlike
  <2> QED BY <1>1, <1>2, <2>1, WithRules
<1>8. ASSUME R(pack) = {} PROVE R(M) = R(rules)
  <2>1. \A n : R(Injected(rules, pack, n)) = {}
    BY ONLY <1>2, <1>8, RulingOfAdded
  <2>2. R(Unclaimed(rules, pack)) = {}
    BY ONLY <1>2, <1>8, RulingOfAdded
  <2> QED BY ONLY <1>2, <2>1, <2>2, MergedQuietly
<1>9. Claims(f, tool) = {i \in DOMAIN rules : rules[i].tool = tool} /\ DOMAIN rules = 1 .. Len(rules) /\ Len(rules) \in Nat
  BY <1>2, ListingAt DEF Claims
<1>10. ASSUME Claims(f, tool) # {}, ~Merges(f, tool) PROVE R(M) = R(rules)
  <2>1. CASE tool = "*"
    <3>1. R(pack) = {}
      BY <1>2, <2>1, RulingNone
    <3> QED BY <1>8, <3>1
  <2>2. CASE tool # "*"
    <3>1. tool \in OperatorTools(rules)
      BY <1>9, <1>10, <2>2 DEF OperatorTools
    <3>2. R(Unclaimed(rules, pack)) = {}
      BY ONLY <1>2, <3>1, RulingOfAdded
    <3>3. ASSUME NEW n \in 1 .. Len(rules) PROVE R(Injected(rules, pack, n)) = {}
      <4>1. ~ (rules[n].tool = tool /\ rules[n].merge)
        BY <1>9, <1>10 DEF Merges
      <4> QED BY ONLY <1>2, <4>1, RulingOfAdded
    <3> QED BY ONLY <1>2, <3>2, <3>3, MergedQuietly
  <2> QED BY <2>1, <2>2
<1>11. ASSUME PackGoverns(f, tool), R(pack) # {} PROVE R(M) = R(pack)
  BY ONLY <1>1, <1>2, <1>11, PackFirst, rules = Files[f].rules, pack = PackRules(Files[f].schemas)
<1> HIDE DEF R, M
<1> QED BY <1>3, <1>4, <1>6, <1>7, <1>8, <1>10, <1>11

\* A pack changes nothing for a tool that the operator claims without merging;
\* its rules decide first where the operator claims nothing or merges from the
\* first rule on; and where it is silent the operator's rules decide.  This for
\* any rules, packs and calls.
THEOREM MergeDocumented == ReplaySpec => []MergeAsDocumented
<1>1. ReplayInit => ReplayInv
  BY ReplayInvInductive
<1>2. ReplayInv /\ [ReplayNext]_replayVars => ReplayInv'
  BY ReplayInvInductive
<1>3. ReplayInv => MergeAsDocumented
  BY Merged
<1> QED BY <1>1, <1>2, <1>3, PTL DEF ReplaySpec

-----------------------------------------------------------------------------
(* What packs that let a call pass say of its arguments *)

\* Whatever rule of the list decides allows the call.
Lets(rules, tool, args) == Ruling(rules, tool, args) \subseteq {"ALLOW"}

Fires(rule, args) == Says(rule, args) \in {"match", "type_error"}

\* What is allowed under packs that govern the tool is let through by them.
LEMMA AllowedByPack ==
  ASSUME ReplayInv, NEW r \in Recorded, r.decision = "ALLOW", PackGoverns(r.policy, r.tool)
  PROVE  Lets(PackRules(Files[r.policy].schemas), r.tool, r.args)
<1> PICK f, p, pack, tool, args :
      f = r.policy /\ p = Policies[f] /\ pack = PackRules(Files[f].schemas) /\ tool = r.tool /\ args = r.args
  OBVIOUS
<1> DEFINE D == Deciding(p.rules, tool, args)
<1>1. f \in DOMAIN Files /\ Usable(f) /\ EvaluatePolicy(tool, p, args, r.model) = "ALLOW"
  BY RecordedIs DEF Decision
<1>2. CASE Ruling(pack, tool, args) = {}
  BY <1>2 DEF Lets
<1>3. CASE Ruling(pack, tool, args) # {}
  <2>1. Ruling(p.rules, tool, args) = Ruling(pack, tool, args)
    BY <1>1, <1>3, PackFirst
  <2>2. Sequence(p.rules)
    BY <1>1, LoadedPolicy
  <2>3. D # {} /\ Ruling(p.rules, tool, args) = {Verdict(p.rules[Min(D)], args)}
    BY <1>3, <2>1, <2>2, RulingIs
  <2>4. EvaluatePolicy(tool, p, args, r.model) =
          IF Guarded(p, args, r.model) THEN "BLOCK"
          ELSE IF StepsUp(p, tool) THEN "STEP_UP" ELSE Verdict(p.rules[Min(D)], args)
    BY <2>3 DEF EvaluatePolicy
  <2> HIDE DEF D
  <2>5. Verdict(p.rules[Min(D)], args) = "ALLOW"
    BY ONLY <1>1, <2>4
  <2> QED BY <2>1, <2>3, <2>5 DEF Lets
<1> QED BY <1>2, <1>3

LEMMA RulingHas ==
  ASSUME NEW s, Sequence(s), NEW tool, NEW args, "ALLOW" \in Ruling(s, tool, args)
  PROVE  /\ \E x \in ToSet(s) : x.tool = tool /\ x.decision = "ALLOW"
         /\ Ruling(s, tool, args) = {"ALLOW"}
<1> PICK m : m = Min(Deciding(s, tool, args))
  OBVIOUS
<1>1. Deciding(s, tool, args) # {} /\ Ruling(s, tool, args) = {Verdict(s[m], args)}
  BY RulingIs
<1>2. m \in Deciding(s, tool, args)
  BY <1>1, FirstDeciding
<1>3. s[m] \in ToSet(s) /\ s[m].tool = tool
  BY <1>2, ListingAt DEF Deciding
<1>4. Verdict(s[m], args) = "ALLOW"
  BY <1>1
<1>5. s[m].decision = "ALLOW"
  BY <1>4 DEF Verdict
<1> QED BY <1>1, <1>3, <1>4, <1>5

LEMMA LetsJoined ==
  ASSUME NEW s, Sequence(s), NEW t, Sequence(t), NEW tool, NEW args, Lets(s \o t, tool, args),
         \A x \in ToSet(s) : x.decision # "ALLOW"
  PROVE  Ruling(s, tool, args) = {} /\ Lets(t, tool, args)
<1>1. Ruling(s \o t, tool, args) = IF Ruling(s, tool, args) # {} THEN Ruling(s, tool, args) ELSE Ruling(t, tool, args)
  BY RulingJoined
<1>2. "ALLOW" \notin Ruling(s, tool, args)
  BY RulingHas
<1> QED BY <1>1, <1>2 DEF Lets

LEMMA SilentJoined ==
  ASSUME NEW s, Sequence(s), NEW t, Sequence(t), NEW tool, NEW args, Ruling(s \o t, tool, args) = {}
  PROVE  Ruling(s, tool, args) = {} /\ Ruling(t, tool, args) = {}
BY RulingJoined

\* Only the pack that sets limits on a payment ever allows it.
LEMMA OneAllows ==
  ASSUME NEW e \in DOMAIN Enforces, NEW tool \in Enforces[e], NEW id, <<id, tool>> \in Allows
  PROVE  id = e
<1>1. DOMAIN Enforces = {"stripe", "ach", "upi", "openclaw"}
  BY DEF Enforces
<1>2. \/ id = "stripe" /\ tool = "stripe_delete_customer"
      \/ id = "ach" /\ tool = "ach_transfer"
      \/ id = "openclaw" /\ tool \in {"openclaw.agent.checkout.escrow.release", "openclaw.agent.checkout.escrow.refund"}
  BY DEF Allows
<1>3. CASE e = "stripe"
  <2>1. tool \in {"stripe_charge", "stripe_create_charge", "stripe_transfer", "stripe_payout", "stripe_refund",
                   "stripe_delete_customer"}
    BY <1>3 DEF Enforces, ChargeTools
  <2> QED BY ONLY <1>2, <1>3, <2>1
<1>4. CASE e = "ach"
  <2>1. tool = "ach_transfer"
    BY <1>4 DEF Enforces
  <2> QED BY ONLY <1>2, <1>4, <2>1
<1>5. CASE e = "upi"
  <2>1. tool \in {"upi_payment", "upi_transfer"}
    BY <1>5 DEF Enforces
  <2> QED BY ONLY <1>2, <1>5, <2>1
<1>6. CASE e = "openclaw"
  <2>1. tool \in {"openclaw.agent.transfer", "openclaw.agent.swap"}
    BY <1>6 DEF Enforces
  <2> QED BY ONLY <1>2, <1>6, <2>1
<1> QED BY <1>1, <1>3, <1>4, <1>5, <1>6

\* If the packs together let a call pass, so does the one that sets its limits.
LEMMA FromPack ==
  ASSUME NEW schemas, Sequence(schemas), ToSet(schemas) \subseteq DOMAIN SCHEMA_PACKS,
         NEW e \in ToSet(schemas) \cap DOMAIN Enforces, NEW tool \in Enforces[e], NEW args,
         Lets(PackRules(schemas), tool, args)
  PROVE  Lets(SCHEMA_PACKS[e], tool, args)
<1> DEFINE R(s) == Ruling(s, tool, args)
<1> PICK ids, N : ids = PackIds(schemas) /\ N = Len(ids)
  OBVIOUS
<1>1. /\ N \in Nat /\ (\A n \in 1 .. N : ids[n] \in DOMAIN SCHEMA_PACKS)
      /\ \E n \in 1 .. N : ids[n] = e
  BY PackIdsAre, ListingAt
<1>2. PICK g : Gathers(g, schemas)
  BY PackRulesAre
<1>3. /\ g[0] = << >> /\ PackRules(schemas) = g[N]
      /\ (\A n \in 1 .. N : g[n] = g[n-1] \o SCHEMA_PACKS[ids[n]])
      /\ \A n \in 0 .. N : Sequence(g[n])
  BY <1>2 DEF Gathers
<1>4. Sequence(SCHEMA_PACKS[e])
  BY PacksAre
<1> DEFINE Fine(n) == /\ "ALLOW" \in R(g[n]) => "ALLOW" \in R(SCHEMA_PACKS[e])
                      /\ R(g[n]) = {} => \A k \in 1 .. n : R(SCHEMA_PACKS[ids[k]]) = {}
           T == {n \in 0 .. N : Fine(n)}
<1>5. 0 .. N \subseteq T
  <2>1. 0 \in T
    <3>1. R(g[0]) = {} /\ 1 .. 0 = {}
      BY <1>3, RulingOfEmpty
    <3>2. Fine(0)
      BY <3>1
    <3> HIDE DEF Fine
    <3> QED BY <1>1, <3>2
  <2>2. ASSUME NEW n \in 1 .. N, n - 1 \in T PROVE n \in T
    <3> PICK id, q, s, t, m : id = ids[n] /\ s = SCHEMA_PACKS[id] /\ q = g[n-1] /\ t = g[n] /\ m = n - 1
      OBVIOUS
    <3>1. Fine(m) /\ n \in 0 .. N /\ m \in 0 .. N /\ \A k \in 1 .. n : k \in 1 .. m \/ k = n
      <4>1. m \in T
        BY <2>2
      <4>2. n \in 0 .. N /\ m \in 0 .. N /\ \A k \in 1 .. n : k \in 1 .. m \/ k = n
        BY ONLY <1>1, n \in 1 .. N, m = n - 1
      <4> HIDE DEF Fine
      <4> QED BY <4>1, <4>2
    <3>2. Sequence(q) /\ t = q \o s /\ id \in DOMAIN SCHEMA_PACKS
      BY <1>1, <1>3, <3>1
    <3>3. Sequence(s) /\ \A x \in ToSet(s) : x.decision = "ALLOW" => <<id, x.tool>> \in Allows
      BY <3>2, PacksAre
    <3>4. R(t) = IF R(q) # {} THEN R(q) ELSE R(s)
      BY ONLY <3>2, <3>3, RulingJoined
    <3>5. "ALLOW" \in R(s) => "ALLOW" \in R(SCHEMA_PACKS[e])
      <4> SUFFICES ASSUME "ALLOW" \in R(s) PROVE "ALLOW" \in R(SCHEMA_PACKS[e])
        OBVIOUS
      <4>1. PICK x \in ToSet(s) : x.tool = tool /\ x.decision = "ALLOW"
        BY <3>3, RulingHas
      <4>2. id = e
        BY <3>3, <4>1, OneAllows
      <4> QED BY <4>2
    <3> HIDE DEF R
    <3>6. Fine(n)
      <4>1. "ALLOW" \in R(t) => "ALLOW" \in R(SCHEMA_PACKS[e])
        BY <3>1, <3>4, <3>5
      <4>2. R(t) = {} => \A k \in 1 .. n : R(SCHEMA_PACKS[ids[k]]) = {}
        BY <3>1, <3>4
      <4> QED BY <4>1, <4>2
    <3> HIDE DEF Fine
    <3> QED BY <3>1, <3>6
  <2> HIDE DEF T
  <2> QED BY <1>1, <2>1, <2>2, CountInduction
<1>6. Fine(N)
  <2> HIDE DEF Fine
  <2> QED BY <1>1, <1>5
<1>7. CASE "ALLOW" \in R(g[N])
  <2>1. "ALLOW" \in R(SCHEMA_PACKS[e])
    BY <1>6, <1>7
  <2> QED BY <1>4, <2>1, RulingHas DEF Lets
<1>8. CASE R(g[N]) = {}
  <2>1. R(SCHEMA_PACKS[e]) = {}
    BY <1>1, <1>6, <1>8
  <2> QED BY <2>1 DEF Lets
<1>9. R(g[N]) \subseteq {"ALLOW"}
  BY <1>3 DEF Lets
<1> HIDE DEF R
<1> QED BY <1>7, <1>8, <1>9

\* What a field of the arguments of a call may hold.
LEMMA FieldIs ==
  ASSUME NEW call \in Calls \cup Probes, NEW field
  PROVE  GetField(call.args, <<field>>).n \in Int /\ call.args # NotGiven
<1> PICK args, v : args = call.args /\ v = GetField(args, <<field>>)
  OBVIOUS
<1>1. args.type = "object" /\ \A f \in DOMAIN args.fields : args.fields[f].n \in Int
  BY CallsAssumption
<1>2. v = Traverse(args, field)
  <2> DEFINE Whole(c) == [n \in 0 .. 1 |-> IF n = 0 THEN args ELSE Traverse(c[n-1], <<field>>[n])]
             at == CHOOSE c : c = Whole(c)
             w == [n \in 0 .. 1 |-> IF n = 0 THEN args ELSE Traverse(args, field)]
  <2>1. w = Whole(w)
    OBVIOUS
  <2>2. at = Whole(at)
    <3> HIDE DEF Whole, w
    <3> QED BY <2>1
  <2>3. Len(<<field>>) = 1 /\ ~ (1 > MAX_DEPTH) /\ <<field>>[1] = field
    BY DEF MAX_DEPTH
  <2>4. v = at[1]
    BY <2>3 DEF GetField
  <2> HIDE DEF at
  <2>5. at[0] = args
    BY ONLY <2>2
  <2>6. at[1] = Traverse(at[0], <<field>>[1])
    BY ONLY <2>2
  <2> QED BY <2>3, <2>4, <2>5, <2>6
<1>3. Absent.type = "absent" /\ Absent.n = 0 /\ NotGiven.type = "not given"
  BY DEF Absent, NotGiven, Value
<1>4. v = IF field \in DOMAIN args.fields THEN args.fields[field] ELSE Absent
  BY <1>1, <1>2 DEF Traverse
<1>5. ASSUME field \in DOMAIN args.fields PROVE v.n \in Int
  <2>1. v = args.fields[field]
    BY <1>4, <1>5
  <2>2. v.n \in Int
    BY <1>1, <1>5, <2>1
  <2> QED BY <2>2
<1>6. ASSUME field \notin DOMAIN args.fields PROVE v.n \in Int
  <2>1. v.n = 0
    BY <1>3, <1>4, <1>6
  <2>2. v.n \in Int
    BY <2>1
  <2> QED BY <2>2
<1>7. call.args # NotGiven
  BY <1>1, <1>3
<1> QED BY <1>5, <1>6, <1>7

LEMMA OneCondition ==
  ASSUME NEW c, NEW args
  PROVE  EvaluateParams(<<c>>, args) = EvaluateCondition(c, args)
<1> DEFINE bad == {i \in DOMAIN <<c>> : EvaluateCondition(<<c>>[i], args) # "match"}
<1>1. DOMAIN <<c>> = {1} /\ <<c>>[1] = c
  OBVIOUS
<1>2. CASE EvaluateCondition(c, args) = "match"
  <2>1. bad = {}
    BY <1>1, <1>2
  <2> QED BY <1>2, <2>1 DEF EvaluateParams
<1>3. CASE EvaluateCondition(c, args) # "match"
  <2>1. bad = {1}
    BY <1>1, <1>3
  <2>2. Min({1}) = 1
    BY DEF Min
  <2>3. EvaluateParams(<<c>>, args) = EvaluateCondition(<<c>>[Min(bad)], args)
    BY <2>1 DEF EvaluateParams
  <2> HIDE DEF bad
  <2> QED BY <1>1, <2>1, <2>2, <2>3
<1> QED BY <1>2, <1>3

LEMMA ConditionSays ==
  ASSUME NEW field, NEW op, NEW value, NEW args
  PROVE  LET c == Condition(field, op, value)
             v == GetField(args, <<field>>)
         IN  /\ EvaluateCondition(c, args) \in {"match", "no_match", "type_error"}
             /\ EvaluateCondition(c, args) = "no_match" /\ v # Absent =>
                  op # "exists" /\ ~TypeMismatch(op, v, value) /\ ~Satisfied(op, v, value)
             /\ EvaluateCondition(c, args) = "no_match" /\ v = Absent => op # "not_exists"
             /\ EvaluateCondition(c, args) = "match" /\ op = "eq" => v # Absent /\ Satisfied(op, v, value)
             /\ v # Absent /\ v # DeadEnd /\ ~TypeMismatch(op, v, value) /\ Satisfied(op, v, value) =>
                  EvaluateCondition(c, args) = "match"
<1> PICK c, v : c = Condition(field, op, value) /\ v = GetField(args, <<field>>)
  OBVIOUS
<1>1. c.field = <<field>> /\ c.op = op /\ c.value = value
  BY DEF Condition
<1>2. EvaluateCondition(c, args) =
        IF v = DeadEnd \/ (v # Absent /\ TypeMismatch(op, v, value)) THEN "type_error"
        ELSE IF (IF v = Absent THEN op = "not_exists" ELSE op = "exists" \/ Satisfied(op, v, value))
        THEN "match" ELSE "no_match"
  BY <1>1 DEF EvaluateCondition
<1> QED BY ONLY <1>2, c = Condition(field, op, value) /\ v = GetField(args, <<field>>)

\* A rule of one condition.
LEMMA GuardSays ==
  ASSUME NEW rule, NEW c, rule.params = <<c>>, NEW args, args # NotGiven
  PROVE  Says(rule, args) = EvaluateCondition(c, args)
<1>1. <<c>> # << >>
  OBVIOUS
<1>2. Says(rule, args) = EvaluateParams(rule.params, args)
  BY <1>1 DEF Says
<1> QED BY <1>2, OneCondition

LEMMA SilentRules ==
  ASSUME NEW s, Sequence(s), NEW tool, NEW args, Ruling(s, tool, args) = {}, NEW x \in ToSet(s), x.tool = tool
  PROVE  ~Fires(x, args)
<1>1. Deciding(s, tool, args) = {}
  BY RulingIs
<1>2. PICK i \in DOMAIN s : s[i] = x
  BY ListingAt
<1> QED BY <1>1, <1>2 DEF Deciding, Fires

\* What a guard that stays silent says of the argument it looks at.
LEMMA SilentMissing ==
  ASSUME NEW tool, NEW d, NEW field, NEW args, args # NotGiven, ~Fires(Missing(tool, d, field), args)
  PROVE  GetField(args, <<field>>) # Absent
<1> PICK c : c = Condition(field, "not_exists", Absent)
  OBVIOUS
<1>1. Missing(tool, d, field).params = <<c>>
  BY DEF Missing, Guard, Rule
<1>2. EvaluateCondition(c, args) \notin {"match", "type_error"}
  BY <1>1, GuardSays DEF Fires
<1> QED BY <1>2, ConditionSays

LEMMA SilentEmpty ==
  ASSUME NEW tool, NEW d, NEW field, NEW args, args # NotGiven, ~Fires(Empty(tool, d, field), args),
         GetField(args, <<field>>) # Absent
  PROVE  GetField(args, <<field>>) # Text("")
<1> PICK c, v : c = Condition(field, "eq", Text("")) /\ v = GetField(args, <<field>>)
  OBVIOUS
<1>1. Empty(tool, d, field).params = <<c>>
  BY DEF Empty, Guard, Rule
<1>2. EvaluateCondition(c, args) \notin {"match", "type_error"}
  BY <1>1, GuardSays DEF Fires
<1>3. ~Satisfied("eq", v, Text(""))
  BY <1>2, ConditionSays
<1>4. Text("").type = "string"
  BY DEF Text, Value
<1> QED BY <1>3, <1>4 DEF Satisfied, SameValue

LEMMA SilentUnlisted ==
  ASSUME NEW tool, NEW field, NEW list, list.type = "list", NEW args, args # NotGiven, ~Fires(Unlisted(tool, field, list), args),
         GetField(args, <<field>>) # Absent
  PROVE  GetField(args, <<field>>) \in list.items
<1> PICK c, v : c = Condition(field, "not_in", list) /\ v = GetField(args, <<field>>)
  OBVIOUS
<1>1. Unlisted(tool, field, list).params = <<c>>
  BY DEF Unlisted, Guard, Rule
<1>2. EvaluateCondition(c, args) \notin {"match", "type_error"}
  BY <1>1, GuardSays DEF Fires
<1>3. ~Satisfied("not_in", v, list)
  BY <1>2, ConditionSays
<1>4. list.type = "list"
  OBVIOUS
<1>5. \E x \in list.items : SameValue(v, x)
  BY <1>3, <1>4 DEF Satisfied
<1> QED BY <1>5 DEF SameValue

LEMMA AllowlistIs == Allowlist.type = "list" /\ Allowlist.items = {Listed}
BY DEF Allowlist, List

LEMMA SilentPattern ==
  ASSUME NEW tool, NEW d, NEW field, NEW name \in Patterns, NEW args, args # NotGiven,
         ~Fires(Guard(tool, d, field, "not_match", Pattern(name)), args), GetField(args, <<field>>) # Absent
  PROVE  GetField(args, <<field>>).type = "string" /\ Matches(name, GetField(args, <<field>>))
<1> PICK c, v : c = Condition(field, "not_match", Pattern(name)) /\ v = GetField(args, <<field>>)
  OBVIOUS
<1>1. Guard(tool, d, field, "not_match", Pattern(name)).params = <<c>>
  BY DEF Guard, Rule
<1>2. EvaluateCondition(c, args) \notin {"match", "type_error"}
  BY <1>1, GuardSays DEF Fires
<1>3. ~Satisfied("not_match", v, Pattern(name)) /\ ~TypeMismatch("not_match", v, Pattern(name))
  BY <1>2, ConditionSays
<1>4. Pattern(name).text = name
  BY DEF Pattern, Text, Value
<1>5. Matches(name, v)
  BY <1>3, <1>4 DEF Satisfied
<1>6. v.type = "string"
  BY <1>3 DEF TypeMismatch
<1> QED BY <1>5, <1>6

LEMMA SilentOver ==
  ASSUME NEW tool, NEW d, NEW field, NEW n \in Int, NEW args, args # NotGiven,
         GetField(args, <<field>>) # Absent, GetField(args, <<field>>).n \in Int
  PROVE  /\ ~Fires(Over(tool, d, field, n), args) =>
              GetField(args, <<field>>).type = "number" /\ GetField(args, <<field>>).n <= n
         /\ ~Fires(OverDigits(tool, d, field, n), args) => GetField(args, <<field>>).n <= n
<1> PICK v : v = GetField(args, <<field>>)
  OBVIOUS
<1>1. ASSUME ~Fires(Over(tool, d, field, n), args) PROVE v.type = "number" /\ v.n <= n
  <2> PICK c : c = Condition(field, "gt", Number(n))
    OBVIOUS
  <2>1. Over(tool, d, field, n).params = <<c>>
    BY DEF Over, Guard, Rule
  <2>2. EvaluateCondition(c, args) \notin {"match", "type_error"}
    BY <1>1, <2>1, GuardSays DEF Fires
  <2>3. ~Satisfied("gt", v, Number(n)) /\ ~TypeMismatch("gt", v, Number(n))
    BY <2>2, ConditionSays
  <2>4. Number(n).n = n
    BY DEF Number, Value
  <2>5. ~ (v.n > n)
    BY <2>3, <2>4 DEF Satisfied
  <2>6. v.type = "number"
    BY <2>3 DEF TypeMismatch, Comparisons
  <2> QED BY <2>5, <2>6
<1>2. ASSUME ~Fires(OverDigits(tool, d, field, n), args) PROVE v.n <= n
  <2> PICK c : c = Condition(field, "gt_bigint", Digits(n))
    OBVIOUS
  <2>1. OverDigits(tool, d, field, n).params = <<c>>
    BY DEF OverDigits, Guard, Rule
  <2>2. EvaluateCondition(c, args) \notin {"match", "type_error"}
    BY <1>2, <2>1, GuardSays DEF Fires
  <2>3. ~Satisfied("gt_bigint", v, Digits(n))
    BY <2>2, ConditionSays
  <2>4. Digits(n).n = n
    BY DEF Digits, Value
  <2>5. ~ (v.n > n)
    BY <2>3, <2>4 DEF Satisfied
  <2> QED BY <2>5
<1> QED BY <1>1, <1>2


LEMMA SilentDigits ==
  ASSUME NEW s, Sequence(s), NEW tool, NEW args, args # NotGiven, Ruling(s, tool, args) = {},
         NEW field, NEW d, Missing(tool, d, field) \in ToSet(s), GetField(args, <<field>>).n \in Int,
         NEW name \in {"integer", "positive"}, NEW e, Guard(tool, e, field, "not_match", Pattern(name)) \in ToSet(s),
         NEW n \in Int, NEW b, OverDigits(tool, b, field, n) \in ToSet(s)
  PROVE  UpTo(GetField(args, <<field>>), n) /\ Matches(name, GetField(args, <<field>>))
<1> PICK v : v = GetField(args, <<field>>)
  OBVIOUS
<1>1. \A x \in ToSet(s) : x.tool = tool => ~Fires(x, args)
  BY SilentRules
<1>2. v # Absent
  <2>1. ~Fires(Missing(tool, d, field), args)
    BY <1>1, GuardsHave
  <2> QED BY <2>1, SilentMissing
<1>3. v.type = "string" /\ Matches(name, v)
  <2>1. ~Fires(Guard(tool, e, field, "not_match", Pattern(name)), args)
    BY <1>1, GuardsHave
  <2>2. name \in Patterns
    BY DEF Patterns
  <2> QED BY <1>2, <2>1, <2>2, SilentPattern
<1>4. v.n <= n
  <2>1. ~Fires(OverDigits(tool, b, field, n), args)
    BY <1>1, GuardsHave
  <2> QED BY <1>2, <2>1, SilentOver
<1>5. v.text = "digits"
  BY <1>3 DEF Matches
<1> QED BY <1>3, <1>4, <1>5 DEF UpTo

LEMMA SilentNumber ==
  ASSUME NEW s, Sequence(s), NEW tool, NEW args, args # NotGiven, Ruling(s, tool, args) = {},
         NEW field, NEW d, Missing(tool, d, field) \in ToSet(s), GetField(args, <<field>>).n \in Int,
         NEW n \in Int, NEW b, Over(tool, b, field, n) \in ToSet(s)
  PROVE  GetField(args, <<field>>).type = "number" /\ GetField(args, <<field>>).n <= n
<1>1. \A x \in ToSet(s) : x.tool = tool => ~Fires(x, args)
  BY SilentRules
<1>2. ~Fires(Missing(tool, d, field), args) /\ ~Fires(Over(tool, b, field, n), args)
  BY <1>1, GuardsHave
<1>3. GetField(args, <<field>>) # Absent
  BY <1>2, SilentMissing
<1> QED BY <1>2, <1>3, SilentOver

LEMMA SilentParty ==
  ASSUME NEW s, Sequence(s), NEW tool, NEW args, args # NotGiven, Ruling(s, tool, args) = {},
         NEW field, NEW d, Missing(tool, d, field) \in ToSet(s),
         NEW list, list.type = "list", Unlisted(tool, field, list) \in ToSet(s)
  PROVE  GetField(args, <<field>>) \in list.items
<1>1. \A x \in ToSet(s) : x.tool = tool => ~Fires(x, args)
  BY SilentRules
<1>2. ~Fires(Missing(tool, d, field), args) /\ ~Fires(Unlisted(tool, field, list), args)
  BY <1>1, GuardsHave
<1>3. GetField(args, <<field>>) # Absent
  BY <1>2, SilentMissing
<1> QED BY <1>2, <1>3, SilentUnlisted

LEMMA SilentGiven ==
  ASSUME NEW s, Sequence(s), NEW tool, NEW args, args # NotGiven, Ruling(s, tool, args) = {},
         NEW field, Missing(tool, "BLOCK", field) \in ToSet(s), Empty(tool, "BLOCK", field) \in ToSet(s)
  PROVE  Given(GetField(args, <<field>>))
<1>1. \A x \in ToSet(s) : x.tool = tool => ~Fires(x, args)
  BY SilentRules
<1>2. ~Fires(Missing(tool, "BLOCK", field), args) /\ ~Fires(Empty(tool, "BLOCK", field), args)
  BY <1>1, GuardsHave
<1>3. GetField(args, <<field>>) # Absent
  BY <1>2, SilentMissing
<1>4. GetField(args, <<field>>) # Text("")
  BY <1>2, <1>3, SilentEmpty
<1> QED BY <1>3, <1>4 DEF Given

\* The first rule that decides allows the call.
LEMMA FirstLets ==
  ASSUME NEW s, Sequence(s), NEW tool, NEW args, Lets(s, tool, args), NEW m \in DOMAIN s,
         \A j \in DOMAIN s : j < m => ~Fires(s[j], args), s[m].tool = tool, Fires(s[m], args)
  PROVE  s[m].decision = "ALLOW" /\ Says(s[m], args) = "match"
<1> DEFINE D == Deciding(s, tool, args)
<1>1. D = {i \in DOMAIN s : s[i].tool = tool /\ Fires(s[i], args)} /\ DOMAIN s \subseteq Int
  BY ListingAt DEF Deciding, Fires
<1> HIDE DEF D
<1>2. m \in D /\ \A j \in D : m <= j
  <2>1. m \in D
    BY <1>1
  <2>2. ASSUME NEW j \in D PROVE m <= j
    <3>1. ~ (j < m) /\ j \in Int /\ m \in Int
      BY <1>1
    <3> QED BY ONLY <3>1
  <2> QED BY <2>1, <2>2
<1>3. Ruling(s, tool, args) = {Verdict(s[m], args)}
  <2>1. Least(m, Deciding(s, tool, args))
    BY ONLY <1>2 DEF D, Least
  <2> QED BY ONLY Sequence(s), <2>1, RulingBy
<1>4. Verdict(s[m], args) = "ALLOW"
  BY <1>3 DEF Lets
<1> QED BY <1>4 DEF Verdict, Fires

LEMMA AllMatch ==
  ASSUME NEW conditions, Sequence(conditions), NEW args, EvaluateParams(conditions, args) = "match",
         NEW i \in DOMAIN conditions
  PROVE  EvaluateCondition(conditions[i], args) = "match"
<1> DEFINE bad == {k \in DOMAIN conditions : EvaluateCondition(conditions[k], args) # "match"}
<1>1. SUFFICES ASSUME bad # {} PROVE FALSE
  OBVIOUS
<1>2. bad \in SUBSET Nat
  BY ListingAt
<1>3. Min(bad) \in bad
  <2> HIDE DEF bad
  <2>1. \E m \in bad : \A n \in bad : m <= n
    BY <1>1, <1>2, LeastNumber
  <2> QED BY <2>1 DEF Min
<1>4. EvaluateParams(conditions, args) = EvaluateCondition(conditions[Min(bad)], args)
  BY <1>1 DEF EvaluateParams
<1>5. EvaluateCondition(conditions[Min(bad)], args) # "match"
  BY <1>3
<1> QED BY <1>4, <1>5

LEMMA EqMatches ==
  ASSUME NEW field, NEW value, NEW args, EvaluateCondition(Condition(field, "eq", value), args) = "match"
  PROVE  GetField(args, <<field>>) = value
<1> PICK v : v = GetField(args, <<field>>)
  OBVIOUS
<1>1. Satisfied("eq", v, value)
  BY ConditionSays
<1>2. SameValue(v, value)
  BY <1>1 DEF Satisfied
<1> QED BY <1>2 DEF SameValue

LEMMA EqHolds ==
  ASSUME NEW field, NEW value, NEW args, GetField(args, <<field>>) = value,
         value.type \notin {"object", "array"}, value # Absent, value # DeadEnd
  PROVE  EvaluateCondition(Condition(field, "eq", value), args) = "match"
<1> PICK v : v = GetField(args, <<field>>)
  OBVIOUS
<1>1. ~TypeMismatch("eq", v, value)
  BY DEF TypeMismatch, Comparisons
<1>2. SameValue(v, value)
  BY DEF SameValue
<1>3. Satisfied("eq", v, value)
  BY <1>2 DEF Satisfied
<1> QED BY <1>1, <1>3, ConditionSays

-----------------------------------------------------------------------------
(* The payments that each pack lets pass *)

LEMMA StripeSilent ==
  ASSUME NEW tool, NEW args, Lets(SCHEMA_PACKS["stripe"], tool, args)
  PROVE  /\ Ruling(StripeCharge, tool, args) = {}
         /\ Ruling(StripeRefund, tool, args) = {} /\ Ruling(StripeOut("stripe_transfer"), tool, args) = {}
         /\ Ruling(StripeOut("stripe_payout"), tool, args) = {} /\ Lets(StripeCustomer, tool, args)
<1> PICK a, b, c, d, e, f :
      a = StripeCharge /\ b = StripeRefund /\ c = StripeUpdate /\ d = StripeOut("stripe_transfer")
      /\ e = StripeOut("stripe_payout") /\ f = StripeCustomer
  OBVIOUS
<1> DEFINE Denies(s) == Sequence(s) /\ \A x \in ToSet(s) : x.decision # "ALLOW"
<1>1. Denies(a) /\ Denies(b) /\ Denies(c) /\ Denies(d) /\ Denies(e)
  BY StripeChargeIs, StripeRefundIs, StripeUpdateIs, StripeOutIs
<1>2. Sequence(f)
  BY StripeCustomerIs
<1>3. SCHEMA_PACKS["stripe"] = (a \o b \o c \o d \o e) \o f
  BY DEF SCHEMA_PACKS, StripeEnforce, StripeTransfer, StripePayout
<1>4. ASSUME NEW s, NEW t, Denies(s), Denies(t) PROVE Denies(s \o t)
  <2>1. Sequence(s \o t) /\ ToSet(s \o t) = ToSet(s) \cup ToSet(t)
    BY ONLY <1>4, Joined
  <2> QED BY ONLY <1>4, <2>1
<1> HIDE DEF Denies
<1>5. Denies(a \o b)
  BY <1>1, <1>4
<1>6. Denies(a \o b \o c)
  BY <1>1, <1>4, <1>5
<1>7. Denies(a \o b \o c \o d)
  BY <1>1, <1>4, <1>6
<1>8. Denies(a \o b \o c \o d \o e)
  BY <1>1, <1>4, <1>7
<1>9. Ruling(a \o b \o c \o d \o e, tool, args) = {} /\ Lets(f, tool, args)
  <2> PICK s : s = a \o b \o c \o d \o e
    OBVIOUS
  <2>1. Sequence(s) /\ (\A x \in ToSet(s) : x.decision # "ALLOW") /\ Lets(s \o f, tool, args)
    BY <1>3, <1>8 DEF Denies
  <2>2. Ruling(s, tool, args) = {} /\ Lets(f, tool, args)
    BY ONLY <1>2, <2>1, LetsJoined
  <2> QED BY <2>2
<1>10. ASSUME NEW s, NEW t, Denies(s), Denies(t), Ruling(s \o t, tool, args) = {}
       PROVE  Ruling(s, tool, args) = {} /\ Ruling(t, tool, args) = {}
  BY ONLY <1>10, SilentJoined DEF Denies
<1>11. Ruling(a \o b \o c \o d, tool, args) = {} /\ Ruling(e, tool, args) = {}
  BY ONLY <1>1, <1>7, <1>9, <1>10
<1>12. Ruling(a \o b \o c, tool, args) = {} /\ Ruling(d, tool, args) = {}
  BY ONLY <1>1, <1>6, <1>10, <1>11
<1>13. Ruling(a \o b, tool, args) = {}
  BY ONLY <1>1, <1>5, <1>10, <1>12
<1>14. Ruling(a, tool, args) = {} /\ Ruling(b, tool, args) = {}
  BY ONLY <1>1, <1>10, <1>13
<1> QED BY <1>9, <1>11, <1>12, <1>14

LEMMA ChargeGuards ==
  /\ Sequence(StripeCharge)
  /\ \A tool \in ChargeTools : Over(tool, "STEP_UP", "amount", 50000) \in ToSet(StripeCharge)
  /\ Unlisted("stripe_charge", "currency", OneOf(Currencies)) \in ToSet(StripeCharge)
<1> DEFINE s == <<Over("stripe_charge", "BLOCK", "amount", 100000),
                 Over("stripe_charge", "STEP_UP", "amount", 50000),
                 Unlisted("stripe_charge", "currency", OneOf({"usd", "eur", "gbp", "jpy", "cad", "aud"})),
                 Over("stripe_create_charge", "BLOCK", "amount", 100000),
                 Over("stripe_create_charge", "STEP_UP", "amount", 50000)>>
<1>1. s = StripeCharge /\ Sequence(StripeCharge)
  BY StripeChargeIs DEF StripeCharge
<1>2. Len(s) = 5
  OBVIOUS
<1>3. s[2] = Over("stripe_charge", "STEP_UP", "amount", 50000)
  OBVIOUS
<1>4. s[3] = Unlisted("stripe_charge", "currency", OneOf({"usd", "eur", "gbp", "jpy", "cad", "aud"}))
  OBVIOUS
<1>5. s[5] = Over("stripe_create_charge", "STEP_UP", "amount", 50000)
  OBVIOUS
<1> HIDE DEF s
<1>6. s[2] \in ToSet(s) /\ s[3] \in ToSet(s) /\ s[5] \in ToSet(s)
  <2>1. \A i \in 1 .. 5 : s[i] \in ToSet(s)
    BY ONLY <1>1, <1>2, ListingAt
  <2>2. 2 \in 1 .. 5 /\ 3 \in 1 .. 5 /\ 5 \in 1 .. 5
    OBVIOUS
  <2> QED BY ONLY <2>1, <2>2
<1>7. Currencies = {"usd", "eur", "gbp", "jpy", "cad", "aud"} /\ ChargeTools = {"stripe_charge", "stripe_create_charge"}
  BY DEF Currencies, ChargeTools
<1>8. ASSUME NEW tool \in ChargeTools PROVE Over(tool, "STEP_UP", "amount", 50000) \in ToSet(s)
  <2>1. tool = "stripe_charge" \/ tool = "stripe_create_charge"
    BY ONLY <1>7, <1>8
  <2> QED BY ONLY <1>3, <1>5, <1>6, <2>1
<1>9. Unlisted("stripe_charge", "currency", OneOf(Currencies)) \in ToSet(s)
  BY ONLY <1>4, <1>6, <1>7
<1> QED BY ONLY <1>1, <1>8, <1>9

LEMMA ChargeLimits ==
  ASSUME NEW args, args # NotGiven, \A field : GetField(args, <<field>>).n \in Int,
         NEW tool \in ChargeTools, Lets(SCHEMA_PACKS["stripe"], tool, args)
  PROVE  /\ GetField(args, <<"amount">>) = Absent \/ AtMost(GetField(args, <<"amount">>), 50000)
         /\ tool = "stripe_charge" =>
              GetField(args, <<"currency">>) \in {Absent} \cup {Text(c) : c \in Currencies}
<1> PICK s, list : s = StripeCharge /\ list = OneOf(Currencies)
  OBVIOUS
<1>1. Sequence(s) /\ \A x \in ToSet(s) : x.tool = tool => ~Fires(x, args)
  <2>1. Ruling(s, tool, args) = {} /\ Sequence(s)
    BY StripeSilent, ChargeGuards
  <2> QED BY <2>1, SilentRules
<1>2. ~Fires(Over(tool, "STEP_UP", "amount", 50000), args)
  <2> PICK x : x = Over(tool, "STEP_UP", "amount", 50000)
    OBVIOUS
  <2>1. x \in ToSet(s)
    BY ChargeGuards
  <2>2. x.tool = tool
    BY ONLY x = Over(tool, "STEP_UP", "amount", 50000), GuardsHave
  <2> QED BY ONLY <1>1, <2>1, <2>2, x = Over(tool, "STEP_UP", "amount", 50000)
<1>3. ASSUME GetField(args, <<"amount">>) # Absent PROVE AtMost(GetField(args, <<"amount">>), 50000)
  <2>1. args # NotGiven /\ GetField(args, <<"amount">>).n \in Int /\ 50000 \in Int
    OBVIOUS
  <2>2. GetField(args, <<"amount">>).type = "number" /\ GetField(args, <<"amount">>).n <= 50000
    BY ONLY <1>2, <1>3, <2>1, SilentOver
  <2> QED BY ONLY <2>2 DEF AtMost
<1>4. list.type = "list" /\ list.items = {Text(c) : c \in Currencies}
  <2>1. list.type = "list"
    BY DEF OneOf, List
  <2>2. list.items = {Text(t) : t \in Currencies}
    BY DEF OneOf, List
  <2> QED BY ONLY <2>1, <2>2
<1>5. ASSUME tool = "stripe_charge", GetField(args, <<"currency">>) # Absent
      PROVE  GetField(args, <<"currency">>) \in {Text(c) : c \in Currencies}
  <2>1. ~Fires(Unlisted("stripe_charge", "currency", list), args)
    <3> PICK x : x = Unlisted("stripe_charge", "currency", list)
      OBVIOUS
    <3>1. x \in ToSet(s)
      BY ONLY ChargeGuards, s = StripeCharge /\ list = OneOf(Currencies), x = Unlisted("stripe_charge", "currency", list)
    <3>2. x.tool = "stripe_charge"
      BY ONLY x = Unlisted("stripe_charge", "currency", list), GuardsHave
    <3> QED BY ONLY <1>1, <1>5, <3>1, <3>2, x = Unlisted("stripe_charge", "currency", list)
  <2>2. args # NotGiven
    OBVIOUS
  <2>3. GetField(args, <<"currency">>) \in list.items
    BY ONLY <1>4, <1>5, <2>1, <2>2, SilentUnlisted
  <2> QED BY ONLY <1>4, <2>3
<1> QED BY ONLY <1>3, <1>5

LEMMA CustomerIsDeletedIf ==
  ASSUME NEW args, args # NotGiven, Lets(StripeCustomer, "stripe_delete_customer", args)
  PROVE  GetField(args, <<"allow_customer_delete">>) = True
<1> PICK s : s = StripeCustomer
  OBVIOUS
<1>1. Sequence(s) /\ Len(s) = 2 /\ s[1] = Guard("stripe_delete_customer", "ALLOW", "allow_customer_delete", "eq", True)
      /\ s[2] = Rule("stripe_delete_customer", "BLOCK", << >>)
  BY StripeCustomerIs DEF StripeCustomer
<1>2. DOMAIN s = 1 .. 2
  BY <1>1, ListingAt
<1> PICK c : c = Condition("allow_customer_delete", "eq", True)
  OBVIOUS
<1>3. Fires(s[1], args)
  <2> SUFFICES ASSUME ~Fires(s[1], args) PROVE FALSE
    OBVIOUS
  <2>1. Says(s[2], args) = "match"
    BY <1>1 DEF Says, Rule
  <2>2. \A j \in DOMAIN s : j < 2 => ~Fires(s[j], args)
    <3>1. \A j \in 1 .. 2 : j < 2 => j = 1
      OBVIOUS
    <3> QED BY <1>2, <3>1
  <2>3. 2 \in DOMAIN s /\ s[2].tool = "stripe_delete_customer" /\ Fires(s[2], args)
    BY <1>1, <1>2, <2>1, GuardsHave DEF Fires
  <2>4. s[2].decision = "ALLOW"
    BY <1>1, <2>2, <2>3, FirstLets
  <2>5. s[2].decision = "BLOCK"
    BY <1>1 DEF Rule
  <2> QED BY <2>4, <2>5
<1>4. Says(s[1], args) = "match"
  <2>1. \A j \in DOMAIN s : ~ (j < 1)
    BY <1>2
  <2>2. 1 \in DOMAIN s /\ s[1].tool = "stripe_delete_customer"
    BY <1>1, <1>2, GuardsHave
  <2> QED BY <1>1, <1>3, <2>1, <2>2, FirstLets
<1>5. s[1].params = <<c>>
  BY <1>1 DEF Guard, Rule
<1>6. EvaluateCondition(c, args) = "match"
  BY <1>4, <1>5, GuardSays
<1> QED BY <1>6, EqMatches

LEMMA StripeOutLimits ==
  ASSUME NEW args, args # NotGiven, \A field : GetField(args, <<field>>).n \in Int,
         NEW tool \in {"stripe_transfer", "stripe_payout"}, Lets(SCHEMA_PACKS["stripe"], tool, args)
  PROVE  GetField(args, <<"destination">>) = Listed /\ UpTo(GetField(args, <<"amount">>), 50000)
<1> PICK s : s = StripeOut(tool)
  OBVIOUS
<1>1. Ruling(s, tool, args) = {}
  BY StripeSilent
<1>2. Sequence(s) /\ Missing(tool, "BLOCK", "destination") \in ToSet(s) /\ Missing(tool, "STEP_UP", "amount") \in ToSet(s)
  BY ONLY StripeOutIs, s = StripeOut(tool)
<1>3. Unlisted(tool, "destination", Allowlist) \in ToSet(s)
  BY ONLY StripeOutIs, s = StripeOut(tool)
<1>4. /\ OverDigits(tool, "STEP_UP", "amount", 50000) \in ToSet(s)
      /\ Guard(tool, "STEP_UP", "amount", "not_match", Pattern("integer")) \in ToSet(s)
  BY ONLY StripeOutIs, s = StripeOut(tool)
<1>5. args # NotGiven /\ GetField(args, <<"amount">>).n \in Int /\ 50000 \in Int /\ "integer" \in {"integer", "positive"}
  OBVIOUS
<1>6. GetField(args, <<"destination">>) = Listed
  <2>1. GetField(args, <<"destination">>) \in Allowlist.items
    BY ONLY <1>1, <1>2, <1>3, <1>5, AllowlistIs, SilentParty
  <2> QED BY <2>1, AllowlistIs
<1>7. UpTo(GetField(args, <<"amount">>), 50000)
  BY ONLY <1>1, <1>2, <1>4, <1>5, SilentDigits
<1> QED BY <1>6, <1>7

LEMMA RefundIsOfCharge ==
  ASSUME NEW args, args # NotGiven, Lets(SCHEMA_PACKS["stripe"], "stripe_refund", args)
  PROVE  Given(GetField(args, <<"charge_id">>))
<1> PICK s, tool, field : s = StripeRefund /\ tool = "stripe_refund" /\ field = "charge_id"
  OBVIOUS
<1>1. Ruling(s, tool, args) = {}
  BY StripeSilent
<1>2. Sequence(s) /\ Missing(tool, "BLOCK", field) \in ToSet(s) /\ Empty(tool, "BLOCK", field) \in ToSet(s)
  BY ONLY StripeRefundIs, s = StripeRefund /\ tool = "stripe_refund" /\ field = "charge_id"
<1>3. Given(GetField(args, <<field>>))
  BY <1>1, <1>2, SilentGiven
<1> QED BY <1>3

LEMMA RefundLimits ==
  ASSUME NEW args, args # NotGiven, \A field : GetField(args, <<field>>).n \in Int,
         Lets(SCHEMA_PACKS["stripe"], "stripe_refund", args)
  PROVE  GetField(args, <<"amount">>).type = "number" /\ GetField(args, <<"amount">>).n <= 50000
<1> PICK s, tool : s = StripeRefund /\ tool = "stripe_refund"
  OBVIOUS
<1>1. Ruling(s, tool, args) = {}
  BY StripeSilent
<1>2. /\ Sequence(s)
      /\ Missing(tool, "STEP_UP", "amount") \in ToSet(s) /\ Over(tool, "STEP_UP", "amount", 50000) \in ToSet(s)
  BY ONLY StripeRefundIs, s = StripeRefund /\ tool = "stripe_refund"
<1>3. args # NotGiven /\ GetField(args, <<"amount">>).n \in Int /\ 50000 \in Int
  OBVIOUS
<1> QED BY ONLY <1>1, <1>2, <1>3, SilentNumber

LEMMA DeletionLimits ==
  ASSUME NEW args, args # NotGiven, Lets(SCHEMA_PACKS["stripe"], "stripe_delete_customer", args)
  PROVE  GetField(args, <<"allow_customer_delete">>) = True
BY StripeSilent, CustomerIsDeletedIf

LEMMA AchSilent ==
  ASSUME NEW tool, NEW args, Lets(SCHEMA_PACKS["ach"], tool, args)
  PROVE  Ruling(AchParties, tool, args) = {} /\ Ruling(AchAmount, tool, args) = {} /\ Lets(AchCode, tool, args)
<1> PICK a, b, c, s : a = AchParties /\ b = AchAmount /\ c = AchCode /\ s = a \o b
  OBVIOUS
<1>1. Sequence(a) /\ Sequence(b) /\ Sequence(c) /\ (\A x \in ToSet(a) : x.decision # "ALLOW") /\ \A x \in ToSet(b) : x.decision # "ALLOW"
  BY AchPartiesAre, AchAmountIs, AchCodeIs
<1>2. SCHEMA_PACKS["ach"] = s \o c
  BY DEF SCHEMA_PACKS, AchEnforce
<1>3. Sequence(s) /\ ToSet(s) = ToSet(a) \cup ToSet(b)
  BY <1>1, Joined
<1>4. \A x \in ToSet(s) : x.decision # "ALLOW"
  BY ONLY <1>1, <1>3
<1>5. Lets(s \o c, tool, args)
  BY <1>2
<1>6. Ruling(s, tool, args) = {} /\ Lets(c, tool, args)
  BY ONLY <1>1, <1>3, <1>4, <1>5, LetsJoined
<1>7. Ruling(a, tool, args) = {} /\ Ruling(b, tool, args) = {}
  BY <1>1, <1>6, SilentJoined
<1> QED BY <1>6, <1>7

LEMMA AchAmountLimits ==
  ASSUME NEW args, args # NotGiven, \A field : GetField(args, <<field>>).n \in Int,
         Lets(SCHEMA_PACKS["ach"], "ach_transfer", args)
  PROVE  /\ GetField(args, <<"routing_number">>) = Listed /\ GetField(args, <<"account_id">>) = Listed
         /\ UpTo(GetField(args, <<"amount">>), 100000) /\ GetField(args, <<"amount">>).n > 0
<1> PICK s, t, tool : s = AchParties /\ t = AchAmount /\ tool = "ach_transfer"
  OBVIOUS
<1>1. Ruling(s, tool, args) = {} /\ Ruling(t, tool, args) = {}
  BY AchSilent
<1>2. /\ Sequence(s)
      /\ \A field \in {"routing_number", "account_id"} :
            Missing(tool, "BLOCK", field) \in ToSet(s) /\ Unlisted(tool, field, Allowlist) \in ToSet(s)
  BY ONLY AchPartiesAre, s = AchParties /\ tool = "ach_transfer"
<1>3. /\ Sequence(t)
      /\ Missing(tool, "STEP_UP", "amount") \in ToSet(t) /\ OverDigits(tool, "STEP_UP", "amount", 100000) \in ToSet(t)
      /\ Guard(tool, "STEP_UP", "amount", "not_match", Pattern("positive")) \in ToSet(t)
  BY ONLY AchAmountIs, t = AchAmount /\ tool = "ach_transfer"
<1>4. args # NotGiven /\ GetField(args, <<"amount">>).n \in Int /\ 100000 \in Int /\ "positive" \in {"integer", "positive"}
  OBVIOUS
<1>5. ASSUME NEW field \in {"routing_number", "account_id"} PROVE GetField(args, <<field>>) = Listed
  <2>1. Missing(tool, "BLOCK", field) \in ToSet(s) /\ Unlisted(tool, field, Allowlist) \in ToSet(s) /\ Sequence(s)
    BY <1>2
  <2>2. GetField(args, <<field>>) \in Allowlist.items
    BY ONLY <1>1, <1>4, <2>1, AllowlistIs, SilentParty
  <2> QED BY <2>2, AllowlistIs
<1>6. UpTo(GetField(args, <<"amount">>), 100000) /\ Matches("positive", GetField(args, <<"amount">>))
  BY ONLY <1>1, <1>3, <1>4, SilentDigits
<1>7. GetField(args, <<"amount">>).n > 0
  BY <1>6 DEF Matches
<1> QED BY <1>5, <1>6, <1>7


LEMMA OneRule ==
  ASSUME NEW c, NEW args, args # NotGiven, NEW rule, rule.params = <<c>>, EvaluateCondition(c, args) = "match"
  PROVE  Fires(rule, args)
BY GuardSays DEF Fires

LEMMA AchCodeLimits ==
  ASSUME NEW args, args # NotGiven, Lets(SCHEMA_PACKS["ach"], "ach_transfer", args)
  PROVE  /\ GetField(args, <<"sec_code">>) = Text("CCD")
         /\ GetField(args, <<"direction">>) = Text("credit") => GetField(args, <<"auto_approve_credits">>) = True
<1> PICK s, tool : s = AchCode /\ tool = "ach_transfer"
  OBVIOUS
<1> PICK credit, auto : credit = Condition("direction", "eq", Text("credit")) /\ auto = Condition("auto_approve_credits", "eq", True)
  OBVIOUS
<1>1. /\ Sequence(s) /\ Len(s) = 5 /\ s[1] = Missing(tool, "BLOCK", "sec_code") /\ s[2] = Blank(tool, "BLOCK", "sec_code")
      /\ s[3] = Unlisted(tool, "sec_code", OneOf({"CCD"}))
      /\ s[4] = Rule(tool, "ALLOW", <<credit, auto>>) /\ s[5] = Rule(tool, "STEP_UP", <<credit>>)
  BY AchCodeIs DEF AchCode
<1>2. DOMAIN s = 1 .. 5 /\ \A j \in 1 .. 5 : s[j] \in ToSet(s)
  BY <1>1, ListingAt
<1>3. Lets(s, tool, args) /\ \A j \in 1 .. 5 : s[j].tool = tool
  BY <1>2, AchSilent, AchCodeIs
<1>4. s[1].decision # "ALLOW" /\ s[2].decision # "ALLOW" /\ s[3].decision # "ALLOW" /\ s[5].decision # "ALLOW"
  <2>1. s[1].decision = "BLOCK" /\ s[2].decision = "BLOCK"
    BY ONLY <1>1, GuardsHave
  <2>2. s[3].decision = "BLOCK"
    BY ONLY <1>1, GuardsHave
  <2>3. s[5].decision = "STEP_UP"
    BY ONLY <1>1, GuardsHave
  <2> QED BY ONLY <2>1, <2>2, <2>3
<1>5. ASSUME NEW m \in 1 .. 5, \A j \in 1 .. 5 : j < m => ~Fires(s[j], args), Fires(s[m], args)
      PROVE  s[m].decision = "ALLOW" /\ Says(s[m], args) = "match"
  BY ONLY <1>1, <1>2, <1>3, <1>5, FirstLets
<1>6. ~Fires(s[1], args)
  <2>1. \A j \in 1 .. 5 : ~ (j < 1)
    OBVIOUS
  <2> QED BY <1>4, <1>5, <2>1
<1>7. ~Fires(s[2], args)
  <2>1. \A j \in 1 .. 5 : j < 2 => j = 1
    OBVIOUS
  <2> QED BY <1>4, <1>5, <1>6, <2>1
<1>8. ~Fires(s[3], args)
  <2>1. \A j \in 1 .. 5 : j < 3 => j \in {1, 2}
    OBVIOUS
  <2> QED BY <1>4, <1>5, <1>6, <1>7, <2>1
<1>9. GetField(args, <<"sec_code">>) = Text("CCD")
  <2>1. GetField(args, <<"sec_code">>) # Absent
    BY <1>1, <1>6, SilentMissing
  <2>2. OneOf({"CCD"}).type = "list" /\ OneOf({"CCD"}).items = {Text(t) : t \in {"CCD"}}
    BY DEF OneOf, List
  <2>3. GetField(args, <<"sec_code">>) \in OneOf({"CCD"}).items
    BY <1>1, <1>8, <2>1, <2>2, SilentUnlisted
  <2> QED BY <2>2, <2>3
<1>10. ASSUME GetField(args, <<"direction">>) = Text("credit") PROVE GetField(args, <<"auto_approve_credits">>) = True
  <2>1. EvaluateCondition(credit, args) = "match"
    <3>1. Text("credit").type = "string" /\ Absent.type = "absent" /\ DeadEnd.type = "dead end"
      BY DEF Text, Absent, DeadEnd, Value
    <3>2. Text("credit").type \notin {"object", "array"} /\ Text("credit") # Absent /\ Text("credit") # DeadEnd
      BY ONLY <3>1
    <3> QED BY <1>10, <3>2, EqHolds
  <2>2. Fires(s[5], args)
    <3>1. s[5].params = <<credit>>
      BY <1>1 DEF Rule
    <3> QED BY ONLY <2>1, <3>1, args # NotGiven, OneRule
  <2>3. Fires(s[4], args)
    <3> SUFFICES ASSUME ~Fires(s[4], args) PROVE FALSE
      OBVIOUS
    <3>1. \A j \in 1 .. 5 : j < 5 => j \in {1, 2, 3, 4}
      OBVIOUS
    <3> QED BY <1>4, <1>5, <1>6, <1>7, <1>8, <2>2, <3>1
  <2>4. Says(s[4], args) = "match"
    <3>1. \A j \in 1 .. 5 : j < 4 => j \in {1, 2, 3}
      OBVIOUS
    <3> QED BY <1>5, <1>6, <1>7, <1>8, <2>3, <3>1
  <2>5. s[4].params = <<credit, auto>> /\ <<credit, auto>> # << >>
    BY <1>1 DEF Rule
  <2>6. EvaluateParams(<<credit, auto>>, args) = "match"
    BY <2>4, <2>5 DEF Says
  <2>7. Sequence(<<credit, auto>>) /\ 2 \in DOMAIN <<credit, auto>> /\ <<credit, auto>>[2] = auto
    BY List2
  <2>8. EvaluateCondition(auto, args) = "match"
    BY <2>6, <2>7, AllMatch
  <2> QED BY <2>8, EqMatches
<1> QED BY <1>9, <1>10

LEMMA UpiLimits ==
  ASSUME NEW args, args # NotGiven, \A field : GetField(args, <<field>>).n \in Int,
         NEW tool \in {"upi_payment", "upi_transfer"}, Lets(SCHEMA_PACKS["upi"], tool, args)
  PROVE  GetField(args, <<"vpa">>) = Listed /\ UpTo(GetField(args, <<"amount">>), 100000)
<1> PICK s, t, u : s = UpiGuards("upi_payment") /\ t = UpiGuards("upi_transfer") /\ u = UpiGuards(tool)
  OBVIOUS
<1>1. Sequence(s) /\ Sequence(t) /\ (\A x \in ToSet(s) : x.decision # "ALLOW") /\ \A x \in ToSet(t) : x.decision # "ALLOW"
  BY UpiGuardsIs
<1>2. Lets(s \o t, tool, args)
  BY DEF SCHEMA_PACKS, UpiPayment, UpiTransfer
<1>3. Ruling(s, tool, args) = {} /\ Lets(t, tool, args)
  BY ONLY <1>1, <1>2, LetsJoined
<1>4. Ruling(t, tool, args) = {}
  <2>1. "ALLOW" \notin Ruling(t, tool, args)
    BY <1>1, RulingHas
  <2> QED BY <1>3, <2>1 DEF Lets
<1>5. Ruling(u, tool, args) = {}
  BY <1>3, <1>4
<1>6. Sequence(u) /\ Missing(tool, "STEP_UP", "vpa") \in ToSet(u) /\ Missing(tool, "STEP_UP", "amount") \in ToSet(u)
  BY ONLY UpiGuardsIs, u = UpiGuards(tool)
<1>7. Unlisted(tool, "vpa", Allowlist) \in ToSet(u)
  BY ONLY UpiGuardsIs, u = UpiGuards(tool)
<1>8. /\ OverDigits(tool, "STEP_UP", "amount", 100000) \in ToSet(u)
      /\ Guard(tool, "STEP_UP", "amount", "not_match", Pattern("integer")) \in ToSet(u)
  BY ONLY UpiGuardsIs, u = UpiGuards(tool)
<1>9. args # NotGiven /\ GetField(args, <<"amount">>).n \in Int /\ 100000 \in Int /\ "integer" \in {"integer", "positive"}
  OBVIOUS
<1>10. GetField(args, <<"vpa">>) = Listed
  <2>1. GetField(args, <<"vpa">>) \in Allowlist.items
    BY ONLY <1>5, <1>6, <1>7, <1>9, AllowlistIs, SilentParty
  <2> QED BY <2>1, AllowlistIs
<1>11. UpTo(GetField(args, <<"amount">>), 100000)
  BY ONLY <1>5, <1>6, <1>8, <1>9, SilentDigits
<1> QED BY <1>10, <1>11


LEMMA OpenclawSilent ==
  ASSUME NEW tool, NEW args, Lets(SCHEMA_PACKS["openclaw"], tool, args)
  PROVE  Ruling(OpenclawTransfer, tool, args) = {} /\ Ruling(OpenclawSwap, tool, args) = {}
<1> PICK a, b, c, s : a = OpenclawTransfer /\ b = OpenclawSwap /\ c = OpenclawEscrow /\ s = a \o b
  OBVIOUS
<1>1. Sequence(a) /\ Sequence(b) /\ Sequence(c) /\ (\A x \in ToSet(a) : x.decision # "ALLOW") /\ \A x \in ToSet(b) : x.decision # "ALLOW"
  BY OpenclawTransferIs, OpenclawSwapIs, OpenclawEscrowIs
<1>2. Lets(s \o c, tool, args)
  BY DEF SCHEMA_PACKS
<1>3. Sequence(s) /\ ToSet(s) = ToSet(a) \cup ToSet(b)
  BY <1>1, Joined
<1>4. \A x \in ToSet(s) : x.decision # "ALLOW"
  BY ONLY <1>1, <1>3
<1>5. Ruling(s, tool, args) = {}
  BY ONLY <1>1, <1>2, <1>3, <1>4, LetsJoined
<1> QED BY <1>1, <1>5, SilentJoined

LEMMA OpenclawTransferLimits ==
  ASSUME NEW args, args # NotGiven, \A field : GetField(args, <<field>>).n \in Int,
         Lets(SCHEMA_PACKS["openclaw"], "openclaw.agent.transfer", args)
  PROVE  GetField(args, <<"recipient">>) = Listed /\ UpTo(GetField(args, <<"amount_wei">>), 1000)
<1> PICK s, tool : s = OpenclawTransfer /\ tool = "openclaw.agent.transfer"
  OBVIOUS
<1>1. Ruling(s, tool, args) = {}
  BY OpenclawSilent
<1>2. Sequence(s) /\ Missing(tool, "BLOCK", "recipient") \in ToSet(s) /\ Unlisted(tool, "recipient", Allowlist) \in ToSet(s)
  BY ONLY OpenclawTransferIs, s = OpenclawTransfer /\ tool = "openclaw.agent.transfer"
<1>3. /\ Missing(tool, "STEP_UP", "amount_wei") \in ToSet(s) /\ OverDigits(tool, "STEP_UP", "amount_wei", 1000) \in ToSet(s)
      /\ Guard(tool, "STEP_UP", "amount_wei", "not_match", Pattern("integer")) \in ToSet(s)
  BY ONLY OpenclawTransferIs, s = OpenclawTransfer /\ tool = "openclaw.agent.transfer"
<1>4. args # NotGiven /\ GetField(args, <<"amount_wei">>).n \in Int /\ 1000 \in Int /\ "integer" \in {"integer", "positive"}
  OBVIOUS
<1>5. GetField(args, <<"recipient">>) = Listed
  <2>1. GetField(args, <<"recipient">>) \in Allowlist.items
    BY ONLY <1>1, <1>2, <1>4, AllowlistIs, SilentParty
  <2> QED BY <2>1, AllowlistIs
<1>6. UpTo(GetField(args, <<"amount_wei">>), 1000)
  BY ONLY <1>1, <1>2, <1>3, <1>4, SilentDigits
<1> QED BY <1>5, <1>6

LEMMA OpenclawSwapLimits ==
  ASSUME NEW args, args # NotGiven, \A field : GetField(args, <<field>>).n \in Int,
         Lets(SCHEMA_PACKS["openclaw"], "openclaw.agent.swap", args)
  PROVE  /\ GetField(args, <<"slippage_bps">>).type = "number" /\ GetField(args, <<"slippage_bps">>).n <= 50
         /\ GetField(args, <<"output_token">>) \in {Text("ETH"), Text("USDC"), Text("USDT")}
<1> PICK s, tool, tokens : s = OpenclawSwap /\ tool = "openclaw.agent.swap" /\ tokens = OneOf({"ETH", "USDC", "USDT"})
  OBVIOUS
<1>1. Ruling(s, tool, args) = {}
  BY OpenclawSilent
<1>2. /\ Sequence(s)
      /\ Missing(tool, "BLOCK", "slippage_bps") \in ToSet(s) /\ Over(tool, "BLOCK", "slippage_bps", 50) \in ToSet(s)
      /\ Missing(tool, "BLOCK", "output_token") \in ToSet(s) /\ Unlisted(tool, "output_token", tokens) \in ToSet(s)
  BY ONLY OpenclawSwapIs, s = OpenclawSwap /\ tool = "openclaw.agent.swap" /\ tokens = OneOf({"ETH", "USDC", "USDT"})
<1>3. args # NotGiven /\ GetField(args, <<"slippage_bps">>).n \in Int /\ 50 \in Int
  OBVIOUS
<1>4. GetField(args, <<"slippage_bps">>).type = "number" /\ GetField(args, <<"slippage_bps">>).n <= 50
  BY ONLY <1>1, <1>2, <1>3, SilentNumber
<1>5. tokens.type = "list" /\ tokens.items = {Text(t) : t \in {"ETH", "USDC", "USDT"}}
  BY DEF OneOf, List
<1>6. GetField(args, <<"output_token">>) \in tokens.items
  BY ONLY <1>1, <1>2, <1>3, <1>5, SilentParty
<1>7. GetField(args, <<"output_token">>) \in {Text("ETH"), Text("USDC"), Text("USDT")}
  BY <1>5, <1>6
<1> QED BY <1>4, <1>7

LEMMA EnforcedBy ==
  ASSUME NEW e \in DOMAIN Enforces, NEW tool \in Enforces[e]
  PROVE  /\ tool \in ChargeTools => e = "stripe"
         /\ tool \in {"stripe_transfer", "stripe_payout", "stripe_refund", "stripe_delete_customer"} => e = "stripe"
         /\ tool = "ach_transfer" => e = "ach"
         /\ tool \in {"upi_payment", "upi_transfer"} => e = "upi"
         /\ tool \in {"openclaw.agent.transfer", "openclaw.agent.swap"} => e = "openclaw"
<1>1. /\ DOMAIN Enforces = {"stripe", "ach", "upi", "openclaw"}
      /\ Enforces["stripe"] = {"stripe_charge", "stripe_create_charge", "stripe_transfer", "stripe_payout",
                               "stripe_refund", "stripe_delete_customer"}
      /\ ChargeTools = {"stripe_charge", "stripe_create_charge"}
      /\ Enforces["ach"] = {"ach_transfer"} /\ Enforces["upi"] = {"upi_payment", "upi_transfer"}
      /\ Enforces["openclaw"] = {"openclaw.agent.transfer", "openclaw.agent.swap"}
  BY DEF Enforces, ChargeTools
<1>2. tool \in Enforces[e] /\ e \in DOMAIN Enforces
  OBVIOUS
<1>3. CASE e = "stripe"
  BY ONLY <1>1, <1>2, <1>3
<1>4. CASE e = "ach"
  BY ONLY <1>1, <1>2, <1>4
<1>5. CASE e = "upi"
  BY ONLY <1>1, <1>2, <1>5
<1>6. CASE e = "openclaw"
  BY ONLY <1>1, <1>2, <1>6
<1> QED BY <1>1, <1>3, <1>4, <1>5, <1>6

LEMMA Money == ReplayInv => MoneyWithinLimits
<1> SUFFICES ASSUME ReplayInv, NEW r \in Recorded, r.decision = "ALLOW",
                    PackGoverns(r.policy, r.tool), Enforced(r.policy, r.tool)
    PROVE  WithinLimits(r)
  BY DEF MoneyWithinLimits
<1> PICK f, tool, args, schemas : f = r.policy /\ tool = r.tool /\ args = r.args /\ schemas = Files[f].schemas
  OBVIOUS
<1>1. f \in DOMAIN Files /\ Usable(f) /\ \E call \in Calls \cup Probes : args = call.args
  BY RecordedIs
<1>2. args # NotGiven /\ \A field : GetField(args, <<field>>).n \in Int
  BY <1>1, FieldIs
<1>3. Lets(PackRules(schemas), tool, args)
  BY AllowedByPack
<1>4. PICK e \in ToSet(schemas) \cap DOMAIN Enforces : tool \in Enforces[e]
  BY DEF Enforced
<1>5. Sequence(schemas) /\ ToSet(schemas) \subseteq DOMAIN SCHEMA_PACKS
  BY <1>1, FilesAssumption, LoadedPolicy DEF PolicyFile
<1>6. Lets(SCHEMA_PACKS[e], tool, args)
  BY <1>3, <1>4, <1>5, FromPack
<1> DEFINE V(field) == GetField(args, <<field>>)
<1>7. ASSUME tool \in {"stripe_transfer", "stripe_payout"} PROVE V("destination") = Listed /\ UpTo(V("amount"), 50000)
  <2>1. e = "stripe"
    BY <1>4, <1>7, EnforcedBy
  <2> QED BY <1>2, <1>6, <1>7, <2>1, StripeOutLimits
<1>8. ASSUME tool = "stripe_refund"
      PROVE  Given(V("charge_id")) /\ AtMost(V("amount"), 50000)
  <2>1. e = "stripe"
    BY <1>4, <1>8, EnforcedBy
  <2>2. Given(V("charge_id"))
    BY <1>2, <1>6, <1>8, <2>1, RefundIsOfCharge
  <2>3. V("amount").type = "number" /\ V("amount").n <= 50000
    BY <1>2, <1>6, <1>8, <2>1, RefundLimits
  <2> QED BY ONLY <2>2, <2>3 DEF AtMost
<1>9. ASSUME tool = "stripe_delete_customer" PROVE V("allow_customer_delete") = True
  <2>1. e = "stripe"
    BY <1>4, <1>9, EnforcedBy
  <2> QED BY <1>2, <1>6, <1>9, <2>1, DeletionLimits
<1>10. ASSUME tool = "ach_transfer"
       PROVE  /\ V("routing_number") = Listed /\ V("account_id") = Listed
              /\ UpTo(V("amount"), 100000) /\ V("amount").n > 0
              /\ V("sec_code") = Text("CCD")
              /\ V("direction") = Text("credit") => V("auto_approve_credits") = True
  <2>1. Lets(SCHEMA_PACKS["ach"], "ach_transfer", args)
    BY <1>4, <1>6, <1>10, EnforcedBy
  <2>2. /\ V("routing_number") = Listed /\ V("account_id") = Listed
        /\ UpTo(V("amount"), 100000) /\ V("amount").n > 0
    BY <1>2, <2>1, AchAmountLimits
  <2>3. V("sec_code") = Text("CCD") /\ (V("direction") = Text("credit") => V("auto_approve_credits") = True)
    BY <1>2, <2>1, AchCodeLimits
  <2> QED BY ONLY <2>2, <2>3
<1>11. ASSUME tool \in {"upi_payment", "upi_transfer"} PROVE V("vpa") = Listed /\ UpTo(V("amount"), 100000)
  <2>1. e = "upi"
    BY <1>4, <1>11, EnforcedBy
  <2> QED BY <1>2, <1>6, <1>11, <2>1, UpiLimits
<1>12. ASSUME tool = "openclaw.agent.transfer" PROVE V("recipient") = Listed /\ UpTo(V("amount_wei"), 1000)
  <2>1. e = "openclaw"
    BY <1>4, <1>12, EnforcedBy
  <2> QED BY <1>2, <1>6, <1>12, <2>1, OpenclawTransferLimits
<1>13. ASSUME tool = "openclaw.agent.swap"
       PROVE  /\ AtMost(V("slippage_bps"), 50)
              /\ V("output_token") \in {Text("ETH"), Text("USDC"), Text("USDT")}
  <2>1. e = "openclaw"
    BY <1>4, <1>13, EnforcedBy
  <2>2. /\ V("slippage_bps").type = "number" /\ V("slippage_bps").n <= 50
        /\ V("output_token") \in {Text("ETH"), Text("USDC"), Text("USDT")}
    BY <1>2, <1>6, <1>13, <2>1, OpenclawSwapLimits
  <2> QED BY ONLY <2>2 DEF AtMost
<1>14. ASSUME tool \in ChargeTools
       PROVE  /\ V("amount") = Absent \/ AtMost(V("amount"), 50000)
              /\ tool = "stripe_charge" => V("currency") \in {Absent} \cup {Text(c) : c \in Currencies}
  <2>1. e = "stripe"
    BY <1>4, <1>14, EnforcedBy
  <2> QED BY <1>2, <1>6, <1>14, <2>1, ChargeLimits
<1>15. tool = "stripe_charge" => tool \in ChargeTools
  BY DEF ChargeTools
<1>16. \A field : Field(r, field) = V(field)
  BY DEF Field
<1> HIDE DEF V
<1> QED BY ONLY <1>7, <1>8, <1>9, <1>10, <1>11, <1>12, <1>13, <1>14, <1>15, <1>16, tool = r.tool DEF WithinLimits

\* Under a pack that governs its tool no payment is allowed outside the limits
\* of WithinLimits, whatever the rules of the operator, the other packs and the
\* arguments are; of charges these say nothing when the amount is missing.
THEOREM PaymentsWithinLimits == ReplaySpec => []MoneyWithinLimits
<1>1. ReplayInit => ReplayInv
  BY ReplayInvInductive
<1>2. ReplayInv /\ [ReplayNext]_replayVars => ReplayInv'
  BY ReplayInvInductive
<1>3. ReplayInv => MoneyWithinLimits
  BY Money
<1> QED BY <1>1, <1>2, <1>3, PTL DEF ReplaySpec

=============================================================================
