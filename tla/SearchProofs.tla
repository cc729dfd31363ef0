---------------------------- MODULE SearchProofs -----------------------------
(***************************************************************************)
(* Proofs about Search, for all capabilities, queries and limits.          *)
(***************************************************************************)
EXTENDS Search, FiniteSetTheorems, TLAPS

-----------------------------------------------------------------------------
(* Loops.  Induction over a loop is the argument that there is no first    *)
(* iteration at which a claim fails.                                       *)

\* A nonempty set of naturals has a least element.
LEMMA Least ==
  ASSUME NEW S \in SUBSET Nat, S # {}
  PROVE  \E n \in S : \A m \in S : n <= m
<1> DEFINE R == {p \in Nat \X Nat : p[1] < p[2]}
<1>1. IsWellFoundedOn(R, Nat)
  BY NatLessThanWellFounded, Zenon DEF OpToRel
<1>2. PICK n \in S : \A m \in S : ~(<<m, n>> \in R)
  <2> HIDE DEF R
  <2> QED BY <1>1, WFMin, Zenon
<1>3. ASSUME NEW m \in S PROVE n <= m
  <2>1. m < n => <<m, n>> \in R
    OBVIOUS
  <2> QED BY <1>2, <2>1
<1> QED
  BY <1>2, <1>3

\* If a claim about the iterations 0..n, as a set, holds at 0 and is kept by every
\* iteration, it holds at all of them.
LEMMA LoopInduction ==
  ASSUME NEW n \in Nat, NEW Good, 0 \in Good,
         \A k \in 1..n : k - 1 \in Good => k \in Good
  PROVE  0..n \subseteq Good
<1> SUFFICES ASSUME NEW x \in 0..n, x \notin Good PROVE FALSE
  OBVIOUS
<1> DEFINE Bad == {k \in 0..n : k \notin Good}
<1>1. PICK m \in Bad : \A k \in Bad : m <= k
  <2>1. Bad \in SUBSET Nat /\ Bad # {}
    OBVIOUS
  <2> HIDE DEF Bad
  <2> QED BY <2>1, Least
<1>2. m \in 1..n
  OBVIOUS
<1>3. m - 1 \in 0..n /\ ~(m <= m - 1)
  BY <1>2
<1>4. m - 1 \in Good
  BY <1>1, <1>3
<1> QED
  BY <1>2, <1>4

\* f[k] is the state after k iterations of a loop with state in S, of which g[k] is the
\* k-th one.
IsRun(f, n, S, base, g) ==
  f \in [0..n -> S] /\ f[0] = base /\ \A k \in 1..n : f[k] = g[k][f[k - 1]]

\* Every loop has such a run.
LEMMA LoopRuns ==
  ASSUME NEW n \in Nat, NEW S, NEW base \in S, NEW g \in [1..n -> [S -> S]]
  PROVE  \E f : IsRun(f, n, S, base, g)
<1> DEFINE Run(f, m) == IsRun(f, m, S, base, g)
           Good == {m \in 0..n : \E f : Run(f, m)}
<1>1. 0 \in Good
  <2>1. Run([k \in 0..0 |-> base], 0)
    BY DEF IsRun
  <2> HIDE DEF Run
  <2> QED BY <2>1
<1>2. ASSUME NEW m \in 1..n, m - 1 \in Good PROVE m \in Good
  <2>1. PICK f : Run(f, m - 1)
    BY <1>2
  <2> DEFINE h == [k \in 0..m |-> IF k = m THEN g[m][f[m - 1]] ELSE f[k]]
  <2>2. f[m - 1] \in S /\ g[m][f[m - 1]] \in S
    BY <2>1 DEF IsRun
  <2>3. h \in [0..m -> S] /\ h[0] = base
    BY <2>1, <2>2 DEF IsRun
  <2>4. ASSUME NEW k \in 1..m PROVE h[k] = g[k][h[k - 1]]
    <3>1. CASE k = m
      <4>1. m \in 0..m /\ m - 1 \in 0..m /\ m - 1 # m
        OBVIOUS
      <4>2. h[m] = g[m][f[m - 1]] /\ h[m - 1] = f[m - 1]
        BY <4>1
      <4> QED BY <3>1, <4>2
    <3>2. CASE k # m
      <4>1. k \in 1..(m - 1) /\ k - 1 \in 0..m /\ k - 1 # m
        BY <3>2
      <4> QED BY <4>1, <2>1 DEF IsRun
    <3> QED BY <3>1, <3>2
  <2>5. Run(h, m)
    <3> HIDE DEF h
    <3> QED BY <2>3, <2>4 DEF IsRun
  <2> HIDE DEF h, Run
  <2> QED BY <2>5
<1>3. 0..n \subseteq Good
  <2> HIDE DEF Good
  <2> QED BY <1>1, <1>2, LoopInduction, Zenon
<1>4. n \in 0..n
  OBVIOUS
<1> QED
  BY <1>3, <1>4

-----------------------------------------------------------------------------
(* Sums *)

\* Total runs the loop that adds the numbers up.
LEMMA TotalRuns ==
  ASSUME NEW s \in Seq(Int)
  PROVE  \E f \in [0..Len(s) -> Int] :
           f[0] = 0 /\ (\A k \in 1..Len(s) : f[k] = f[k - 1] + s[k]) /\ Total(s) = f[Len(s)]
<1> DEFINE n == Len(s)
           g == [k \in 1..n |-> [x \in Int |-> x + s[k]]]
           Step(f) == f = [k \in 0..n |-> IF k = 0 THEN 0 ELSE f[k - 1] + s[k]]
<1>1. 0 \in Int /\ n \in Nat /\ g \in [1..n -> [Int -> Int]]
  OBVIOUS
<1>2. PICK f : IsRun(f, n, Int, 0, g)
  <2> HIDE DEF g, n
  <2> QED BY <1>1, LoopRuns, Zenon
<1>3. ASSUME NEW k \in 1..n PROVE f[k] = f[k - 1] + s[k]
  <2>1. k - 1 \in 0..n /\ f \in [0..n -> Int]
    <3> HIDE DEF g
    <3> QED BY <1>1, <1>2 DEF IsRun
  <2>2. g[k][f[k - 1]] = f[k - 1] + s[k]
    BY <2>1
  <2> QED BY <1>2, <2>2 DEF IsRun
<1>4. Step(f)
  BY <1>2, <1>3 DEF IsRun
<1> DEFINE h == CHOOSE h : Step(h)
<1>5. Step(h)
  <2> HIDE DEF Step
  <2> QED BY <1>4, Zenon
<1>6. Total(s) = h[n]
  BY Zenon DEF Total
<1>7. h[0] = 0 /\ \A k \in 1..n : h[k] = h[k - 1] + s[k]
  <2> HIDE DEF h
  <2>1. h = [k \in 0..n |-> IF k = 0 THEN 0 ELSE h[k - 1] + s[k]]
    BY <1>5
  <2> HIDE DEF Step
  <2>2. h[0] = 0
    <3>1. 0 \in 0..n
      BY <1>1
    <3> QED BY <2>1, <3>1
  <2>3. ASSUME NEW k \in 1..n PROVE h[k] = h[k - 1] + s[k]
    <3>1. k \in 0..n /\ k # 0
      BY <1>1
    <3> HIDE DEF n
    <3> QED BY <2>1, <3>1, Zenon
  <2> QED BY <2>2, <2>3
<1>8. h = f
  <2> HIDE DEF h
  <2> DEFINE Good == {k \in 0..n : h[k] = f[k]}
  <2>1. 0 \in Good
    BY <1>2, <1>7 DEF IsRun
  <2>2. \A k \in 1..n : k - 1 \in Good => k \in Good
    BY <1>3, <1>7
  <2>3. 0..n \subseteq Good
    <3> HIDE DEF Good, n
    <3> QED BY <1>1, <2>1, <2>2, LoopInduction, Zenon
  <2>4. h = [k \in 0..n |-> h[k]] /\ f = [k \in 0..n |-> f[k]]
    BY <1>4, <1>5
  <2>5. \A k \in 0..n : h[k] = f[k]
    BY <2>3
  <2> HIDE DEF n, Step
  <2> QED BY <2>4, <2>5, Zenon
<1> QED
  <2> HIDE DEF h
  <2> QED BY <1>2, <1>3, <1>6, <1>8 DEF IsRun

\* Whatever adds the numbers up comes to Total.
LEMMA TotalIs ==
  ASSUME NEW s \in Seq(Int), NEW f, f[0] = 0, \A k \in 1..Len(s) : f[k] = f[k - 1] + s[k]
  PROVE  Total(s) = f[Len(s)]
<1>0. Len(s) \in Nat
  OBVIOUS
<1>1. PICK h \in [0..Len(s) -> Int] :
        h[0] = 0 /\ (\A k \in 1..Len(s) : h[k] = h[k - 1] + s[k]) /\ Total(s) = h[Len(s)]
  BY TotalRuns
<1> DEFINE Good == {k \in 0..Len(s) : h[k] = f[k]}
<1>2. 0 \in Good
  BY <1>1
<1>3. \A k \in 1..Len(s) : k - 1 \in Good => k \in Good
  BY <1>1
<1>4. 0..Len(s) \subseteq Good
  <2> HIDE DEF Good
  <2> QED BY <1>0, <1>2, <1>3, LoopInduction, Zenon
<1>5. Len(s) \in 0..Len(s)
  OBVIOUS
<1> QED
  BY <1>1, <1>4, <1>5

\* Total is an integer, a natural for naturals, and grows by what is appended.
LEMMA TotalFacts ==
  /\ Total(<<>>) = 0
  /\ \A s \in Seq(Int) : Total(s) \in Int
  /\ \A s \in Seq(Nat) : Total(s) \in Nat
  /\ \A s \in Seq(Int), x \in Int : Total(Append(s, x)) = Total(s) + x
<1>1. Total(<<>>) = 0
  <2> DEFINE f == [k \in {0} |-> 0]
  <2>1. <<>> \in Seq(Int) /\ f[0] = 0 /\ Len(<<>>) = 0 /\ \A k \in 1..Len(<<>>) : f[k] = f[k - 1] + <<>>[k]
    OBVIOUS
  <2> HIDE DEF f
  <2> QED BY <2>1, TotalIs
<1>2. ASSUME NEW s \in Seq(Int) PROVE Total(s) \in Int
  <2>1. PICK f \in [0..Len(s) -> Int] : Total(s) = f[Len(s)]
    BY TotalRuns
  <2> QED BY <2>1
<1>3. ASSUME NEW s \in Seq(Nat) PROVE Total(s) \in Nat
  <2>0. s \in Seq(Int) /\ Len(s) \in Nat
    OBVIOUS
  <2>1. PICK f \in [0..Len(s) -> Int] :
          f[0] = 0 /\ (\A k \in 1..Len(s) : f[k] = f[k - 1] + s[k]) /\ Total(s) = f[Len(s)]
    BY <2>0, TotalRuns
  <2> DEFINE Good == {k \in 0..Len(s) : f[k] \in Nat}
  <2>2. 0 \in Good /\ \A k \in 1..Len(s) : k - 1 \in Good => k \in Good
    <3>1. 0 \in Good
      BY <2>0, <2>1
    <3>2. ASSUME NEW k \in 1..Len(s), k - 1 \in Good PROVE k \in Good
      <4>1. k \in 0..Len(s) /\ f[k - 1] \in Nat /\ s[k] \in Nat
        BY <2>0, <3>2
      <4>2. f[k] = f[k - 1] + s[k]
        BY <2>1
      <4> QED BY <4>1, <4>2
    <3> QED BY <3>1, <3>2
  <2>3. 0..Len(s) \subseteq Good
    <3> HIDE DEF Good
    <3> QED BY <2>0, <2>2, LoopInduction, Zenon
  <2>4. Len(s) \in 0..Len(s)
    OBVIOUS
  <2> QED BY <2>1, <2>3, <2>4
<1>4. ASSUME NEW s \in Seq(Int), NEW x \in Int PROVE Total(Append(s, x)) = Total(s) + x
  <2> DEFINE t == Append(s, x)
             n == Len(s)
  <2>1. PICK f \in [0..n -> Int] :
          f[0] = 0 /\ (\A k \in 1..n : f[k] = f[k - 1] + s[k]) /\ Total(s) = f[n]
    BY TotalRuns
  <2>2. t \in Seq(Int) /\ n \in Nat /\ Len(t) = n + 1 /\ t[n + 1] = x /\ \A k \in 1..n : t[k] = s[k]
    OBVIOUS
  <2> DEFINE h == [k \in 0..(n + 1) |-> IF k = n + 1 THEN f[n] + x ELSE f[k]]
  <2>3. h[0] = 0 /\ h[n + 1] = f[n] + x
    BY <2>1, <2>2
  <2>4. ASSUME NEW k \in 1..(n + 1) PROVE h[k] = h[k - 1] + t[k]
    <3>1. CASE k = n + 1
      <4>1. n \in 0..(n + 1) /\ n # n + 1
        BY <2>2
      <4>2. h[n] = f[n]
        BY <4>1
      <4> QED BY <3>1, <4>2, <2>2, <2>3
    <3>2. CASE k # n + 1
      <4>1. k \in 1..n /\ k \in 0..(n + 1) /\ k - 1 \in 0..(n + 1) /\ k - 1 # n + 1
        BY <3>2, <2>2
      <4>2. h[k] = f[k] /\ h[k - 1] = f[k - 1]
        BY <4>1, <3>2
      <4> QED BY <4>1, <4>2, <2>1, <2>2
    <3> QED BY <3>1, <3>2
  <2>5. Total(t) = h[n + 1]
    <3> HIDE DEF h, t, n
    <3> QED BY <2>2, <2>3, <2>4, TotalIs
  <2> QED BY <2>1, <2>3, <2>5
<1> QED
  BY <1>1, <1>2, <1>3, <1>4

-----------------------------------------------------------------------------
(* Sorting *)

\* A finite set with a strict total order, given by what is below each element, can be
\* listed in that order: the place of an element is the number of those below it.
LEMMA Sortable ==
  ASSUME NEW S, IsFiniteSet(S), NEW below \in [S -> SUBSET S],
         \A x \in S : x \notin below[x],
         \A x, y \in S : x # y => x \in below[y] \/ y \in below[x],
         \A x, y \in S : x \in below[y] => below[x] \subseteq below[y]
  PROVE  \E s \in SetToSeqs(S) : \A i, j \in DOMAIN s : i < j => s[i] \in below[s[j]]
<1> DEFINE n == Cardinality(S)
           rank == [x \in S |-> Cardinality(below[x]) + 1]
<1>1. n \in Nat
  BY FS_CardinalityType
<1>2. ASSUME NEW x \in S PROVE IsFiniteSet(below[x]) /\ Cardinality(below[x]) \in 0..(n - 1)
  <2>1. below[x] \in SUBSET S /\ below[x] # S
    OBVIOUS
  <2>2. IsFiniteSet(below[x]) /\ Cardinality(below[x]) <= n /\ Cardinality(below[x]) # n
    BY <2>1, FS_Subset
  <2>3. Cardinality(below[x]) \in Nat
    BY <2>2, FS_CardinalityType
  <2> HIDE DEF n
  <2> QED BY <1>1, <2>2, <2>3
<1>3. rank \in [S -> 1..n]
  <2> HIDE DEF n
  <2> QED BY <1>1, <1>2
<1>4. ASSUME NEW x \in S, NEW y \in S, x \in below[y] PROVE rank[x] < rank[y]
  <2>1. below[x] \in SUBSET below[y] /\ below[x] # below[y]
    BY <1>4
  <2>2. Cardinality(below[x]) <= Cardinality(below[y]) /\ Cardinality(below[x]) # Cardinality(below[y])
    BY <1>2, <2>1, FS_Subset
  <2> HIDE DEF n
  <2> QED BY <1>1, <1>2, <2>2
<1>5. rank \in Injection(S, 1..n)
  <2> HIDE DEF rank, n
  <2>1. ASSUME NEW x \in S, NEW y \in S, rank[x] = rank[y] PROVE x = y
    BY <1>3, <1>4, <2>1
  <2> QED BY <1>3, <2>1 DEF Injection, IsInjective
<1>6. rank \in Surjection(S, 1..n)
  <2>1. IsFiniteSet(1..n) /\ Cardinality(1..n) = n
    <3> HIDE DEF n
    <3> QED BY <1>1, FS_Interval
  <2> HIDE DEF rank
  <2> QED BY <1>5, <2>1, FS_Injection
<1> DEFINE s == [i \in 1..n |-> CHOOSE x \in S : rank[x] = i]
<1>7. ASSUME NEW i \in 1..n PROVE s[i] \in S /\ rank[s[i]] = i
  <2>1. \E x \in S : rank[x] = i
    <3> HIDE DEF rank, n
    <3> QED BY <1>6 DEF Surjection
  <2> HIDE DEF rank, n
  <2> QED BY <2>1
<1>8. s \in SetToSeqs(S)
  <2>1. s \in [1..n -> S] /\ \A i, j \in 1..n : i # j => s[i] # s[j]
    <3>1. s = [i \in 1..n |-> s[i]]
      OBVIOUS
    <3> HIDE DEF rank, n, s
    <3> QED BY <1>7, <3>1
  <2> HIDE DEF s
  <2> QED BY <2>1 DEF SetToSeqs
<1>9. DOMAIN s = 1..n
  OBVIOUS
<1>10. ASSUME NEW i \in 1..n, NEW j \in 1..n, i < j PROVE s[i] \in below[s[j]]
  <2> HIDE DEF s, rank, n
  <2>1. s[i] \in S /\ s[j] \in S /\ rank[s[i]] = i /\ rank[s[j]] = j
    BY <1>7
  <2>2. s[i] # s[j] /\ s[j] \notin below[s[i]]
    BY <1>1, <1>4, <1>10, <2>1
  <2> QED BY <2>1, <2>2
<1> QED
  <2> HIDE DEF s, rank, n
  <2> QED BY <1>8, <1>9, <1>10

\* The sequences of the elements of a finite set.
LEMMA Listing ==
  ASSUME NEW S, IsFiniteSet(S), NEW s \in SetToSeqs(S)
  PROVE  /\ s \in Seq(S) /\ Len(s) = Cardinality(S) /\ ToSet(s) = S
         /\ DOMAIN s = 1..Len(s) /\ \A i, j \in DOMAIN s : i # j => s[i] # s[j]
<1> DEFINE n == Cardinality(S)
<1>1. n \in Nat
  BY FS_CardinalityType
<1>2. s \in [1..n -> S] /\ \A i, j \in 1..n : i # j => s[i] # s[j]
  BY DEF SetToSeqs
<1>3. s \in Injection(1..n, S)
  <2> HIDE DEF n
  <2> QED BY <1>2 DEF Injection, IsInjective
<1>4. Cardinality(1..n) = n
  <2> HIDE DEF n
  <2> QED BY <1>1, FS_Interval
<1>5. s \in Surjection(1..n, S)
  BY <1>3, <1>4, FS_Injection
<1>6. ToSet(s) = S
  <2> HIDE DEF n
  <2> QED BY <1>2, <1>5 DEF Surjection, ToSet
<1> HIDE DEF n
<1>7. s \in Seq(S) /\ Len(s) = n /\ DOMAIN s = 1..n
  BY <1>1, <1>2
<1> QED
  BY <1>2, <1>6, <1>7 DEF n

\* SetToSeq lists the elements of a finite set.
LEMMA Listed ==
  ASSUME NEW S, IsFiniteSet(S)
  PROVE  SetToSeq(S) \in SetToSeqs(S)
<1> DEFINE n == Cardinality(S)
<1>1. PICK f : f \in Bijection(1..n, S)
  BY FS_CardinalityType DEF ExistsBijection
<1>2. f \in [1..n -> S] /\ IsInjective(f)
  BY <1>1 DEF Bijection, Injection
<1>3. SetToSeq(S) \in [1..n -> S] /\ IsInjective(SetToSeq(S))
  BY <1>2, Zenon DEF SetToSeq
<1>4. \A i, j \in 1..n : i # j => SetToSeq(S)[i] # SetToSeq(S)[j]
  <2> HIDE DEF n
  <2> QED BY <1>3 DEF IsInjective
<1> QED
  BY <1>3, <1>4, Zenon DEF SetToSeqs

\* A nonempty set of naturals with an upper bound has a maximum.
LEMMA MaxFacts ==
  ASSUME NEW S \in SUBSET Nat, S # {}, NEW b \in Nat, \A n \in S : n <= b
  PROVE  Max(S) \in S /\ \A n \in S : n <= Max(S)
<1> DEFINE T == {b - n : n \in S}
<1>1. T \subseteq Nat /\ T # {}
  <2>1. \A n \in S : b - n \in Nat
    OBVIOUS
  <2> QED BY <2>1, Zenon
<1>2. PICK x \in T : \A y \in T : x <= y
  <2> HIDE DEF T
  <2> QED BY <1>1, Least
<1>3. PICK m \in S : x = b - m
  OBVIOUS
<1>4. ASSUME NEW n \in S PROVE m >= n
  <2>1. b - n \in T
    OBVIOUS
  <2>2. x <= b - n
    BY <1>2, <2>1
  <2> QED BY <1>3, <2>2
<1>5. Max(S) \in S /\ \A n \in S : Max(S) >= n
  BY <1>4, Zenon DEF Max
<1> QED
  BY <1>5

-----------------------------------------------------------------------------
(* Texts and tokens *)

Words == DOMAIN Runes
Scans == [tokens : Seq(Seq(Words)), current : Seq(Words), startedUpper : BOOLEAN]

\* One iteration of tokenize.
LEMMA ScanType ==
  ASSUME NEW scan \in Scans
  PROVE  /\ flush(scan) \in Seq(Seq(Words))
         /\ \A text \in Texts : \A k \in 1..Len(text) : ScanPiece(scan, text[k]) \in Scans
<1>1. flush(scan) \in Seq(Seq(Words))
  BY DEF flush, Scans
<1>2. ASSUME NEW text \in Texts, NEW k \in 1..Len(text) PROVE ScanPiece(scan, text[k]) \in Scans
  <2>1. text[k].word \in Words /\ text[k].upper \in BOOLEAN
    <3>1. text[k] \in Pieces
      BY DEF Texts
    <3> QED BY <3>1, Zenon DEF Pieces, Words
  <2>2. <<text[k].word>> \in Seq(Words) /\ Append(scan.current, text[k].word) \in Seq(Words)
    BY <2>1 DEF Scans
  <2> QED BY <1>1, <2>1, <2>2 DEF ScanPiece, Scans
<1> QED
  BY <1>1, <1>2

\* tokenize returns a sequence of tokens.
LEMMA TokenizeType ==
  ASSUME NEW text \in Texts
  PROVE  tokenize(text) \in Seq(Seq(Words))
<1> DEFINE n == Len(text)
           g == [k \in 1..n |-> [scan \in Scans |-> ScanPiece(scan, text[k])]]
           Step(f) == f = [k \in 0..n |-> IF k = 0 THEN EmptyScan ELSE ScanPiece(f[k - 1], text[k])]
<1>1. n \in Nat /\ EmptyScan \in Scans
  <2>1. n \in Nat
    BY DEF Texts
  <2>2. <<>> \in Seq(Seq(Words)) /\ <<>> \in Seq(Words)
    OBVIOUS
  <2>3. FALSE \in BOOLEAN
    OBVIOUS
  <2> QED BY <2>1, <2>2, <2>3 DEF EmptyScan, Scans
<1>2. g \in [1..n -> [Scans -> Scans]]
  BY ScanType
<1>3. PICK f : IsRun(f, n, Scans, EmptyScan, g)
  <2> HIDE DEF g, n
  <2> QED BY <1>1, <1>2, LoopRuns, Zenon
<1>4. f \in [0..n -> Scans] /\ f[0] = EmptyScan
  <2> HIDE DEF g
  <2> QED BY <1>3 DEF IsRun
<1>5. ASSUME NEW k \in 1..n PROVE f[k] = ScanPiece(f[k - 1], text[k])
  <2>1. k - 1 \in 0..n
    BY <1>1
  <2>2. g[k][f[k - 1]] = ScanPiece(f[k - 1], text[k])
    BY <1>4, <2>1
  <2> QED BY <1>3, <2>2 DEF IsRun
<1>6. Step(f)
  BY <1>4, <1>5
<1> DEFINE h == CHOOSE h : Step(h)
<1>7. Step(h)
  <2> HIDE DEF Step
  <2> QED BY <1>6, Zenon
<1>8. tokenize(text) = flush(h[n])
  BY Zenon DEF tokenize
<1>9. h[n] \in Scans
  <2> HIDE DEF h
  <2> DEFINE Good == {k \in 0..n : h[k] \in Scans}
  <2>1. 0 \in Good
    BY <1>1, <1>7
  <2>2. ASSUME NEW k \in 1..n, k - 1 \in Good PROVE k \in Good
    <3>1. h[k] = ScanPiece(h[k - 1], text[k])
      BY <1>7
    <3> QED BY <2>2, <3>1, ScanType
  <2>3. 0..n \subseteq Good
    <3> HIDE DEF Good, n
    <3> QED BY <1>1, <2>1, <2>2, LoopInduction, Zenon
  <2> QED BY <1>1, <2>3
<1> QED
  BY <1>8, <1>9, ScanType

\* A text has finitely many tokens.
LEMMA TokensFinite ==
  ASSUME NEW text \in Texts
  PROVE  IsFiniteSet(uniqueTokens(text))
<1> DEFINE s == tokenize(text)
<1>1. s \in Seq(Seq(Words))
  BY TokenizeType
<1>2. s \in Surjection(1..Len(s), ToSet(s)) /\ Len(s) \in Nat
  <2> HIDE DEF s
  <2> QED BY <1>1 DEF Surjection, ToSet
<1>3. IsFiniteSet(1..Len(s))
  BY <1>2, FS_Interval
<1> QED
  BY <1>2, <1>3, FS_Surjection DEF uniqueTokens

-----------------------------------------------------------------------------
(* Scores *)

\* The weights and qualities of the index.
USE DEF fieldWeightName, fieldWeightSearchTerms, fieldWeightSummary, fieldWeightDescription,
        matchQualityExact, matchQualityPrefix

\* A factor of rarity is between idfMinFactor and idfBucketCount.
LEMMA RarityBounds ==
  ASSUME NEW n \in Nat \ {0}, NEW f \in 0..n
  PROVE  idfFactor(f, n) \in 1..8
<1> DEFINE a == (n - f) * 7
           q == a \div n
<1>1. a \in Nat /\ a <= 7 * n
  OBVIOUS
<1>2. q \in Int /\ n * q <= a /\ a < n * q + n
  <2> HIDE DEF a
  <2> QED BY <1>1
<1>3. q >= 0
  <2> HIDE DEF q, a
  <2>1. CASE q <= -1
    <3>1. n * q <= n * (-1)
      BY <1>2, <2>1
    <3> QED BY <1>1, <1>2, <3>1
  <2> QED BY <1>2, <2>1
<1>4. q <= 7
  <2> HIDE DEF q, a
  <2>1. CASE q >= 8
    <3>1. n * q >= n * 8
      BY <1>2, <2>1
    <3> QED BY <1>1, <1>2, <3>1
  <2> QED BY <1>2, <2>1
<1>5. idfFactor(f, n) = 1 + q
  BY DEF idfFactor, idfMinFactor, idfBucketCount
<1> QED
  <2> HIDE DEF q, a
  <2> QED BY <1>2, <1>3, <1>4, <1>5

\* What a field contributes to a token of the query: a natural, and more than nothing if
\* the field has that very token.
LEMMA Contribution ==
  ASSUME NEW T, \A t \in T : t.idf \in 1..8, NEW q, NEW w \in Nat \ {0}
  PROVE  /\ tokenFieldContribution(T, q, w) \in Nat
         /\ (\E t \in T : t.text = q) => tokenFieldContribution(T, q, w) > 0
<1> DEFINE quality(t) == tokenMatchQuality(q, t.text)
           Q == {0} \cup {quality(t) : t \in T}
           best == Max(Q)
           I == {t.idf : t \in {u \in T : quality(u) = best}}
<1>1. \A t \in T : quality(t) \in {0, 72, 100}
  BY DEF tokenMatchQuality
<1>2. best \in Q /\ \A x \in Q : x <= best
  <2>1. Q \in SUBSET Nat /\ Q # {} /\ \A x \in Q : x <= 100
    <3> HIDE DEF quality
    <3> QED BY <1>1
  <2> HIDE DEF Q
  <2> QED BY <2>1, MaxFacts
<1>3. best \in {0, 72, 100}
  <2> HIDE DEF quality, best
  <2> QED BY <1>1, <1>2
<1>4. ASSUME best # 0 PROVE Max(I) \in 1..8
  <2>1. PICK t \in T : quality(t) = best
    <3> HIDE DEF quality, best
    <3> QED BY <1>2, <1>4
  <2>2. I \in SUBSET Nat /\ I # {} /\ I \subseteq 1..8 /\ \A x \in I : x <= 8
    <3> HIDE DEF quality, best
    <3> QED BY <2>1
  <2> HIDE DEF I
  <2> QED BY <2>2, MaxFacts
<1>5. tokenFieldContribution(T, q, w) = IF best = 0 THEN 0 ELSE w * best * Max(I)
  BY Zenon DEF tokenFieldContribution
<1>6. ASSUME best # 0 PROVE w * best * Max(I) \in Nat \ {0}
  <2> DEFINE m == Max(I)
  <2> HIDE DEF m, best
  <2>1. w * best \in Nat \ {0}
    BY <1>3, <1>6
  <2>2. m \in 1..8
    BY <1>4, <1>6 DEF m
  <2> QED BY <2>1, <2>2 DEF m
<1>7. ASSUME NEW t \in T, t.text = q PROVE best # 0
  <2>1. quality(t) = 100 /\ quality(t) \in Q
    BY <1>7 DEF tokenMatchQuality
  <2> HIDE DEF quality, Q, best
  <2> QED BY <1>2, <1>3, <2>1
<1> HIDE DEF best, I
<1> QED
  BY <1>5, <1>6, <1>7

\* The document of an enabled capability.
LEMMA Document ==
  ASSUME NEW S \in SUBSET Capabilities, NEW en \in SetToSeqs(S), NEW i \in DOMAIN en
  PROVE  LET doc == compileSearchIndex(en)[i]
         IN /\ doc.normalizedName = ToLower(en[i].name) /\ doc.resultJSONBytes = en[i].bytes
            /\ \A f \in {"name", "terms", "summary", "description"} :
                 \A t \in doc.fields[f] : t.idf \in 1..8
            /\ \A w \in uniqueTokens(en[i].name) : \E t \in doc.fields.name : t.text = w
<1> DEFINE doc == compileSearchIndex(en)[i]
           fields == FieldTokens(en[i])
           Names == {"name", "terms", "summary", "description"}
<1>1. IsFiniteSet(S)
  BY CapabilitiesAssumption, FS_Subset
<1>2. en \in Seq(S) /\ DOMAIN en = 1..Len(en) /\ Len(en) \in Nat \ {0}
  <2>1. en \in Seq(S) /\ DOMAIN en = 1..Len(en)
    BY <1>1, Listing
  <2> QED BY <2>1
<1>3. ASSUME NEW w PROVE idfFactor(DocumentFrequency(en, w), Len(en)) \in 1..8
  <2> DEFINE D == {j \in DOMAIN en : \E f \in DOMAIN FieldTokens(en[j]) : w \in FieldTokens(en[j])[f]}
  <2>1. D \in SUBSET (1..Len(en)) /\ IsFiniteSet(1..Len(en)) /\ Cardinality(1..Len(en)) = Len(en)
    <3>1. IsFiniteSet(1..Len(en)) /\ Cardinality(1..Len(en)) = Len(en)
      BY <1>2, FS_Interval
    <3> QED BY <1>2, <3>1
  <2>2. IsFiniteSet(D) /\ Cardinality(D) <= Len(en)
    <3> HIDE DEF D
    <3> QED BY <2>1, FS_Subset
  <2>3. Cardinality(D) \in 0..Len(en)
    <3> HIDE DEF D
    <3>1. Cardinality(D) \in Nat
      BY <2>2, FS_CardinalityType
    <3> QED BY <1>2, <2>2, <3>1
  <2>4. DocumentFrequency(en, w) = Cardinality(D)
    BY DEF DocumentFrequency
  <2> HIDE DEF D
  <2> QED BY <1>2, <2>3, <2>4, RarityBounds
<1>4. doc = [normalizedName |-> ToLower(en[i].name),
             fields |-> [f \in DOMAIN fields |-> assignIDF(en, fields[f])],
             resultJSONBytes |-> en[i].bytes]
  BY DEF compileSearchIndex
<1>5. DOMAIN fields = Names /\ fields.name = uniqueTokens(en[i].name)
  BY DEF FieldTokens
<1>6. \A f \in Names : doc.fields[f] = assignIDF(en, fields[f])
  <2> HIDE DEF doc, fields
  <2> QED BY <1>4, <1>5
<1>7. ASSUME NEW f \in Names, NEW t \in assignIDF(en, fields[f]) PROVE t.idf \in 1..8
  <2>1. PICK w \in fields[f] : t = [text |-> w, idf |-> idfFactor(DocumentFrequency(en, w), Len(en))]
    BY <1>7 DEF assignIDF
  <2> QED BY <2>1, <1>3
<1>8. ASSUME NEW w \in uniqueTokens(en[i].name) PROVE \E t \in assignIDF(en, fields.name) : t.text = w
  <2>1. [text |-> w, idf |-> idfFactor(DocumentFrequency(en, w), Len(en))] \in assignIDF(en, fields.name)
    <3> HIDE DEF fields
    <3> QED BY <1>5 DEF assignIDF
  <2> QED BY <2>1
<1> HIDE DEF fields, doc
<1> QED
  BY <1>4, <1>6, <1>7, <1>8 DEF doc

\* What a document contributes to a token of the query.
LEMMA Best ==
  ASSUME NEW S \in SUBSET Capabilities, NEW en \in SetToSeqs(S), NEW i \in DOMAIN en, NEW q
  PROVE  LET doc == compileSearchIndex(en)[i]
         IN /\ bestTokenContribution(doc, q) \in Nat
            /\ q \in uniqueTokens(en[i].name) => bestTokenContribution(doc, q) > 0
<1> DEFINE doc == compileSearchIndex(en)[i]
           n1 == tokenFieldContribution(doc.fields.name, q, 12)
           n2 == tokenFieldContribution(doc.fields.terms, q, 10)
           n3 == tokenFieldContribution(doc.fields.summary, q, 5)
           n4 == tokenFieldContribution(doc.fields.description, q, 2)
<1>1. /\ \A f \in {"name", "terms", "summary", "description"} : \A t \in doc.fields[f] : t.idf \in 1..8
      /\ \A w \in uniqueTokens(en[i].name) : \E t \in doc.fields.name : t.text = w
  BY Document
<1>2. n1 \in Nat /\ n2 \in Nat /\ n3 \in Nat /\ n4 \in Nat
  <2> HIDE DEF doc
  <2>1. /\ \A t \in doc.fields.name : t.idf \in 1..8
        /\ \A t \in doc.fields.terms : t.idf \in 1..8
        /\ \A t \in doc.fields.summary : t.idf \in 1..8
        /\ \A t \in doc.fields.description : t.idf \in 1..8
    BY <1>1
  <2> QED BY <2>1, Contribution
<1>3. q \in uniqueTokens(en[i].name) => n1 > 0
  <2> HIDE DEF doc
  <2>1. \A t \in doc.fields.name : t.idf \in 1..8
    BY <1>1
  <2> QED BY <1>1, <2>1, Contribution
<1>4. bestTokenContribution(doc, q) = Max({n1, n2, n3, n4})
  <2> HIDE DEF doc
  <2> QED BY DEF bestTokenContribution
<1> HIDE DEF n1, n2, n3, n4
<1>5. /\ {n1, n2, n3, n4} \in SUBSET Nat /\ {n1, n2, n3, n4} # {}
      /\ n1 + n2 + n3 + n4 \in Nat /\ \A x \in {n1, n2, n3, n4} : x <= n1 + n2 + n3 + n4
  BY <1>2
<1>6. /\ Max({n1, n2, n3, n4}) \in {n1, n2, n3, n4}
      /\ \A x \in {n1, n2, n3, n4} : x <= Max({n1, n2, n3, n4})
  BY <1>5, MaxFacts, Zenon
<1> QED
  BY <1>2, <1>3, <1>4, <1>6

\* The score of a document; a document whose name has every token of the query matches
\* all of them.
LEMMA Scored ==
  ASSUME NEW S \in SUBSET Capabilities, NEW en \in SetToSeqs(S), NEW i \in DOMAIN en,
         NEW tokens, IsFiniteSet(tokens)
  PROVE  LET scored == scoreDocument(compileSearchIndex(en)[i], tokens)
         IN /\ scored.score \in Nat /\ scored.matched \in 0..Cardinality(tokens)
            /\ tokens \subseteq uniqueTokens(en[i].name) => scored.matched = Cardinality(tokens)
<1> DEFINE doc == compileSearchIndex(en)[i]
           list == SetToSeq(tokens)
           points == [k \in DOMAIN list |-> bestTokenContribution(doc, list[k])]
           M == {t \in tokens : bestTokenContribution(doc, t) > 0}
<1>1. /\ \A t : bestTokenContribution(doc, t) \in Nat
      /\ \A t \in uniqueTokens(en[i].name) : bestTokenContribution(doc, t) > 0
  BY Best
<1> HIDE DEF doc
<1>2. list \in Seq(tokens)
  BY Listed, Listing
<1>3. points \in Seq(Nat)
  <2> HIDE DEF list
  <2> QED BY <1>1, <1>2
<1>4. Total(points) \in Nat
  <2> HIDE DEF points
  <2> QED BY <1>3, TotalFacts
<1>5. IsFiniteSet(M) /\ Cardinality(M) \in 0..Cardinality(tokens)
  <2>1. IsFiniteSet(M) /\ Cardinality(M) <= Cardinality(tokens)
    <3>1. M \in SUBSET tokens
      OBVIOUS
    <3> HIDE DEF M
    <3> QED BY <3>1, FS_Subset
  <2>2. Cardinality(M) \in Nat /\ Cardinality(tokens) \in Nat
    <3> HIDE DEF M
    <3> QED BY <2>1, FS_CardinalityType
  <2> HIDE DEF M
  <2> QED BY <2>1, <2>2
<1>6. tokens \subseteq uniqueTokens(en[i].name) => M = tokens
  BY <1>1
<1>7. scoreDocument(doc, tokens) = [score |-> Total(points), matched |-> Cardinality(M)]
  BY DEF scoreDocument
<1> HIDE DEF points, M
<1> QED
  BY <1>4, <1>5, <1>6, <1>7 DEF doc

\* The candidates of a query.
CandidateSet(en, q) ==
  {searchCandidate(en, compileSearchIndex(en), q, i) :
     i \in eligible(compileSearchIndex(en), uniqueTokens(q.text))}

\* A candidate is an enabled capability with the bytes of its result, and there is one
\* candidate for each of them.
LEMMA CandidateFacts ==
  ASSUME NEW S \in SUBSET Capabilities, NEW en \in SetToSeqs(S),
         NEW q \in Queries, uniqueTokens(q.text) # {}
  PROVE  /\ IsFiniteSet(CandidateSet(en, q))
         /\ \A c \in CandidateSet(en, q) :
              /\ c.entry \in S /\ c.bytes = c.entry.bytes /\ c.score \in Int
              /\ c.exact = (ToLower(c.entry.name) = ToLower(q.text))
         /\ \A c, d \in CandidateSet(en, q) : c.entry.order = d.entry.order => c = d
<1> DEFINE docs == compileSearchIndex(en)
           tokens == uniqueTokens(q.text)
           cand(i) == searchCandidate(en, docs, q, i)
           E == eligible(docs, tokens)
<1>1. IsFiniteSet(S) /\ \A c \in S : c.order \in Int
  BY CapabilitiesAssumption, FS_Subset
<1>2. /\ en \in Seq(S) /\ DOMAIN en = 1..Len(en)
      /\ \A i, j \in DOMAIN en : i # j => en[i] # en[j]
  BY <1>1, Listing
<1>3. IsFiniteSet(tokens) /\ Cardinality(tokens) \in Nat \ {0}
  <2>1. IsFiniteSet(tokens)
    BY QueriesAssumption, TokensFinite
  <2> HIDE DEF tokens
  <2> QED BY <2>1, FS_EmptySet, FS_CardinalityType DEF tokens
<1>4. DOMAIN docs = DOMAIN en /\ E \subseteq DOMAIN en
  BY DEF compileSearchIndex, eligible
<1>5. ASSUME NEW i \in DOMAIN en
      PROVE  /\ cand(i).entry = en[i] /\ cand(i).bytes = en[i].bytes /\ cand(i).score \in Int
             /\ cand(i).exact = (ToLower(en[i].name) = ToLower(q.text))
  <2> DEFINE scored == scoreDocument(docs[i], tokens)
  <2>1. scored.score \in Nat /\ scored.matched \in 0..Cardinality(tokens)
    <3> HIDE DEF tokens
    <3> QED BY <1>3, Scored
  <2>2. docs[i].normalizedName = ToLower(en[i].name) /\ docs[i].resultJSONBytes = en[i].bytes
    BY Document
  <2>3. cand(i) = [entry |-> en[i], bytes |-> docs[i].resultJSONBytes,
                   score |-> (scored.score * scored.matched) \div Cardinality(tokens),
                   exact |-> docs[i].normalizedName = ToLower(q.text)]
    <3> HIDE DEF docs
    <3> QED BY DEF searchCandidate
  <2> HIDE DEF docs, tokens, scored, cand
  <2>4. (scored.score * scored.matched) \div Cardinality(tokens) \in Int
    <3>1. scored.score * scored.matched \in Int
      BY <2>1
    <3> QED BY <1>3, <3>1
  <2> QED BY <2>2, <2>3, <2>4
<1>6. IsFiniteSet(E)
  <2>1. IsFiniteSet(1..Len(en))
    BY <1>2, FS_Interval
  <2> HIDE DEF E
  <2> QED BY <1>2, <1>4, <2>1, FS_Subset
<1>7. CandidateSet(en, q) = {cand(i) : i \in E}
  BY DEF CandidateSet
<1> HIDE DEF cand, E, docs, tokens
<1>8. IsFiniteSet(CandidateSet(en, q))
  <2> DEFINE f == [i \in E |-> cand(i)]
  <2>1. f \in Surjection(E, CandidateSet(en, q))
    BY <1>7 DEF Surjection
  <2> HIDE DEF f
  <2> QED BY <1>6, <2>1, FS_Surjection
<1>9. ASSUME NEW c \in CandidateSet(en, q)
      PROVE  \E i \in DOMAIN en : c = cand(i)
  BY <1>4, <1>7
<1>10. ASSUME NEW c \in CandidateSet(en, q)
       PROVE  /\ c.entry \in S /\ c.bytes = c.entry.bytes /\ c.score \in Int
              /\ c.exact = (ToLower(c.entry.name) = ToLower(q.text))
  <2>1. PICK i \in DOMAIN en : c = cand(i)
    BY <1>9
  <2>2. en[i] \in S
    BY <1>2
  <2> QED BY <1>5, <2>1, <2>2
<1>11. ASSUME NEW c \in CandidateSet(en, q), NEW d \in CandidateSet(en, q), c.entry.order = d.entry.order
       PROVE  c = d
  <2>1. PICK i \in DOMAIN en : c = cand(i)
    BY <1>9
  <2>2. PICK j \in DOMAIN en : d = cand(j)
    BY <1>9
  <2>3. c.entry = en[i] /\ d.entry = en[j] /\ en[i] \in Capabilities /\ en[j] \in Capabilities
    BY <1>2, <1>5, <2>1, <2>2
  <2>4. en[i] = en[j]
    BY <1>11, <2>3, CapabilitiesAssumption
  <2> QED BY <1>2, <2>1, <2>2, <2>4
<1> QED
  BY <1>8, <1>10, <1>11

\* The candidates are ranked: compareSearchCandidates is a strict total order of them.
LEMMA Ranked ==
  ASSUME NEW S \in SUBSET Capabilities, NEW en \in SetToSeqs(S),
         NEW q \in Queries, uniqueTokens(q.text) # {}
  PROVE  LET ranked == Candidates(en, compileSearchIndex(en), q)
         IN /\ ranked \in SetToSeqs(CandidateSet(en, q))
            /\ \A i, j \in DOMAIN ranked : i < j => compareSearchCandidates(ranked[i], ranked[j])
<1> DEFINE C == CandidateSet(en, q)
           first(c) == IF c.exact THEN 1 ELSE 0
           below == [c \in C |-> {d \in C : compareSearchCandidates(d, c)}]
<1>1. /\ IsFiniteSet(C)
      /\ \A c \in C : c.score \in Int /\ c.entry.order \in Int /\ c.exact \in BOOLEAN
      /\ \A c, d \in C : c.entry.order = d.entry.order => c = d
  <2>1. \A c \in S : c.order \in Int
    BY CapabilitiesAssumption
  <2>2. /\ IsFiniteSet(C)
        /\ \A c \in C : /\ c.entry \in S /\ c.score \in Int
                        /\ c.exact = (ToLower(c.entry.name) = ToLower(q.text))
        /\ \A c, d \in C : c.entry.order = d.entry.order => c = d
    BY CandidateFacts, Zenon
  <2> HIDE DEF C
  <2>3. ASSUME NEW c \in C PROVE c.exact \in BOOLEAN
    BY <2>2, Zenon
  <2> QED BY <2>1, <2>2, <2>3
<1> HIDE DEF C
<1>2. ASSUME NEW c \in C, NEW d \in C
      PROVE  compareSearchCandidates(c, d) <=>
               \/ first(c) > first(d)
               \/ first(c) = first(d) /\ c.score > d.score
               \/ first(c) = first(d) /\ c.score = d.score /\ c.entry.order < d.entry.order
  <2>1. ScoreOnly(c, d) <=> \/ c.score > d.score
                            \/ c.score = d.score /\ c.entry.order < d.entry.order
    BY <1>1 DEF ScoreOnly
  <2>2. (c.exact = TRUE \/ c.exact = FALSE) /\ (d.exact = TRUE \/ d.exact = FALSE)
    BY <1>1
  <2>3. CASE c.exact = TRUE /\ d.exact = TRUE
    <3>1. compareSearchCandidates(c, d) <=> ScoreOnly(c, d)
      BY <2>3, Zenon DEF compareSearchCandidates
    <3>2. first(c) = 1 /\ first(d) = 1
      BY <2>3
    <3> HIDE DEF first
    <3> QED BY <1>1, <2>1, <3>1, <3>2
  <2>4. CASE c.exact = TRUE /\ d.exact = FALSE
    BY <2>1, <2>4 DEF compareSearchCandidates
  <2>5. CASE c.exact = FALSE /\ d.exact = TRUE
    BY <2>1, <2>5 DEF compareSearchCandidates
  <2>6. CASE c.exact = FALSE /\ d.exact = FALSE
    <3>1. compareSearchCandidates(c, d) <=> ScoreOnly(c, d)
      BY <2>6, Zenon DEF compareSearchCandidates
    <3>2. first(c) = 0 /\ first(d) = 0
      BY <2>6
    <3> HIDE DEF first
    <3> QED BY <1>1, <2>1, <3>1, <3>2
  <2> QED BY <2>2, <2>3, <2>4, <2>5, <2>6
<1>3. \A c \in C : first(c) \in Int
  OBVIOUS
<1> HIDE DEF first
<1>4. below \in [C -> SUBSET C]
  OBVIOUS
<1>5. \A c, d \in C : d \in below[c] <=> compareSearchCandidates(d, c)
  OBVIOUS
<1> HIDE DEF below
<1>6. \A c \in C : c \notin below[c]
  BY <1>1, <1>2, <1>3, <1>5
<1>7. \A c, d \in C : c # d => c \in below[d] \/ d \in below[c]
  BY <1>1, <1>2, <1>3, <1>5
<1>8. ASSUME NEW c \in C, NEW d \in C, c \in below[d] PROVE below[c] \subseteq below[d]
  <2> SUFFICES ASSUME NEW e \in C, e \in below[c] PROVE e \in below[d]
    BY <1>4
  <2> QED BY <1>1, <1>2, <1>3, <1>5, <1>8
<1>9. \E s \in SetToSeqs(C) : \A i, j \in DOMAIN s : i < j => s[i] \in below[s[j]]
  BY <1>1, <1>4, <1>6, <1>7, <1>8, Sortable
<1>10. \E s \in SetToSeqs(C) : \A i, j \in DOMAIN s : i < j => compareSearchCandidates(s[i], s[j])
  <2>1. PICK s \in SetToSeqs(C) : \A i, j \in DOMAIN s : i < j => s[i] \in below[s[j]]
    BY <1>9
  <2>2. s \in Seq(C)
    BY <1>1, Listing
  <2>3. ASSUME NEW i \in DOMAIN s, NEW j \in DOMAIN s, i < j
        PROVE  compareSearchCandidates(s[i], s[j])
    BY <1>5, <2>1, <2>2, <2>3
  <2> QED BY <2>3
<1>11. Candidates(en, compileSearchIndex(en), q)
         = CHOOSE s \in SetToSeqs(C) :
             \A i, j \in DOMAIN s : i < j => compareSearchCandidates(s[i], s[j])
  BY DEF Candidates, SortedBy, C, CandidateSet
<1> QED
  BY <1>10, <1>11, Zenon DEF C

-----------------------------------------------------------------------------
(* The enabled capabilities *)

\* The sequences of registrations list finite sets of capabilities.
LEMMA RegistrationsFacts ==
  ASSUME NEW regs \in Registrations
  PROVE  /\ ToSet(regs) \in SUBSET Capabilities /\ IsFiniteSet(ToSet(regs))
         /\ regs \in SetToSeqs(ToSet(regs))
<1>1. PICK T \in SUBSET Capabilities : regs \in SetToSeqs(T)
  BY Zenon DEF Registrations
<1>2. IsFiniteSet(T)
  BY CapabilitiesAssumption, FS_Subset
<1>3. ToSet(regs) = T
  BY <1>1, <1>2, Listing
<1> QED
  BY <1>1, <1>2, <1>3

\* What filterEnabled keeps.
Kept(regs, disabled) == {c \in ToSet(regs) : c.id \notin disabled}

\* A set of capabilities can be sorted by name.
LEMMA ByName ==
  ASSUME NEW S \in SUBSET Capabilities
  PROVE  \E s \in SetToSeqs(S) : \A i, j \in DOMAIN s : i < j => s[i].order < s[j].order
<1> DEFINE below == [c \in S |-> {d \in S : d.order < c.order}]
<1>1. IsFiniteSet(S) /\ \A c \in S : c.order \in Int
  BY CapabilitiesAssumption, FS_Subset
<1>2. below \in [S -> SUBSET S] /\ \A c, d \in S : d \in below[c] <=> d.order < c.order
  OBVIOUS
<1> HIDE DEF below
<1>3. \A c \in S : c \notin below[c]
  BY <1>1, <1>2
<1>4. \A c, d \in S : c # d => c \in below[d] \/ d \in below[c]
  BY <1>1, <1>2, CapabilitiesAssumption
<1>5. \A c, d \in S : c \in below[d] => below[c] \subseteq below[d]
  BY <1>1, <1>2
<1>6. PICK s \in SetToSeqs(S) : \A i, j \in DOMAIN s : i < j => s[i] \in below[s[j]]
  BY <1>1, <1>2, <1>3, <1>4, <1>5, Sortable
<1>7. s \in Seq(S)
  BY <1>1, Listing
<1> QED
  BY <1>2, <1>6, <1>7

\* filterEnabled lists the capabilities that are not disabled, and depends on nothing else.
LEMMA Enabled ==
  ASSUME NEW regs \in Registrations, NEW disabled
  PROVE  /\ Kept(regs, disabled) \in SUBSET Capabilities
         /\ filterEnabled(regs, disabled) \in SetToSeqs(Kept(regs, disabled))
         /\ ToSet(filterEnabled(regs, disabled)) = Kept(regs, disabled)
<1> DEFINE S == Kept(regs, disabled)
<1>1. S \in SUBSET Capabilities
  BY RegistrationsFacts DEF Kept
<1>2. filterEnabled(regs, disabled)
        = CHOOSE s \in SetToSeqs(S) : \A i, j \in DOMAIN s : i < j => s[i].order < s[j].order
  BY Zenon DEF filterEnabled, SortedBy, Kept
<1> HIDE DEF S
<1>3. filterEnabled(regs, disabled) \in SetToSeqs(S)
  BY <1>1, <1>2, ByName, Zenon
<1>4. IsFiniteSet(S)
  BY <1>1, CapabilitiesAssumption, FS_Subset
<1>5. ToSet(filterEnabled(regs, disabled)) = S
  BY <1>3, <1>4, Listing, Zenon
<1> QED
  BY <1>1, <1>3, <1>5 DEF S

-----------------------------------------------------------------------------
(* Packing *)

USE DEF searchResponsePrefixJSONBytes, searchResponseTruncatedFalse, searchResponseCommaJSONBytes

ResultBytes(results) == [i \in DOMAIN results |-> results[i].bytes]
Encoded(results) ==
  12 + Total(ResultBytes(results)) + (IF results = <<>> THEN 0 ELSE Len(results) - 1)
Packs == [results : Seq(Capabilities), used : Int, truncated : BOOLEAN]

\* What packSearchResponse is given: candidates each of which fits a response alone.
Packable(cands) ==
  \A k \in 1..Len(cands) : /\ cands[k].entry \in Capabilities /\ cands[k].bytes = cands[k].entry.bytes
                           /\ resultFitsResponseCap(cands[k].bytes)

\* The state of the packing loop after k candidates: the results are the first
\* candidates, used is what they take with the separators between them; the loop has
\* stopped only at the limit or at a candidate that there was no room for.
Packed(cands, k, p) ==
  LET n == Len(p.results)
  IN /\ p \in Packs
     /\ n <= k /\ n <= MaxSearchResults
     /\ \A i \in 1..n : p.results[i] = cands[i].entry
     /\ p.used = Encoded(p.results)
     /\ p.used + 20 <= maxSearchResponseBytes
     /\ p.truncated = FALSE => n = k
     /\ p.truncated = TRUE => /\ 0 < n /\ n < k
                              /\ n = MaxSearchResults \/ ~FitsResponse(p.used, n, cands[n + 1].bytes)

\* One more result takes its bytes, and a comma when it is not the first.
LEMMA OneMore ==
  ASSUME NEW s \in Seq(Capabilities), NEW e \in Capabilities
  PROVE  /\ Encoded(s) \in Int /\ Encoded(<<>>) = 12
         /\ Encoded(Append(s, e)) = Encoded(s) + e.bytes + (IF s = <<>> THEN 0 ELSE 1)
<1>0. e.bytes \in Int /\ \A c \in Capabilities : c.bytes \in Int
  BY CapabilitiesAssumption
<1>1. ResultBytes(s) \in Seq(Int)
  BY <1>0 DEF ResultBytes
<1>2. ResultBytes(Append(s, e)) = Append(ResultBytes(s), e.bytes)
  BY <1>0 DEF ResultBytes
<1>3. ResultBytes(<<>>) = <<>>
  BY DEF ResultBytes
<1>4. /\ Total(ResultBytes(s)) \in Int /\ Total(ResultBytes(<<>>)) = 0
      /\ Total(ResultBytes(Append(s, e))) = Total(ResultBytes(s)) + e.bytes
  BY <1>0, <1>1, <1>2, <1>3, TotalFacts
<1>5. /\ Len(Append(s, e)) = Len(s) + 1 /\ Append(s, e) # <<>> /\ Len(s) \in Nat
      /\ s = <<>> <=> Len(s) = 0
  OBVIOUS
<1> QED
  BY <1>0, <1>4, <1>5 DEF Encoded

\* One iteration of the packing loop.
LEMMA PackStep ==
  ASSUME NEW C, NEW cands \in Seq(C), Packable(cands), NEW k \in 1..Len(cands),
         NEW p, Packed(cands, k - 1, p)
  PROVE  Packed(cands, k, PackCandidate(p, cands[k]))
<1> DEFINE n == Len(p.results)
           c == cands[k]
           r == PackCandidate(p, c)
<1>0. p \in Packs /\ n \in Nat /\ MaxSearchResults \in Nat \ {0} /\ maxSearchResponseBytes \in Nat
  BY LimitsAssumption DEF Packed, Packs
<1>1. p.truncated = TRUE \/ p.truncated = FALSE
  BY <1>0 DEF Packs
<1>2. c.entry \in Capabilities /\ c.bytes = c.entry.bytes /\ c.bytes \in Int
  BY CapabilitiesAssumption DEF Packable
<1>3. CASE p.truncated = TRUE
  <2>1. r.results = p.results /\ r.used = p.used /\ r.truncated = TRUE /\ r \in Packs
    BY <1>0, <1>3 DEF PackCandidate, Packs
  <2> HIDE DEF r, c
  <2>2. Packed(cands, k, r)
    BY <1>0, <1>3, <2>1 DEF Packed
  <2> QED BY <2>2 DEF r, c
<1>4. CASE p.truncated = FALSE /\ (n = MaxSearchResults \/ ~FitsResponse(p.used, n, c.bytes))
  <2>1. r.results = p.results /\ r.used = p.used /\ r.truncated = TRUE /\ r \in Packs
    BY <1>0, <1>4 DEF PackCandidate, Packs
  <2>2. n = k - 1
    BY <1>4 DEF Packed
  <2>3. 0 < n
    <3>1. CASE n = 0
      <4>1. p.results = <<>>
        BY <1>0, <3>1 DEF Packs
      <4>2. p.used = 12
        <5>1. Encoded(<<>>) = 12
          BY <1>0, <1>2, OneMore DEF Packs
        <5>2. p.used = Encoded(p.results)
          BY DEF Packed
        <5> QED BY <4>1, <5>1, <5>2
      <4>3. FitsResponse(p.used, n, c.bytes)
        BY <1>2, <3>1, <4>2 DEF FitsResponse, Packable, resultFitsResponseCap
      <4> QED BY <1>0, <1>4, <3>1, <4>3
    <3> QED BY <1>0, <3>1
  <2> HIDE DEF r
  <2>4. Packed(cands, k, r)
    BY <1>0, <1>4, <2>1, <2>2, <2>3 DEF Packed
  <2> QED BY <2>4 DEF r
<1>5. CASE p.truncated = FALSE /\ n # MaxSearchResults /\ FitsResponse(p.used, n, c.bytes)
  <2>1. /\ r.results = Append(p.results, c.entry) /\ r.truncated = FALSE
        /\ r.used = p.used + c.bytes + (IF p.results = <<>> THEN 0 ELSE 1)
        /\ r \in Packs
    <3> DEFINE rs == Append(p.results, c.entry)
               used == p.used + c.bytes + (IF p.results = <<>> THEN 0 ELSE 1)
    <3>1. r = [p EXCEPT !.results = rs, !.used = used]
      <4> HIDE DEF c
      <4> QED BY <1>5 DEF PackCandidate
    <3>3. used \in Int
      BY <1>0, <1>2 DEF Packs
    <3>2. Append(p.results, c.entry) \in Seq(Capabilities)
      BY <1>0, <1>2 DEF Packs
    <3>4. DOMAIN p = {"results", "used", "truncated"}
      BY <1>0 DEF Packs
    <3> HIDE DEF r, c, used, rs
    <3>5. r.results = rs /\ r.used = used /\ r.truncated = p.truncated
      BY <3>1, <3>4
    <3>6. r \in Packs
      BY <1>0, <3>1, <3>2, <3>3 DEF Packs, rs
    <3> QED BY <1>5, <3>5, <3>6 DEF rs, used
  <2>2. n = k - 1 /\ (p.results = <<>> <=> n = 0)
    BY <1>0, <1>5 DEF Packed, Packs
  <2>3. r.used = Encoded(r.results)
    <3> HIDE DEF r, c
    <3> QED BY <1>0, <1>2, <2>1, OneMore DEF Packed, Packs
  <2>4. r.used + 20 <= maxSearchResponseBytes
    <3> HIDE DEF r, c
    <3>1. p.used \in Int
      BY <1>0 DEF Packs
    <3>2. p.used + (IF n > 0 THEN 1 ELSE 0) + c.bytes + 20 <= maxSearchResponseBytes
      BY <1>5 DEF FitsResponse
    <3>3. r.used = p.used + c.bytes + (IF n > 0 THEN 1 ELSE 0)
      BY <1>0, <2>1, <2>2
    <3> HIDE DEF n
    <3> QED BY <1>0, <1>2, <3>1, <3>2, <3>3
  <2>5. Len(r.results) = k /\ \A i \in 1..k : r.results[i] = cands[i].entry
    <3> HIDE DEF r
    <3>1. p.results \in Seq(Capabilities) /\ \A i \in 1..n : p.results[i] = cands[i].entry
      BY <1>0 DEF Packed, Packs
    <3>2. /\ Len(Append(p.results, c.entry)) = n + 1
          /\ Append(p.results, c.entry)[n + 1] = c.entry
          /\ \A i \in 1..n : Append(p.results, c.entry)[i] = p.results[i]
      BY <1>2, <3>1
    <3>3. n + 1 = k /\ \A i \in 1..k : i = n + 1 \/ i \in 1..n
      BY <1>0, <2>2
    <3> HIDE DEF n
    <3> QED BY <2>1, <3>1, <3>2, <3>3
  <2>6. k <= MaxSearchResults
    BY <1>0, <1>5, <2>2 DEF Packed
  <2> HIDE DEF r, c
  <2>7. Packed(cands, k, r)
    BY <2>1, <2>3, <2>4, <2>5, <2>6 DEF Packed
  <2> QED BY <2>7 DEF r, c
<1> QED
  BY <1>1, <1>3, <1>4, <1>5

\* PackCandidate on any state of the loop.
LEMMA PackType ==
  ASSUME NEW p \in Packs, NEW c, c.entry \in Capabilities, c.bytes \in Int
  PROVE  PackCandidate(p, c) \in Packs
<1> DEFINE rs == Append(p.results, c.entry)
           used == p.used + c.bytes + (IF p.results = <<>> THEN 0 ELSE 1)
<1>1. rs \in Seq(Capabilities) /\ used \in Int
  BY DEF Packs
<1>2. \/ PackCandidate(p, c) = [p EXCEPT !.truncated = TRUE]
      \/ PackCandidate(p, c) = [p EXCEPT !.results = rs, !.used = used]
  BY Zenon DEF PackCandidate
<1> HIDE DEF rs, used
<1> QED
  BY <1>1, <1>2 DEF Packs

\* The loop begins with a response that has no results.
LEMMA PackStart ==
  ASSUME NEW cands
  PROVE  /\ Packed(cands, 0, EmptyPack) /\ EmptyPack \in Packs
         /\ EmptyPack.results = <<>> /\ EmptyPack.truncated = FALSE
<1>1. /\ EmptyPack \in Packs
      /\ EmptyPack.results = <<>> /\ EmptyPack.used = 12 /\ EmptyPack.truncated = FALSE
  <2>1. FALSE \in BOOLEAN /\ <<>> \in Seq(Capabilities)
    OBVIOUS
  <2> QED BY <2>1 DEF EmptyPack, Packs
<1>2. Encoded(<<>>) = 12
  BY TotalFacts DEF Encoded, ResultBytes
<1>3. MaxSearchResults \in Nat /\ maxSearchResponseBytes \in Nat /\ maxSearchResponseBytes >= 32
  BY LimitsAssumption
<1> QED
  BY <1>1, <1>2, <1>3 DEF Packed

\* What packSearchResponse returns.
LEMMA Packing ==
  ASSUME NEW C, NEW cands \in Seq(C), Packable(cands)
  PROVE  \E p : /\ Packed(cands, Len(cands), p)
                /\ packSearchResponse(cands)
                     = [kind |-> "results", results |-> p.results, truncated |-> p.truncated]
<1> DEFINE n == Len(cands)
           g == [k \in 1..n |-> [p \in Packs |-> PackCandidate(p, cands[k])]]
           Step(f) == f = [k \in 0..n |-> IF k = 0 THEN EmptyPack ELSE PackCandidate(f[k - 1], cands[k])]
<1>1. n \in Nat
  OBVIOUS
<1>2. EmptyPack \in Packs /\ Packed(cands, 0, EmptyPack)
  BY PackStart, Zenon
<1>3. ASSUME NEW k \in 1..n, NEW p \in Packs PROVE PackCandidate(p, cands[k]) \in Packs
  <2>1. cands[k].entry \in Capabilities /\ cands[k].bytes \in Int
    BY CapabilitiesAssumption DEF Packable
  <2> QED BY <2>1, PackType
<1>4. g \in [1..n -> [Packs -> Packs]]
  BY <1>3
<1>5. PICK f : IsRun(f, n, Packs, EmptyPack, g)
  <2> HIDE DEF g, n
  <2> QED BY <1>1, <1>2, <1>4, LoopRuns, Zenon
<1>6. f \in [0..n -> Packs] /\ f[0] = EmptyPack
  <2> HIDE DEF g
  <2> QED BY <1>5 DEF IsRun
<1>7. ASSUME NEW k \in 1..n PROVE f[k] = PackCandidate(f[k - 1], cands[k])
  <2>1. k - 1 \in 0..n
    BY <1>1
  <2>2. g[k][f[k - 1]] = PackCandidate(f[k - 1], cands[k])
    BY <1>6, <2>1
  <2> QED BY <1>5, <2>2 DEF IsRun
<1>8. Step(f)
  BY <1>6, <1>7
<1> DEFINE h == CHOOSE h : Step(h)
<1>9. Step(h)
  <2> HIDE DEF Step
  <2> QED BY <1>8, Zenon
<1>10. packSearchResponse(cands) = [kind |-> "results", results |-> h[n].results, truncated |-> h[n].truncated]
  BY Zenon DEF packSearchResponse
<1> HIDE DEF h
<1> DEFINE Good == {k \in 0..n : Packed(cands, k, h[k])}
<1>11. 0 \in Good
  <2>1. h[0] = EmptyPack
    BY <1>1, <1>9
  <2> QED BY <1>1, <1>2, <2>1
<1>12. ASSUME NEW k \in 1..n, k - 1 \in Good PROVE k \in Good
  <2>1. h[k] = PackCandidate(h[k - 1], cands[k])
    BY <1>9
  <2>2. Packed(cands, k - 1, h[k - 1])
    BY <1>12
  <2>3. Packed(cands, k, PackCandidate(h[k - 1], cands[k]))
    BY <2>2, PackStep
  <2> QED BY <2>1, <2>3
<1>13. 0..n \subseteq Good
  <2> HIDE DEF Good, n
  <2> QED BY <1>1, <1>11, <1>12, LoopInduction, Zenon
<1>14. Packed(cands, n, h[n])
  BY <1>1, <1>13
<1> QED
  BY <1>10, <1>14

-----------------------------------------------------------------------------
(* The state *)

\* The catalog is one that Build made of the registrations it was given, and a response
\* is what that catalog answers.
Built ==
  catalog.kind = "catalog" =>
    /\ catalog.registrations \in Registrations
    /\ catalog = BuildCatalog(catalog.registrations, catalog.disabled)
Responded ==
  \/ response = None
  \/ /\ catalog.kind = "catalog"
     /\ \/ \E q \in Queries :
             response = [kind |-> "answer", query |-> q, answer |-> SearchCatalog(catalog, q)]
        \/ \E name : response = [kind |-> "description", name |-> name, found |-> Lookup(catalog, name)]
StateInv == Built /\ Responded

\* The parts of a catalog that was built.
LEMMA BuildFacts ==
  ASSUME NEW regs, NEW disabled, BuildCatalog(regs, disabled).kind = "catalog"
  PROVE  LET cat == BuildCatalog(regs, disabled)
         IN /\ cat.registrations = regs /\ cat.disabled = disabled
            /\ cat.enabled = filterEnabled(regs, disabled)
            /\ cat.documents = compileSearchIndex(filterEnabled(regs, disabled))
            /\ Len(regs) <= maxSupportedRegistrations
            /\ Total([i \in DOMAIN regs |-> searchableMetadataBytes(regs[i])]) <= maxSearchableMetadataBytes
            /\ \A i \in DOMAIN regs : validateSearchTerms(regs[i].terms)
            /\ \A i \in DOMAIN filterEnabled(regs, disabled) :
                 resultFitsResponseCap(filterEnabled(regs, disabled)[i].bytes)
<1> DEFINE enabled == filterEnabled(regs, disabled)
           size == Total([i \in DOMAIN regs |-> searchableMetadataBytes(regs[i])])
           valid == /\ Len(regs) <= maxSupportedRegistrations
                    /\ size <= maxSearchableMetadataBytes
                    /\ \A i \in DOMAIN regs : validateSearchTerms(regs[i].terms)
                    /\ \A i \in DOMAIN enabled : resultFitsResponseCap(enabled[i].bytes)
           cat == [kind |-> "catalog", registrations |-> regs, disabled |-> disabled,
                   enabled |-> enabled, documents |-> compileSearchIndex(enabled)]
<1>1. BuildCatalog(regs, disabled) = IF ~valid THEN ErrInvalidRegistration ELSE cat
  BY Zenon DEF BuildCatalog
<1>2. ErrInvalidRegistration.kind # "catalog"
  BY DEF ErrInvalidRegistration
<1>3. valid
  <2> HIDE DEF valid, cat
  <2> QED BY <1>1, <1>2
<1>4. BuildCatalog(regs, disabled) = cat
  <2> HIDE DEF valid, cat
  <2> QED BY <1>1, <1>3
<1> HIDE DEF size, enabled
<1> QED
  BY <1>3, <1>4 DEF size, enabled

\* Every reachable state is such a one.
THEOREM StateCorrect == Spec => []StateInv
<1>1. Init => StateInv
  BY DEF Init, StateInv, Built, Responded, None
<1>2. StateInv /\ [Next]_vars => StateInv'
  <2> SUFFICES ASSUME StateInv, [Next]_vars PROVE StateInv'
    OBVIOUS
  <2>1. ASSUME NEW regs \in Registrations, NEW disabled, Build(regs, disabled) PROVE StateInv'
    <3>1. catalog' = BuildCatalog(regs, disabled) /\ response' = response /\ response = None
      BY <2>1 DEF Build, StateInv, Responded
    <3>2. ASSUME catalog'.kind = "catalog"
          PROVE  catalog'.registrations = regs /\ catalog'.disabled = disabled
      BY <3>1, <3>2, BuildFacts
    <3> QED BY <3>1, <3>2 DEF StateInv, Built, Responded
  <2>2. ASSUME NEW query \in Queries, SearchFor(query) PROVE StateInv'
    BY <2>2 DEF SearchFor, StateInv, Built, Responded
  <2>3. ASSUME NEW c \in Capabilities, Describe(c.name) PROVE StateInv'
    BY <2>3 DEF Describe, StateInv, Built, Responded
  <2>4. ASSUME Answered PROVE StateInv'
    BY <2>4 DEF Answered, StateInv, Built, Responded
  <2>5. CASE UNCHANGED vars
    BY <2>5 DEF vars, StateInv, Built, Responded
  <2> QED BY <2>1, <2>2, <2>3, <2>4, <2>5 DEF Next
<1> QED
  BY <1>1, <1>2, PTL DEF Spec

-----------------------------------------------------------------------------
(* Answers *)

\* The ranking an answer is cut from.
Ranking ==
  IF uniqueTokens(response.query.text) = {} THEN <<>>
  ELSE Candidates(catalog.enabled, catalog.documents, response.query)

\* An answer, the catalog it is from and the ranking it was packed from.
LEMMA AnswerFacts ==
  ASSUME StateInv, Answer
  PROVE  /\ catalog.registrations \in Registrations
         /\ catalog = BuildCatalog(catalog.registrations, catalog.disabled)
         /\ catalog.enabled = filterEnabled(catalog.registrations, catalog.disabled)
         /\ catalog.documents = compileSearchIndex(catalog.enabled)
         /\ \A i \in DOMAIN catalog.enabled : resultFitsResponseCap(catalog.enabled[i].bytes)
         /\ response.query \in Queries /\ response.answer = SearchCatalog(catalog, response.query)
<1>1. response # None /\ response.kind # "description"
  BY DEF Answer, None
<1>2. PICK q \in Queries :
        response = [kind |-> "answer", query |-> q, answer |-> SearchCatalog(catalog, q)]
  BY <1>1 DEF StateInv, Responded
<1>3. catalog.kind = "catalog"
  BY <1>1 DEF StateInv, Responded
<1>4. /\ catalog.registrations \in Registrations
      /\ catalog = BuildCatalog(catalog.registrations, catalog.disabled)
  BY <1>3 DEF StateInv, Built
<1>5. /\ catalog.enabled = filterEnabled(catalog.registrations, catalog.disabled)
      /\ catalog.documents = compileSearchIndex(catalog.enabled)
      /\ \A i \in DOMAIN catalog.enabled : resultFitsResponseCap(catalog.enabled[i].bytes)
  <2> DEFINE regs == catalog.registrations
             disabled == catalog.disabled
  <2>1. BuildCatalog(regs, disabled).kind = "catalog" /\ catalog = BuildCatalog(regs, disabled)
    BY <1>3, <1>4, Zenon
  <2> HIDE DEF regs, disabled
  <2>2. /\ BuildCatalog(regs, disabled).enabled = filterEnabled(regs, disabled)
        /\ BuildCatalog(regs, disabled).documents = compileSearchIndex(filterEnabled(regs, disabled))
        /\ \A i \in DOMAIN filterEnabled(regs, disabled) :
             resultFitsResponseCap(filterEnabled(regs, disabled)[i].bytes)
    BY <2>1, BuildFacts, Zenon
  <2> QED BY <2>1, <2>2, Zenon DEF regs, disabled
<1> QED
  BY <1>2, <1>4, <1>5

\* The ranking can be packed.
LEMMA RankingPackable ==
  ASSUME StateInv, Answer, uniqueTokens(response.query.text) # {}
  PROVE  /\ Ranking = Candidates(catalog.enabled, catalog.documents, response.query)
         /\ Ranking \in Seq(CandidateSet(catalog.enabled, response.query))
         /\ ToSet(Ranking) = CandidateSet(catalog.enabled, response.query)
         /\ Packable(Ranking)
         /\ \A i, j \in DOMAIN Ranking : i < j => compareSearchCandidates(Ranking[i], Ranking[j])
<1> DEFINE en == catalog.enabled
           q == response.query
           C == CandidateSet(en, q)
           S == Kept(catalog.registrations, catalog.disabled)
<1>1. /\ S \in SUBSET Capabilities /\ en \in SetToSeqs(S) /\ q \in Queries
      /\ catalog.documents = compileSearchIndex(en)
      /\ \A i \in DOMAIN en : resultFitsResponseCap(en[i].bytes)
      /\ ToSet(en) = S
  BY AnswerFacts, Enabled
<1>2. Ranking = Candidates(en, compileSearchIndex(en), q)
  BY <1>1 DEF Ranking
<1> HIDE DEF en, S
<1>3. /\ Ranking \in SetToSeqs(C)
      /\ \A i, j \in DOMAIN Ranking : i < j => compareSearchCandidates(Ranking[i], Ranking[j])
  BY <1>1, <1>2, Ranked
<1>4. /\ IsFiniteSet(C)
      /\ \A c \in C : c.entry \in S /\ c.bytes = c.entry.bytes
  <2>1. uniqueTokens(q.text) # {}
    OBVIOUS
  <2> HIDE DEF q
  <2>2. /\ IsFiniteSet(CandidateSet(en, q))
        /\ \A c \in CandidateSet(en, q) :
             /\ c.entry \in S /\ c.bytes = c.entry.bytes /\ c.score \in Int
             /\ c.exact = (ToLower(c.entry.name) = ToLower(q.text))
        /\ \A c, d \in CandidateSet(en, q) : c.entry.order = d.entry.order => c = d
    BY <1>1, <2>1, CandidateFacts, Zenon
  <2> QED BY <2>2, Zenon
<1> HIDE DEF C, q
<1>5. Ranking \in Seq(C) /\ ToSet(Ranking) = C
  BY <1>3, <1>4, Listing
<1>6. ASSUME NEW c \in S PROVE resultFitsResponseCap(c.bytes)
  <2>1. PICK i \in DOMAIN en : en[i] = c
    BY <1>1 DEF ToSet
  <2> QED BY <1>1, <2>1
<1>7. ASSUME NEW k \in 1..Len(Ranking)
      PROVE  /\ Ranking[k].entry \in Capabilities /\ Ranking[k].bytes = Ranking[k].entry.bytes
             /\ resultFitsResponseCap(Ranking[k].bytes)
  <2>1. Ranking[k] \in C
    BY <1>5
  <2>2. Ranking[k].entry \in S /\ Ranking[k].bytes = Ranking[k].entry.bytes
    BY <1>4, <2>1
  <2>3. resultFitsResponseCap(Ranking[k].entry.bytes)
    BY <1>6, <2>2, Zenon
  <2> QED BY <1>1, <2>2, <2>3
<1>8. Packable(Ranking)
  BY <1>7 DEF Packable
<1> QED
  BY <1>1, <1>2, <1>3, <1>5, <1>8 DEF C, q, en

\* An answer is a packing of its ranking.
LEMMA AnswerPacked ==
  ASSUME StateInv, Answer
  PROVE  /\ Len(Ranking) \in Nat
         /\ \E p : Packed(Ranking, Len(Ranking), p) /\ Results = p.results /\ Truncated = p.truncated
<1> DEFINE tokens == uniqueTokens(response.query.text)
<1>1. response.answer = SearchCatalog(catalog, response.query)
  BY AnswerFacts, Zenon
<1>2. ErrSearchQueryLimit.kind # "results"
  BY DEF ErrSearchQueryLimit
<1>3. response.answer.kind = "results"
  BY DEF Answer
<1>4. CASE tokens = {}
  <2>1. response.answer = [kind |-> "results", results |-> <<>>, truncated |-> FALSE]
    <3> HIDE DEF tokens
    <3>1. \/ SearchCatalog(catalog, response.query) = ErrSearchQueryLimit
          \/ SearchCatalog(catalog, response.query)
               = [kind |-> "results", results |-> <<>>, truncated |-> FALSE]
      BY <1>4, Zenon DEF SearchCatalog, tokens
    <3> QED BY <1>1, <1>2, <1>3, <3>1, Zenon
  <2>2. Ranking = <<>>
    BY <1>4 DEF Ranking
  <2>3. /\ Packed(Ranking, 0, EmptyPack)
        /\ EmptyPack.results = <<>> /\ EmptyPack.truncated = FALSE
    BY PackStart, Zenon
  <2>4. Len(Ranking) = 0
    BY <2>2
  <2>5. Results = <<>> /\ Truncated = FALSE
    <3>1. Results = <<>>
      BY <2>1 DEF Results
    <3>2. Truncated = FALSE
      BY <2>1 DEF Truncated
    <3> QED BY <3>1, <3>2
  <2>6. /\ Packed(Ranking, Len(Ranking), EmptyPack) /\ Len(Ranking) \in Nat
        /\ Results = EmptyPack.results /\ Truncated = EmptyPack.truncated
    <3>1. Len(Ranking) \in Nat
      BY <2>4
    <3> QED BY <2>3, <2>4, <2>5, <3>1, Zenon
  <2> QED BY <2>6, Zenon
<1>5. CASE tokens # {}
  <2>1. /\ Ranking = Candidates(catalog.enabled, catalog.documents, response.query)
        /\ Ranking \in Seq(CandidateSet(catalog.enabled, response.query))
        /\ Packable(Ranking)
    BY <1>5, RankingPackable, Zenon
  <2>2. response.answer = packSearchResponse(Ranking)
    <3>1. \/ SearchCatalog(catalog, response.query) = ErrSearchQueryLimit
          \/ SearchCatalog(catalog, response.query) = packSearchResponse(Ranking)
      BY <1>5, <2>1, Zenon DEF SearchCatalog
    <3> QED BY <1>1, <1>2, <1>3, <3>1, Zenon
  <2>3. PICK p : /\ Packed(Ranking, Len(Ranking), p)
                 /\ packSearchResponse(Ranking)
                      = [kind |-> "results", results |-> p.results, truncated |-> p.truncated]
    BY <2>1, Packing, Zenon
  <2>4. Results = p.results /\ Truncated = p.truncated
    BY <2>2, <2>3 DEF Results, Truncated
  <2>5. Len(Ranking) \in Nat
    BY <2>1
  <2> QED BY <2>3, <2>4, <2>5, Zenon
<1> QED
  BY <1>4, <1>5, Zenon

\* PackedPrefix: an answer is the beginning of the ranking, within the limits on results
\* and bytes, truncated exactly when something is missing, never empty while there is a
\* candidate, and never cut where there was room. For all capabilities and limits.
THEOREM PackedPrefixCorrect == Spec => []PackedPrefix
<1>1. StateInv => PackedPrefix
  <2> SUFFICES ASSUME StateInv, Answer PROVE PackedPrefix
    BY DEF PackedPrefix
  <2>1. PICK p : Packed(Ranking, Len(Ranking), p) /\ Results = p.results /\ Truncated = p.truncated
    BY AnswerPacked
  <2> DEFINE n == Len(Results)
  <2>2. /\ n \in Nat /\ Len(Ranking) \in Nat /\ MaxSearchResults \in Nat \ {0}
        /\ maxSearchResponseBytes \in Nat /\ (Results = <<>> <=> n = 0)
        /\ Truncated = TRUE \/ Truncated = FALSE
    <3>1. Results \in Seq(Capabilities) /\ Truncated \in BOOLEAN
      BY <2>1 DEF Packed, Packs
    <3>2. Len(Ranking) \in Nat /\ MaxSearchResults \in Nat \ {0} /\ maxSearchResponseBytes \in Nat
      BY AnswerPacked, LimitsAssumption
    <3> QED BY <3>1, <3>2
  <2>3. /\ n <= Len(Ranking) /\ n <= MaxSearchResults
        /\ \A i \in 1..n : Results[i] = Ranking[i].entry
        /\ p.used = Encoded(Results) /\ p.used \in Int
        /\ p.used + 20 <= maxSearchResponseBytes
        /\ Truncated = FALSE => n = Len(Ranking)
        /\ Truncated = TRUE => /\ 0 < n /\ n < Len(Ranking)
                               /\ n = MaxSearchResults \/ ~FitsResponse(p.used, n, Ranking[n + 1].bytes)
    BY <2>1 DEF Packed, Packs
  <2>4. ResponseBytes = p.used + 20 - (IF Truncated THEN 1 ELSE 0)
    <3>1. ResponseBytes = Encoded(Results) + 20 - (IF Truncated THEN 1 ELSE 0)
      BY DEF ResponseBytes, Encoded, ResultBytes
    <3> QED BY <2>3, <3>1
  <2>5. ASSUME Truncated = TRUE, n < MaxSearchResults
        PROVE  ResponseBytes + 1 + 1 + Ranking[n + 1].bytes > maxSearchResponseBytes
    <3>1. n + 1 \in 1..Len(Ranking) /\ Ranking # <<>>
      BY <2>2, <2>3, <2>5
    <3>2. Ranking[n + 1].bytes \in Int
      <4>1. Packable(Ranking)
        BY <3>1, RankingPackable DEF Ranking
      <4> QED BY <3>1, <4>1, CapabilitiesAssumption DEF Packable
    <3>3. ~(p.used + 1 + Ranking[n + 1].bytes + 20 <= maxSearchResponseBytes)
      BY <2>2, <2>3, <2>5, <3>2 DEF FitsResponse
    <3>4. ResponseBytes = p.used + 20 - 1
      BY <2>4, <2>5
    <3> HIDE DEF n
    <3> QED BY <2>2, <2>3, <3>2, <3>3, <3>4
  <2>6. ResponseBytes <= maxSearchResponseBytes
    BY <2>2, <2>3, <2>4
  <2>7. Truncated <=> n < Len(Ranking)
    BY <2>2, <2>3
  <2>8. Len(Ranking) > 0 => n > 0
    BY <2>2, <2>3
  <2> HIDE DEF n
  <2> QED BY <2>2, <2>3, <2>5, <2>6, <2>7, <2>8 DEF PackedPrefix, Ranking, n
<1> QED
  BY <1>1, StateCorrect, PTL

\* The capability that the query names is a candidate, marked exact.
LEMMA ExactCandidate ==
  ASSUME NEW S \in SUBSET Capabilities, NEW en \in SetToSeqs(S), NEW i \in DOMAIN en,
         NEW q \in Queries, q.text = en[i].name, uniqueTokens(q.text) # {}
  PROVE  \E d \in CandidateSet(en, q) : d.exact = TRUE
<1> DEFINE docs == compileSearchIndex(en)
           tokens == uniqueTokens(q.text)
           n == Cardinality(tokens)
           d == searchCandidate(en, docs, q, i)
<1>1. IsFiniteSet(tokens)
  BY QueriesAssumption, TokensFinite
<1>2. n \in Nat
  <2> HIDE DEF tokens
  <2> QED BY <1>1, FS_CardinalityType
<1>3. scoreDocument(docs[i], tokens).matched = n
  <2>1. tokens \subseteq uniqueTokens(en[i].name)
    OBVIOUS
  <2> HIDE DEF tokens
  <2> QED BY <1>1, <2>1, Scored
<1>4. n >= requiredMatches(n)
  <2> HIDE DEF n
  <2> QED BY <1>2 DEF requiredMatches
<1>5. i \in eligible(docs, tokens)
  <2>1. i \in DOMAIN docs
    BY DEF compileSearchIndex
  <2> HIDE DEF docs, tokens
  <2> QED BY <1>3, <1>4, <2>1 DEF eligible
<1>6. d \in CandidateSet(en, q)
  <2> HIDE DEF docs, tokens
  <2> QED BY <1>5, Zenon DEF CandidateSet, docs, tokens
<1>7. d.exact = (docs[i].normalizedName = ToLower(q.text))
  <2> HIDE DEF docs
  <2> QED BY DEF searchCandidate
<1>8. docs[i].normalizedName = ToLower(q.text)
  BY Document
<1> HIDE DEF d, docs
<1>9. d.exact = TRUE
  BY <1>7, <1>8, Zenon
<1> QED
  BY <1>6, <1>9

\* ExactNameFirst: whoever searches for the name of an enabled capability finds it, or one
\* whose name differs only in case, at the top. For all capabilities and limits.
THEOREM ExactNameFirstCorrect == Spec => []ExactNameFirst
<1>1. StateInv => ExactNameFirst
  <2> SUFFICES ASSUME StateInv, Answer, NEW c \in ToSet(catalog.enabled),
                      response.query.text = c.name, uniqueTokens(c.name) # {}
               PROVE  Results # <<>> /\ ToLower(Results[1].name) = ToLower(c.name)
    BY DEF ExactNameFirst
  <2> DEFINE en == catalog.enabled
             q == response.query
             S == Kept(catalog.registrations, catalog.disabled)
             C == CandidateSet(en, q)
  <2>1. S \in SUBSET Capabilities /\ en \in SetToSeqs(S) /\ q \in Queries
    BY AnswerFacts, Enabled
  <2>2. PICK i \in DOMAIN en : en[i] = c
    BY DEF ToSet
  <2>3. /\ Ranking \in Seq(C) /\ ToSet(Ranking) = C
        /\ \A j, k \in DOMAIN Ranking : j < k => compareSearchCandidates(Ranking[j], Ranking[k])
    BY RankingPackable
  <2>4. q.text = en[i].name /\ uniqueTokens(q.text) # {} /\ q.text = c.name
    BY <2>2
  <2> HIDE DEF en, q, S
  <2>5. PICK d \in C : d.exact = TRUE
    BY <2>1, <2>4, ExactCandidate, Zenon
  <2>6. /\ IsFiniteSet(C)
        /\ \A e \in C :
             /\ e.entry \in S /\ e.bytes = e.entry.bytes /\ e.score \in Int
             /\ e.exact = (ToLower(e.entry.name) = ToLower(q.text))
        /\ \A e, f \in C : e.entry.order = f.entry.order => e = f
    BY <2>1, <2>4, CandidateFacts, Zenon
  <2> HIDE DEF C
  <2>7. PICK j \in DOMAIN Ranking : Ranking[j] = d
    BY <2>3 DEF ToSet
  <2>8. 1 \in DOMAIN Ranking /\ Len(Ranking) > 0 /\ Ranking[1] \in C
    BY <2>3, <2>7
  <2>9. Ranking[1].exact
    <3>1. CASE j = 1
      BY <2>5, <2>7, <3>1
    <3>2. CASE j # 1
      <4>1. compareSearchCandidates(Ranking[1], d)
        BY <2>3, <2>7, <2>8, <3>2
      <4> QED BY <2>5, <4>1, Zenon DEF compareSearchCandidates
    <3> QED BY <3>1, <3>2
  <2>10. ToLower(Ranking[1].entry.name) = ToLower(c.name)
    BY <2>4, <2>6, <2>8, <2>9, Zenon
  <2>11. PICK p : Packed(Ranking, Len(Ranking), p) /\ Results = p.results
    BY AnswerPacked
  <2>12. Results \in Seq(Capabilities) /\ Len(Results) > 0 /\ Results[1] = Ranking[1].entry
    <3>1. p \in Packs /\ (p.truncated = TRUE \/ p.truncated = FALSE)
      BY <2>11 DEF Packed, Packs
    <3>2. Len(p.results) > 0
      BY <2>8, <2>11, <3>1 DEF Packed
    <3> QED BY <2>11, <3>1, <3>2 DEF Packed, Packs
  <2>13. Results # <<>>
    BY <2>12
  <2> QED BY <2>10, <2>12, <2>13
<1> QED
  BY <1>1, StateCorrect, PTL

-----------------------------------------------------------------------------
(* The size of the metadata *)

\* A number f[x] as a set of that many pairs, one set for each element of S.
Units(S, f) == UNION {{x} \X (1..f[x]) : x \in S}

\* The sum over the elements of a set is the number of its units, in whatever order it is
\* added up.
LEMMA SumIsCount ==
  ASSUME NEW S, IsFiniteSet(S), NEW f \in [S -> Nat], NEW s \in SetToSeqs(S)
  PROVE  /\ IsFiniteSet(Units(S, f))
         /\ Total([i \in DOMAIN s |-> f[s[i]]]) = Cardinality(Units(S, f))
<1> DEFINE n == Len(s)
           unit(i) == {s[i]} \X (1..f[s[i]])
           P(k) == UNION {unit(i) : i \in 1..k}
           numbers == [i \in DOMAIN s |-> f[s[i]]]
           h == [k \in 0..n |-> Cardinality(P(k))]
           Good == {k \in 0..n : IsFiniteSet(P(k))}
<1>1. /\ s \in Seq(S) /\ ToSet(s) = S /\ DOMAIN s = 1..n /\ n \in Nat
      /\ \A i, j \in 1..n : i # j => s[i] # s[j]
  <2>1. /\ s \in Seq(S) /\ ToSet(s) = S /\ DOMAIN s = 1..Len(s)
        /\ \A i, j \in DOMAIN s : i # j => s[i] # s[j]
    BY Listing
  <2> QED BY <2>1
<1>2. /\ numbers \in Seq(Int) /\ Len(numbers) = n /\ \A k \in 1..n : numbers[k] = f[s[k]]
  BY <1>1
<1>3. ASSUME NEW k \in 1..n
      PROVE  IsFiniteSet(unit(k)) /\ Cardinality(unit(k)) = f[s[k]] /\ f[s[k]] \in Nat
  <2> DEFINE b == f[s[k]]
  <2>1. b \in Nat
    BY <1>1
  <2>2. IsFiniteSet({s[k]}) /\ Cardinality({s[k]}) = 1
    BY FS_Singleton
  <2>3. IsFiniteSet(1..b) /\ Cardinality(1..b) = b
    <3> HIDE DEF b
    <3> QED BY <2>1, FS_Interval
  <2> HIDE DEF b
  <2>4. IsFiniteSet({s[k]} \X (1..b)) /\ Cardinality({s[k]} \X (1..b)) = 1 * b
    <3>1. /\ IsFiniteSet({s[k]} \X (1..b))
          /\ Cardinality({s[k]} \X (1..b)) = Cardinality({s[k]}) * Cardinality(1..b)
      BY <2>2, <2>3, FS_Product, Zenon
    <3> QED BY <2>2, <2>3, <3>1, Zenon
  <2> QED BY <2>1, <2>4 DEF b
<1>4. P(0) = {}
  OBVIOUS
<1>5. ASSUME NEW k \in 1..n PROVE P(k) = P(k - 1) \cup unit(k) /\ P(k - 1) \cap unit(k) = {}
  <2>1. 1..k = (1..(k - 1)) \cup {k}
    OBVIOUS
  <2>2. ASSUME NEW i \in 1..(k - 1), NEW x \in unit(i), x \in unit(k) PROVE FALSE
    <3>1. i \in 1..n /\ i # k
      BY <1>1
    <3>2. x[1] = s[i] /\ x[1] = s[k]
      BY <2>2
    <3> QED BY <1>1, <3>1, <3>2
  <2> HIDE DEF unit
  <2>3. P(k) = P(k - 1) \cup unit(k)
    BY <2>1
  <2> QED BY <2>2, <2>3
<1> HIDE DEF unit
<1>6. 0 \in Good
  <2>1. 0 \in 0..n
    BY <1>1
  <2>2. IsFiniteSet(P(0))
    <3> HIDE DEF P
    <3> QED BY <1>4, FS_EmptySet, Zenon
  <2> HIDE DEF P
  <2> QED BY <2>1, <2>2
<1>7. ASSUME NEW k \in 1..n, IsFiniteSet(P(k - 1))
      PROVE  IsFiniteSet(P(k)) /\ Cardinality(P(k)) = Cardinality(P(k - 1)) + f[s[k]]
  <2> HIDE DEF P
  <2>1. /\ IsFiniteSet(P(k - 1) \cup unit(k))
        /\ Cardinality(P(k - 1) \cup unit(k))
             = Cardinality(P(k - 1)) + Cardinality(unit(k)) - Cardinality(P(k - 1) \cap unit(k))
    BY <1>3, <1>7, FS_Union, Zenon
  <2>2. Cardinality(P(k - 1) \cap unit(k)) = 0 /\ Cardinality(P(k - 1)) \in Nat
    BY <1>5, <1>7, FS_EmptySet, FS_CardinalityType
  <2>3. P(k) = P(k - 1) \cup unit(k)
    BY <1>5
  <2>4. IsFiniteSet(P(k))
    BY <2>1, <2>3, Zenon
  <2>5. Cardinality(P(k))
          = Cardinality(P(k - 1)) + Cardinality(unit(k)) - Cardinality(P(k - 1) \cap unit(k))
    BY <2>1, <2>3, Zenon
  <2>6. Cardinality(unit(k)) = f[s[k]] /\ f[s[k]] \in Nat
    BY <1>3
  <2> QED BY <2>2, <2>4, <2>5, <2>6
<1>8. 0..n \subseteq Good
  <2>1. \A k \in 1..n : k - 1 \in Good => k \in Good
    <3> HIDE DEF P
    <3> QED BY <1>7
  <2> HIDE DEF Good, n
  <2> QED BY <1>1, <1>6, <2>1, LoopInduction, Zenon
<1>9. h[0] = 0 /\ h[n] = Cardinality(P(n))
  <2>1. Cardinality(P(0)) = 0
    BY <1>4, FS_EmptySet
  <2> HIDE DEF P
  <2> QED BY <1>1, <2>1
<1>10. ASSUME NEW k \in 1..n PROVE h[k] = h[k - 1] + numbers[k]
  <2>1. k - 1 \in 0..n /\ k \in 0..n
    BY <1>1
  <2>2. IsFiniteSet(P(k - 1))
    BY <1>8, <2>1
  <2> HIDE DEF P, numbers
  <2> QED BY <1>2, <1>7, <2>1, <2>2
<1>11. Total(numbers) = Cardinality(P(n))
  <2> HIDE DEF h, numbers, P, n
  <2> QED BY <1>2, <1>9, <1>10, TotalIs
<1>12. P(n) = Units(S, f)
  <2>1. S = {s[i] : i \in 1..n}
    BY <1>1 DEF ToSet
  <2> QED BY <2>1 DEF Units, unit
<1>13. IsFiniteSet(P(n))
  <2>1. n \in 0..n
    BY <1>1
  <2> HIDE DEF P, n
  <2> QED BY <1>8, <2>1
<1> QED
  BY <1>11, <1>12, <1>13

\* Fewer registrations have no more metadata.
LEMMA SumOfFewer ==
  ASSUME NEW T, IsFiniteSet(T), NEW S \in SUBSET T, NEW f \in [T -> Nat],
         NEW s \in SetToSeqs(S), NEW t \in SetToSeqs(T)
  PROVE  Total([i \in DOMAIN s |-> f[s[i]]]) <= Total([i \in DOMAIN t |-> f[t[i]]])
<1> DEFINE g == [x \in S |-> f[x]]
<1>1. IsFiniteSet(S) /\ g \in [S -> Nat]
  BY FS_Subset
<1>2. s \in Seq(S)
  BY <1>1, Listing
<1>3. [i \in DOMAIN s |-> f[s[i]]] = [i \in DOMAIN s |-> g[s[i]]]
  BY <1>2
<1>4. Units(S, g) \in SUBSET Units(T, f)
  BY DEF Units
<1> HIDE DEF g
<1>5. Total([i \in DOMAIN s |-> g[s[i]]]) = Cardinality(Units(S, g))
  BY <1>1, SumIsCount
<1>6. /\ IsFiniteSet(Units(T, f))
      /\ Total([i \in DOMAIN t |-> f[t[i]]]) = Cardinality(Units(T, f))
  BY SumIsCount
<1>7. Cardinality(Units(S, g)) <= Cardinality(Units(T, f))
  BY <1>4, <1>6, FS_Subset
<1> QED
  BY <1>3, <1>5, <1>6, <1>7

\* The bytes of a text and of the metadata of a capability.
LEMMA MetadataType ==
  ASSUME NEW c \in Capabilities
  PROVE  searchableMetadataBytes(c) \in Nat
<1>1. ASSUME NEW text \in Texts PROVE Bytes(text) \in Nat
  <2> DEFINE sep(i) == IF text[i].gap \in Separators THEN 1 ELSE 0
             numbers == [i \in DOMAIN text |-> Runes[text[i].word] + sep(i)]
  <2>1. ASSUME NEW i \in 1..Len(text) PROVE Runes[text[i].word] \in Nat
    <3>1. text[i] \in Pieces
      BY DEF Texts
    <3>2. text[i].word \in DOMAIN Runes
      BY <3>1, Zenon DEF Pieces
    <3> QED BY <3>2, RunesAssumption
  <2>2. \A i : sep(i) \in Nat
    OBVIOUS
  <2>3. DOMAIN text = 1..Len(text) /\ Len(text) \in Nat
    BY DEF Texts
  <2> HIDE DEF sep
  <2>4. numbers \in Seq(Nat)
    BY <2>1, <2>2, <2>3
  <2>5. Bytes(text) = Total(numbers)
    BY Zenon DEF Bytes, sep
  <2> HIDE DEF numbers
  <2> QED BY <2>4, <2>5, TotalFacts
<1>2. ASSUME NEW terms \in Seq(Texts) PROVE TermBytes(terms) \in Nat
  <2> DEFINE numbers == [i \in DOMAIN terms |-> Bytes(terms[i])]
  <2>1. numbers \in Seq(Nat)
    BY <1>1
  <2>2. TermBytes(terms) = Total(numbers)
    BY Zenon DEF TermBytes
  <2> HIDE DEF numbers
  <2> QED BY <2>1, <2>2, TotalFacts
<1>3. c.name \in Texts /\ c.summary \in Texts /\ c.description \in Texts /\ c.terms \in Seq(Texts)
  BY CapabilitiesAssumption
<1>4. Bytes(c.name) \in Nat /\ Bytes(c.summary) \in Nat /\ Bytes(c.description) \in Nat /\ TermBytes(c.terms) \in Nat
  BY <1>1, <1>2, <1>3
<1> QED
  BY <1>4 DEF searchableMetadataBytes

\* When a catalog was built, the capabilities it keeps could have been registered alone,
\* and have then the same order and the same index.
LEMMA Alone ==
  ASSUME NEW regs \in Registrations, NEW disabled, BuildCatalog(regs, disabled).kind = "catalog"
  PROVE  LET alone == BuildCatalog(SetToSeq(Kept(regs, disabled)), {})
         IN /\ alone.enabled = filterEnabled(regs, disabled)
            /\ alone.documents = compileSearchIndex(filterEnabled(regs, disabled))
<1> DEFINE T == ToSet(regs)
           S == Kept(regs, disabled)
           list == SetToSeq(S)
           enabled == filterEnabled(regs, disabled)
           bytes == [c \in T |-> searchableMetadataBytes(c)]
<1>1. T \in SUBSET Capabilities /\ IsFiniteSet(T) /\ regs \in SetToSeqs(T)
  BY RegistrationsFacts
<1>2. S \in SUBSET T
  BY DEF Kept
<1>3. IsFiniteSet(S) /\ Cardinality(S) <= Cardinality(T)
  <2> HIDE DEF S, T
  <2> QED BY <1>1, <1>2, FS_Subset
<1>4. /\ Len(regs) <= maxSupportedRegistrations
      /\ Total([i \in DOMAIN regs |-> searchableMetadataBytes(regs[i])]) <= maxSearchableMetadataBytes
      /\ \A i \in DOMAIN regs : validateSearchTerms(regs[i].terms)
      /\ \A i \in DOMAIN enabled : resultFitsResponseCap(enabled[i].bytes)
  BY BuildFacts
<1>5. list \in SetToSeqs(S)
  <2> HIDE DEF S
  <2> QED BY <1>3, Listed
<1> HIDE DEF list
<1>6. list \in Seq(S) /\ Len(list) = Cardinality(S) /\ ToSet(list) = S
  <2> HIDE DEF S
  <2> QED BY <1>3, <1>5, Listing
<1>7. regs \in Seq(T) /\ Len(regs) = Cardinality(T)
  <2> HIDE DEF T
  <2> QED BY <1>1, Listing
<1>8. Len(list) <= maxSupportedRegistrations
  <2>1. Len(list) \in Nat /\ Len(regs) \in Nat /\ maxSupportedRegistrations \in Nat
    BY <1>6, <1>7, LimitsAssumption
  <2> QED BY <1>3, <1>4, <1>6, <1>7, <2>1
<1>9. Total([i \in DOMAIN list |-> searchableMetadataBytes(list[i])]) <= maxSearchableMetadataBytes
  <2>1. bytes \in [T -> Nat]
    BY <1>1, MetadataType
  <2>2. [i \in DOMAIN list |-> searchableMetadataBytes(list[i])] = [i \in DOMAIN list |-> bytes[list[i]]]
    BY <1>2, <1>6
  <2>3. [i \in DOMAIN regs |-> searchableMetadataBytes(regs[i])] = [i \in DOMAIN regs |-> bytes[regs[i]]]
    BY <1>7
  <2> HIDE DEF bytes, S, T
  <2>4. Total([i \in DOMAIN list |-> bytes[list[i]]]) <= Total([i \in DOMAIN regs |-> bytes[regs[i]]])
    BY <1>1, <1>2, <1>5, <2>1, SumOfFewer
  <2>5. Total([i \in DOMAIN list |-> bytes[list[i]]]) \in Int
    <3>1. [i \in DOMAIN list |-> bytes[list[i]]] \in Seq(Int)
      BY <1>2, <1>6, <2>1
    <3> QED BY <3>1, TotalFacts
  <2>6. Total([i \in DOMAIN regs |-> bytes[regs[i]]]) \in Int
    <3>1. [i \in DOMAIN regs |-> bytes[regs[i]]] \in Seq(Int)
      BY <1>7, <2>1
    <3> QED BY <3>1, TotalFacts
  <2>7. maxSearchableMetadataBytes \in Int
    BY LimitsAssumption
  <2> DEFINE x == Total([i \in DOMAIN list |-> bytes[list[i]]])
             y == Total([i \in DOMAIN regs |-> bytes[regs[i]]])
  <2>8. x <= y /\ x \in Int /\ y \in Int /\ y <= maxSearchableMetadataBytes
    BY <1>4, <2>3, <2>4, <2>5, <2>6, Zenon
  <2> HIDE DEF x, y
  <2>9. x <= maxSearchableMetadataBytes
    BY <2>7, <2>8
  <2> QED BY <2>2, <2>9, Zenon DEF x
<1>10. \A i \in DOMAIN list : validateSearchTerms(list[i].terms)
  <2>1. ASSUME NEW c \in T PROVE validateSearchTerms(c.terms)
    <3>1. PICK i \in DOMAIN regs : regs[i] = c
      BY DEF ToSet
    <3> QED BY <1>4, <3>1, Zenon
  <2>2. \A i \in DOMAIN list : list[i] \in T
    BY <1>2, <1>6
  <2> QED BY <2>1, <2>2, Zenon
<1>11. filterEnabled(list, {}) = enabled
  <2>1. {c \in ToSet(list) : c.id \notin {}} = {c \in ToSet(regs) : c.id \notin disabled}
    BY <1>6 DEF Kept
  <2> QED BY <2>1, Zenon DEF filterEnabled
<1>12. BuildCatalog(list, {}) =
         [kind |-> "catalog", registrations |-> list, disabled |-> {},
          enabled |-> enabled, documents |-> compileSearchIndex(enabled)]
  <2> HIDE DEF enabled
  <2> QED BY <1>4, <1>8, <1>9, <1>10, <1>11, Zenon DEF BuildCatalog
<1> HIDE DEF enabled
<1> QED
  BY <1>12 DEF list, enabled

\* DisabledLeavesNoTrace: the answers are those of a catalog in which the disabled
\* capabilities were never registered. For all capabilities and limits.
THEOREM DisabledLeavesNoTraceCorrect == Spec => []DisabledLeavesNoTrace
<1>1. StateInv => DisabledLeavesNoTrace
  <2> SUFFICES ASSUME StateInv PROVE DisabledLeavesNoTrace
    OBVIOUS
  <2> DEFINE regs == catalog.registrations
             disabled == catalog.disabled
             others == {c \in ToSet(regs) : c.id \notin disabled}
             alone == BuildCatalog(SetToSeq(others), {})
  <2>0. others = Kept(regs, disabled)
    BY DEF Kept
  <2>1. ASSUME Answer
        PROVE  SearchCatalog(alone, response.query) = response.answer
    <3>1. /\ regs \in Registrations /\ catalog = BuildCatalog(regs, disabled)
          /\ catalog.enabled = filterEnabled(regs, disabled)
          /\ catalog.documents = compileSearchIndex(catalog.enabled)
          /\ response.answer = SearchCatalog(catalog, response.query)
      BY <2>1, AnswerFacts
    <3>2. catalog.kind = "catalog"
      BY <2>1 DEF StateInv, Responded, Answer, None
    <3>3. alone.enabled = catalog.enabled /\ alone.documents = catalog.documents
      <4> HIDE DEF others, regs, disabled
      <4>1. BuildCatalog(regs, disabled).kind = "catalog"
        BY <3>1, <3>2, Zenon
      <4>2. /\ alone.enabled = filterEnabled(regs, disabled)
            /\ alone.documents = compileSearchIndex(filterEnabled(regs, disabled))
        BY <2>0, <3>1, <4>1, Alone, Zenon
      <4> QED BY <3>1, <4>2, Zenon
    <3> HIDE DEF alone
    <3>4. SearchCatalog(alone, response.query) = SearchCatalog(catalog, response.query)
      BY <3>3, Zenon DEF SearchCatalog
    <3> QED BY <3>1, <3>4, Zenon
  <2>2. ASSUME response.kind = "description"
        PROVE  response.found = {c \in others : c.name = response.name}
    <3>1. response # None /\ response.kind # "answer" /\ catalog.kind = "catalog"
      BY <2>2 DEF StateInv, Responded, None
    <3>2. PICK name : response = [kind |-> "description", name |-> name, found |-> Lookup(catalog, name)]
      BY <3>1 DEF StateInv, Responded
    <3>3. regs \in Registrations /\ catalog = BuildCatalog(regs, disabled)
      BY <3>1 DEF StateInv, Built
    <3>4. ToSet(catalog.enabled) = others
      <4> HIDE DEF others, regs, disabled
      <4>1. BuildCatalog(regs, disabled).kind = "catalog"
        BY <3>1, <3>3, Zenon
      <4>2. BuildCatalog(regs, disabled).enabled = filterEnabled(regs, disabled)
        BY <4>1, BuildFacts, Zenon
      <4>3. ToSet(filterEnabled(regs, disabled)) = others
        BY <2>0, <3>3, Enabled, Zenon
      <4> QED BY <3>3, <4>2, <4>3, Zenon
    <3> HIDE DEF others
    <3> QED BY <3>2, <3>4 DEF Lookup
  <2> HIDE DEF alone
  <2>3. Answer => Results = SearchCatalog(alone, response.query).results
    BY <2>1, Zenon DEF Results
  <2>4. Answer => Truncated = SearchCatalog(alone, response.query).truncated
    BY <2>1, Zenon DEF Truncated
  <2> QED BY <2>2, <2>3, <2>4, Zenon DEF DisabledLeavesNoTrace, alone
<1> QED
  BY <1>1, StateCorrect, PTL

=============================================================================
