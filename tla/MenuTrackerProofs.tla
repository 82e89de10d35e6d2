------------------------- MODULE MenuTrackerProofs -------------------------
(***************************************************************************)
(* Proofs about GtkMenuTracker, for menus of any size: its sections are    *)
(* always those of the exported models, it holds as many rows as they      *)
(* measure, the handler of items-changed finds its section, and, while the *)
(* peer keeps to the order, the rows are the flattened menu.               *)
(*                                                                         *)
(* The operators of MenuTracker are functions on the sections, each given  *)
(* by an equation that goes down the tree.  First the equations are solved *)
(* (Recursion), by the height of a section; then come the tree and what a  *)
(* change makes of it; then how many rows there are, in the tree and after *)
(* the handler; then which rows.                                           *)
(***************************************************************************)
EXTENDS MenuTracker, SequenceTheorems, WellFoundedInduction, TLAPS

\* A set of numbers has a least one.
LEMMA Least ==
  ASSUME NEW T \in SUBSET Nat, T # {}
  PROVE  \E n \in T : \A j \in T : n <= j
<1> DEFINE R == OpToRel(<, Nat)
<1>1. IsWellFoundedOn(R, Nat)
  BY NatLessThanWellFounded
<1>2. \A i, j \in Nat : i < j => <<i, j>> \in R
  BY DEF OpToRel
<1> HIDE DEF R
<1>3. PICK n \in T : \A j \in T : ~(<<j, n>> \in R)
  BY <1>1, WFMin
<1>4. \A j \in T : j \in Nat /\ n \in Nat /\ ~(j < n)
  BY <1>2, <1>3
<1> QED BY <1>4

\* Induction over what has a rank.
LEMMA RankInduction ==
  ASSUME NEW S, NEW rank \in [S -> Nat], NEW P,
         \A x \in S : (\A y \in S : rank[y] < rank[x] => y \in P) => x \in P
  PROVE  \A x \in S : x \in P
<1> SUFFICES ASSUME NEW z \in S, z \notin P PROVE FALSE
  OBVIOUS
<1> DEFINE T == {rank[x] : x \in S \ P}
<1>1. T \in SUBSET Nat /\ T # {}
  OBVIOUS
<1>2. PICK n \in T : \A j \in T : n <= j
  BY <1>1, Least
<1>3. PICK x \in S \ P : rank[x] = n
  BY <1>2
<1>4. \A y \in S : rank[y] < rank[x] => y \in P
  <2> SUFFICES ASSUME NEW y \in S, rank[y] < rank[x], y \notin P PROVE FALSE
    OBVIOUS
  <2>1. rank[y] \in T /\ rank[y] \in Nat /\ rank[x] \in Nat
    OBVIOUS
  <2> QED BY <1>2, <1>3, <2>1
<1> QED BY <1>3, <1>4

\* Induction over the numbers up to n.
LEMMA UpTo ==
  ASSUME NEW n \in Nat, NEW P, 0 \in P, \A k \in 0..(n - 1) : k \in P => k + 1 \in P
  PROVE  \A k \in 0..n : k \in P
<1> DEFINE S == 0..n
           rank == [k \in S |-> k]
<1>1. rank \in [S -> Nat]
  OBVIOUS
<1>2. ASSUME NEW k \in S, \A j \in S : rank[j] < rank[k] => j \in P PROVE k \in P
  <2>1. CASE k = 0
    BY <2>1
  <2>2. CASE k # 0
    <3>1. k - 1 \in S /\ k - 1 < k /\ k - 1 \in 0..(n - 1) /\ (k - 1) + 1 = k
      BY <2>2
    <3>2. k - 1 \in P
      BY <1>2, <3>1
    <3> QED BY <3>1, <3>2
  <2> QED BY <2>1, <2>2
<1> HIDE DEF rank, S
<1>3. \A k \in S : k \in P
  BY <1>1, <1>2, RankInduction
<1> QED BY <1>3 DEF S

\* D gives the value at x of a function that has the given values at lower ranks.
Recursive(S, V, rank, D) ==
  /\ V # {} /\ rank \in [S -> Nat] /\ D \in [S \X [S -> V] -> V]
  /\ \A x \in S : \A g, h \in [S -> V] :
       (\A y \in S : rank[y] < rank[x] => g[y] = h[y]) => D[<<x, g>>] = D[<<x, h>>]

Solves(f, S, V, D) == f \in [S -> V] /\ \A x \in S : f[x] = D[<<x, f>>]

\* A function that is defined by what it is for lower ranks is there.
LEMMA Recursion ==
  ASSUME NEW S, NEW V, NEW rank, NEW D, Recursive(S, V, rank, D)
  PROVE  \E f : Solves(f, S, V, D)
<1>0. /\ rank \in [S -> Nat] /\ D \in [S \X [S -> V] -> V]
      /\ \A x \in S : \A g, h \in [S -> V] :
           (\A y \in S : rank[y] < rank[x] => g[y] = h[y]) => D[<<x, g>>] = D[<<x, h>>]
  BY DEF Recursive
<1> USE <1>0
<1> PICK v \in V : TRUE
  BY DEF Recursive
<1> DEFINE Good(n, f) == \A x \in S : rank[x] < n => f[x] = D[<<x, f>>]
           P == {n \in Nat : \E f \in [S -> V] : Good(n, f)}
<1>1. \A n \in Nat : n \in P
  <2>1. 0 \in P
    <3>1. [x \in S |-> v] \in [S -> V] /\ Good(0, [x \in S |-> v])
      OBVIOUS
    <3> QED BY <3>1
  <2>2. ASSUME NEW n \in Nat, n \in P PROVE n + 1 \in P
    <3>1. PICK f \in [S -> V] : Good(n, f)
      BY <2>2
    <3> DEFINE g == [x \in S |-> IF rank[x] < n + 1 THEN D[<<x, f>>] ELSE f[x]]
    <3>2. g \in [S -> V]
      OBVIOUS
    <3>3. \A y \in S : rank[y] < n => g[y] = f[y]
      BY <3>1
    <3>4. \A x \in S : rank[x] < n + 1 => g[x] = D[<<x, f>>]
      OBVIOUS
    <3> HIDE DEF g
    <3>5. ASSUME NEW x \in S, rank[x] < n + 1 PROVE g[x] = D[<<x, g>>]
      <4>1. \A y \in S : rank[y] < rank[x] => g[y] = f[y]
        BY <3>3, <3>5
      <4>2. D[<<x, g>>] = D[<<x, f>>]
        BY <3>2, <4>1
      <4> QED BY <3>4, <3>5, <4>2
    <3>6. Good(n + 1, g)
      BY <3>5
    <3> QED BY <3>2, <3>6
  <2> HIDE DEF P
  <2> SUFFICES ASSUME NEW m \in Nat PROVE m \in P
    OBVIOUS
  <2>3. \A k \in 0..m : k \in P
    BY <2>1, <2>2, UpTo
  <2> QED BY <2>3
<1>2. \A n \in Nat : \E f \in [S -> V] : Good(n, f)
  BY <1>1
<1> DEFINE F(n) == CHOOSE f \in [S -> V] : Good(n, f)
<1>3. \A n \in Nat : F(n) \in [S -> V] /\ Good(n, F(n))
  <2> SUFFICES ASSUME NEW n \in Nat PROVE F(n) \in [S -> V] /\ Good(n, F(n))
    OBVIOUS
  <2> QED BY <1>2
<1> HIDE DEF F
\* Two of them agree where both are good.
<1>4. ASSUME NEW m \in Nat, NEW n \in Nat, NEW x \in S, rank[x] < m, rank[x] < n
      PROVE  F(m)[x] = F(n)[x]
  <2> DEFINE Q == {y \in S : rank[y] < m /\ rank[y] < n => F(m)[y] = F(n)[y]}
  <2>1. ASSUME NEW y \in S, \A z \in S : rank[z] < rank[y] => z \in Q PROVE y \in Q
    <3> SUFFICES ASSUME rank[y] < m, rank[y] < n PROVE F(m)[y] = F(n)[y]
      OBVIOUS
    <3>1. \A z \in S : rank[z] < rank[y] => F(m)[z] = F(n)[z]
      BY <2>1
    <3>2. D[<<y, F(m)>>] = D[<<y, F(n)>>]
      BY <1>3, <3>1
    <3> QED BY <1>3, <3>2
  <2> HIDE DEF Q
  <2>2. \A y \in S : y \in Q
    BY <2>1, RankInduction
  <2> QED BY <1>4, <2>2 DEF Q
<1> DEFINE H == [x \in S |-> F(rank[x] + 1)[x]]
<1>5. H \in [S -> V]
  BY <1>3
<1>6. ASSUME NEW x \in S PROVE H[x] = D[<<x, H>>]
  <2> DEFINE n == rank[x] + 1
  <2>1. n \in Nat /\ rank[x] < n
    OBVIOUS
  <2>2. F(n)[x] = D[<<x, F(n)>>]
    BY <1>3, <2>1
  <2>3. ASSUME NEW y \in S, rank[y] < rank[x] PROVE H[y] = F(n)[y]
    <3>1. rank[y] + 1 \in Nat /\ rank[y] < rank[y] + 1 /\ rank[y] < n
      BY <2>3
    <3> QED BY <1>4, <2>1, <3>1
  <2> HIDE DEF H
  <2>4. D[<<x, H>>] = D[<<x, F(n)>>]
    BY <1>3, <1>5, <2>1, <2>3
  <2> QED BY <2>2, <2>4 DEF H
<1> QED BY <1>5, <1>6 DEF Solves

\* An induction over sequences that grow at the end.
LEMMA SeqInduction ==
  ASSUME NEW S, NEW P, <<>> \in P,
         \A s \in Seq(S) : \A e \in S : s \in P => Append(s, e) \in P
  PROVE  \A s \in Seq(S) : s \in P
<1> DEFINE rank == [s \in Seq(S) |-> Len(s)]
<1>1. rank \in [Seq(S) -> Nat]
  OBVIOUS
<1>2. ASSUME NEW s \in Seq(S), \A t \in Seq(S) : rank[t] < rank[s] => t \in P PROVE s \in P
  <2>1. CASE s = <<>>
    BY <2>1
  <2>2. CASE s # <<>>
    <3>1. PICK t \in Seq(S), e \in S : s = Append(t, e)
      BY <2>2, SequenceEmptyOrAppend
    <3>2. Len(s) = Len(t) + 1 /\ Len(t) \in Nat
      BY <3>1
    <3>3. rank[t] < rank[s]
      BY <3>2
    <3>4. t \in P
      BY <1>2, <3>3
    <3> QED BY <3>1, <3>4
  <2> QED BY <2>1, <2>2
<1> HIDE DEF rank
<1> QED BY <1>1, <1>2, RankInduction

\* The partial sums of a sequence.
Sums(ns, t) ==
  /\ t \in [0..Len(ns) -> Nat] /\ t[0] = 0
  /\ \A k \in 1..Len(ns) : t[k] = t[k - 1] + ns[k]

\* The total of a sequence is the last of its running sums.
LEMMA TotalSums ==
  ASSUME NEW ns \in Seq(Nat)
  PROVE  \E t : Sums(ns, t) /\ Total(ns) = t[Len(ns)]
<1> DEFINE S == 0..Len(ns)
           rank == [k \in S |-> k]
           D == [p \in S \X [S -> Nat] |-> IF p[1] = 0 THEN 0 ELSE p[2][p[1] - 1] + ns[p[1]]]
           Eq(t) == t = [k \in 0..Len(ns) |-> IF k = 0 THEN 0 ELSE t[k - 1] + ns[k]]
<1>1. rank \in [S -> Nat] /\ 0 \in Nat
  OBVIOUS
<1>2. \A k \in S, g \in [S -> Nat] : D[<<k, g>>] = IF k = 0 THEN 0 ELSE g[k - 1] + ns[k]
  OBVIOUS
<1>3. D \in [S \X [S -> Nat] -> Nat]
  <2>1. \A k \in S : k # 0 => k - 1 \in S /\ ns[k] \in Nat
    OBVIOUS
  <2> QED BY <2>1
<1>4. ASSUME NEW k \in S, NEW g \in [S -> Nat], NEW h \in [S -> Nat],
             \A j \in S : rank[j] < rank[k] => g[j] = h[j]
      PROVE  D[<<k, g>>] = D[<<k, h>>]
  <2>1. k # 0 => k - 1 \in S /\ rank[k - 1] < rank[k]
    OBVIOUS
  <2> HIDE DEF rank, D, S
  <2> QED BY <1>2, <1>4, <2>1
<1>5. Recursive(S, Nat, rank, D)
  <2> HIDE DEF rank, D, S
  <2> QED BY <1>1, <1>3, <1>4 DEF Recursive
<1> HIDE DEF rank, D, S
<1>51. PICK f : Solves(f, S, Nat, D)
  BY <1>5, Recursion
<1> USE DEF S
<1>6. Eq(f)
  BY <1>2, <1>51 DEF Solves
<1> DEFINE t == CHOOSE t : Eq(t)
<1>7. Eq(t)
  <2> HIDE DEF Eq
  <2> QED BY <1>6
<1>8. Total(ns) = t[Len(ns)]
  BY DEF Total
<1> HIDE DEF t
<1>9. t[0] = 0 /\ \A k \in 1..Len(ns) : t[k] = t[k - 1] + ns[k]
  BY <1>7
<1>10. \A k \in S : t[k] \in Nat
  <2> DEFINE P == {k \in S : t[k] \in Nat}
  <2>1. 0 \in P /\ Len(ns) \in Nat
    BY <1>9
  <2>2. ASSUME NEW k \in 0..(Len(ns) - 1), k \in P PROVE k + 1 \in P
    <3>1. k + 1 \in 1..Len(ns) /\ (k + 1) - 1 = k /\ ns[k + 1] \in Nat
      OBVIOUS
    <3> QED BY <1>9, <2>2, <3>1
  <2> HIDE DEF P
  <2>3. \A k \in 0..Len(ns) : k \in P
    BY <2>1, <2>2, UpTo
  <2> QED BY <2>3 DEF P
<1>11. t \in [0..Len(ns) -> Nat]
  BY <1>7, <1>10
<1> QED BY <1>8, <1>9, <1>11 DEF Sums

\* The total of nothing.
LEMMA TotalEmpty == Total(<<>>) = 0
<1>1. <<>> \in Seq(Nat) /\ Len(<<>>) = 0
  OBVIOUS
<1>2. PICK t : Sums(<<>>, t) /\ Total(<<>>) = t[Len(<<>>)]
  BY <1>1, TotalSums
<1> QED BY <1>1, <1>2 DEF Sums

\* The total of a sequence with one more number.
LEMMA TotalAppend ==
  ASSUME NEW ns \in Seq(Nat), NEW n \in Nat
  PROVE  Total(ns) \in Nat /\ Total(Append(ns, n)) = Total(ns) + n
<1> DEFINE l == Len(ns)
           ms == Append(ns, n)
<1>1. l \in Nat /\ ms \in Seq(Nat) /\ Len(ms) = l + 1 /\ ms[l + 1] = n
      /\ \A k \in 1..l : ms[k] = ns[k]
  OBVIOUS
<1>2. PICK t : Sums(ns, t) /\ Total(ns) = t[l]
  BY TotalSums
<1> HIDE DEF ms
<1>3. PICK u : Sums(ms, u) /\ Total(ms) = u[Len(ms)]
  BY <1>1, TotalSums
<1>4. /\ t \in [0..l -> Nat] /\ t[0] = 0
      /\ \A k \in 1..l : t[k] = t[k - 1] + ns[k]
  BY <1>2 DEF Sums
<1> HIDE DEF l
<1>5. /\ u \in [0..(l + 1) -> Nat] /\ u[0] = 0
      /\ \A k \in 1..(l + 1) : u[k] = u[k - 1] + ms[k]
  BY <1>1, <1>3 DEF Sums
<1> DEFINE P == {k \in 0..l : u[k] = t[k]}
<1>6. 0 \in P
  BY <1>1, <1>4, <1>5
<1>7. ASSUME NEW k \in 0..(l - 1), k \in P PROVE k + 1 \in P
  <2>1. k + 1 \in 1..l /\ k + 1 \in 1..(l + 1) /\ (k + 1) - 1 = k /\ k + 1 \in 0..l
    BY <1>1
  <2>2. u[k + 1] = u[k] + ms[k + 1] /\ t[k + 1] = t[k] + ns[k + 1]
    BY <1>4, <1>5, <2>1
  <2> QED BY <1>1, <1>7, <2>1, <2>2
<1> HIDE DEF P
<1>8. \A k \in 0..l : k \in P
  BY <1>1, <1>6, <1>7, UpTo
<1>9. u[l] = t[l] /\ t[l] \in Nat
  BY <1>1, <1>4, <1>8 DEF P
<1>10. u[l + 1] = u[l] + ms[l + 1]
  <2>1. l + 1 \in 1..(l + 1) /\ (l + 1) - 1 = l
    BY <1>1
  <2> QED BY <1>5, <2>1
<1> QED BY <1>1, <1>2, <1>3, <1>9, <1>10 DEF ms, l

\* The concatenations of the first elements of a sequence of sequences.
Joins(ss, S, t) ==
  /\ t \in [1..Len(ss) -> Seq(S)] /\ t[1] = ss[1]
  /\ \A k \in 2..Len(ss) : t[k] = t[k - 1] \o ss[k]

\* A sequence of sequences is flattened by joining one after the other.
LEMMA FlattenJoins ==
  ASSUME NEW A, NEW ss \in Seq(Seq(A)), ss # <<>>
  PROVE  \E t : Joins(ss, A, t) /\ FlattenSeq(ss) = t[Len(ss)]
<1> DEFINE S == 1..Len(ss)
           V == Seq(A)
           rank == [k \in S |-> k]
           D == [p \in S \X [S -> V] |-> IF p[1] = 1 THEN ss[1] ELSE p[2][p[1] - 1] \o ss[p[1]]]
           Eq(t) == t = [k \in 1..Len(ss) |-> IF k = 1 THEN ss[k] ELSE t[k - 1] \o ss[k]]
<1>0. Len(ss) \in Nat \ {0} /\ 1 \in S /\ ss[1] \in V
  <2>1. Len(ss) \in Nat /\ Len(ss) # 0
    BY EmptySeq
  <2> QED BY <2>1
<1>1. rank \in [S -> Nat] /\ V # {}
  OBVIOUS
<1>2. \A k \in S, g \in [S -> V] : D[<<k, g>>] = IF k = 1 THEN ss[1] ELSE g[k - 1] \o ss[k]
  OBVIOUS
<1>3. D \in [S \X [S -> V] -> V]
  <2>1. \A k \in S : k # 1 => k - 1 \in S
    OBVIOUS
  <2>2. \A k \in S : ss[k] \in V
    OBVIOUS
  <2>3. \A s, u \in V : s \o u \in V
    OBVIOUS
  <2> HIDE DEF S, V
  <2> QED BY <1>0, <2>1, <2>2, <2>3
<1>4. ASSUME NEW k \in S, NEW g \in [S -> V], NEW h \in [S -> V],
             \A j \in S : rank[j] < rank[k] => g[j] = h[j]
      PROVE  D[<<k, g>>] = D[<<k, h>>]
  <2>1. k # 1 => k - 1 \in S /\ rank[k - 1] < rank[k]
    OBVIOUS
  <2> HIDE DEF rank, D, S, V
  <2> QED BY <1>2, <1>4, <2>1
<1>5. Recursive(S, V, rank, D)
  <2> HIDE DEF rank, D, S, V
  <2> QED BY <1>1, <1>3, <1>4 DEF Recursive
<1> HIDE DEF rank, D, S, V
<1>6. PICK f : Solves(f, S, V, D)
  BY <1>5, Recursion
<1>7. Eq(f)
  BY <1>2, <1>6 DEF Solves, S
<1> DEFINE t == CHOOSE t : Eq(t)
<1>8. Eq(t)
  <2> HIDE DEF Eq
  <2> QED BY <1>7
<1>9. FlattenSeq(ss) = t[Len(ss)]
  BY <1>0 DEF FlattenSeq
<1> HIDE DEF t
<1>10. t[1] = ss[1] /\ \A k \in 2..Len(ss) : t[k] = t[k - 1] \o ss[k]
  <2>1. 1 \in 1..Len(ss) /\ \A k \in 2..Len(ss) : k \in 1..Len(ss) /\ k # 1
    BY <1>0
  <2>2. \A k \in 1..Len(ss) : t[k] = IF k = 1 THEN ss[k] ELSE t[k - 1] \o ss[k]
    BY <1>8
  <2> QED BY <2>1, <2>2
<1>11. \A k \in S : t[k] \in V
  <2> DEFINE P == {k \in S : t[k] \in V}
  <2>1. ASSUME NEW k \in S, \A j \in S : rank[j] < rank[k] => j \in P PROVE k \in P
    <3>1. CASE k = 1
      BY <1>0, <1>10, <3>1 DEF P
    <3>2. CASE k # 1
      <4>1. k - 1 \in S /\ rank[k - 1] < rank[k] /\ k \in 2..Len(ss)
        BY <3>2 DEF S, rank
      <4>2. t[k - 1] \in V
        BY <2>1, <4>1 DEF P
      <4>3. ss[k] \in V
        BY <4>1 DEF V
      <4>4. t[k] = t[k - 1] \o ss[k]
        BY <1>10, <4>1
      <4>5. t[k] \in V
        BY <4>2, <4>3, <4>4 DEF V
      <4> QED BY <4>5 DEF P
    <3> QED BY <3>1, <3>2
  <2> HIDE DEF P
  <2>2. \A k \in S : k \in P
    BY <1>1, <2>1, RankInduction
  <2> QED BY <2>2 DEF P
<1>12. t \in [1..Len(ss) -> Seq(A)]
  BY <1>8, <1>11 DEF S, V
<1> QED BY <1>9, <1>10, <1>12 DEF Joins

\* Flattening nothing.
LEMMA FlattenEmpty == FlattenSeq(<<>>) = <<>>
BY DEF FlattenSeq

\* What is flattened has the elements of the parts.
LEMMA FlattenType ==
  ASSUME NEW A, NEW ss \in Seq(Seq(A))
  PROVE  FlattenSeq(ss) \in Seq(A)
<1>1. CASE ss = <<>>
  <2>1. FlattenSeq(ss) = <<>>
    BY <1>1, FlattenEmpty
  <2> QED BY <2>1
<1>2. CASE ss # <<>>
  <2>1. PICK t : Joins(ss, A, t) /\ FlattenSeq(ss) = t[Len(ss)]
    BY <1>2, FlattenJoins
  <2>2. Len(ss) \in 1..Len(ss)
    BY <1>2, EmptySeq
  <2> QED BY <2>1, <2>2 DEF Joins
<1> QED BY <1>1, <1>2

\* Flattening with one more part.
LEMMA FlattenAppend ==
  ASSUME NEW A, NEW ss \in Seq(Seq(A)), NEW s \in Seq(A)
  PROVE  FlattenSeq(Append(ss, s)) = FlattenSeq(ss) \o s
<1> DEFINE l == Len(ss)
           rr == Append(ss, s)
<1>1. l \in Nat /\ rr \in Seq(Seq(A)) /\ rr # <<>> /\ Len(rr) = l + 1 /\ rr[l + 1] = s
      /\ \A k \in 1..l : rr[k] = ss[k]
  <2>1. l \in Nat /\ rr \in Seq(Seq(A))
    OBVIOUS
  <2>2. Len(rr) = l + 1 /\ rr[l + 1] = s /\ \A k \in 1..l : rr[k] = ss[k]
    BY AppendProperties
  <2>3. rr # <<>>
    <3>1. Len(<<>>) = 0 /\ Len(rr) # 0
      BY <2>1, <2>2
    <3> HIDE DEF rr
    <3> QED BY <3>1
  <2> QED BY <2>1, <2>2, <2>3
<1> HIDE DEF rr
<1>2. PICK u : Joins(rr, A, u) /\ FlattenSeq(rr) = u[Len(rr)]
  BY <1>1, FlattenJoins
<1>3. /\ u \in [1..(l + 1) -> Seq(A)] /\ u[1] = rr[1] /\ FlattenSeq(rr) = u[l + 1]
      /\ \A k \in 2..(l + 1) : u[k] = u[k - 1] \o rr[k]
  BY <1>1, <1>2 DEF Joins
<1>4. CASE ss = <<>>
  <2>1. l = 0 /\ FlattenSeq(ss) = <<>>
    BY <1>4, FlattenEmpty
  <2>2. FlattenSeq(rr) = s
    BY <1>1, <1>3, <2>1
  <2> QED BY <2>1, <2>2 DEF rr
<1>5. CASE ss # <<>>
  <2>1. PICK t : Joins(ss, A, t) /\ FlattenSeq(ss) = t[l]
    BY <1>5, FlattenJoins
  <2>2. l \in Nat \ {0}
    BY <1>1, <1>5, EmptySeq
  <2>3. /\ t \in [1..l -> Seq(A)] /\ t[1] = ss[1]
        /\ \A k \in 2..l : t[k] = t[k - 1] \o ss[k]
    BY <2>1 DEF Joins
  <2> HIDE DEF l
  <2> DEFINE P == {k \in 0..l : k # 0 => u[k] = t[k]}
  <2>4. 0 \in P
    BY <2>2
  <2>5. ASSUME NEW k \in 0..(l - 1), k \in P PROVE k + 1 \in P
    <3>1. k + 1 \in 0..l /\ k + 1 \in 1..l
      BY <2>2
    <3>2. CASE k = 0
      BY <1>1, <1>3, <2>3, <3>1, <3>2
    <3>3. CASE k # 0
      <4>1. k + 1 \in 2..l /\ k + 1 \in 2..(l + 1) /\ (k + 1) - 1 = k
        BY <3>3, <2>2
      <4>2. u[k + 1] = u[k] \o rr[k + 1] /\ t[k + 1] = t[k] \o ss[k + 1]
        BY <1>3, <2>3, <4>1
      <4> QED BY <1>1, <2>5, <3>1, <3>3, <4>2
    <3> QED BY <3>2, <3>3
  <2> HIDE DEF P
  <2>6. \A k \in 0..l : k \in P
    BY <2>2, <2>4, <2>5, UpTo
  <2>7. u[l] = t[l]
    BY <2>2, <2>6 DEF P
  <2>8. u[l + 1] = u[l] \o rr[l + 1]
    <3>1. l + 1 \in 2..(l + 1) /\ (l + 1) - 1 = l
      BY <2>2
    <3> QED BY <1>3, <3>1
  <2> QED BY <1>1, <1>3, <2>1, <2>7, <2>8 DEF rr
<1> QED BY <1>4, <1>5

\* The total of a concatenation is the sum of the totals.
LEMMA TotalConcat ==
  ASSUME NEW s \in Seq(Nat), NEW t \in Seq(Nat)
  PROVE  Total(s) \in Nat /\ Total(t) \in Nat /\ Total(s \o t) = Total(s) + Total(t)
<1> DEFINE P == {u \in Seq(Nat) : Total(s \o u) = Total(s) + Total(u)}
<1>1. <<>> \in P
  <2>1. s \o <<>> = s /\ <<>> \in Seq(Nat)
    OBVIOUS
  <2>2. Total(s) \in Nat
    BY TotalAppend
  <2> QED BY <2>1, <2>2, TotalEmpty
<1>2. ASSUME NEW u \in Seq(Nat), NEW n \in Nat, u \in P PROVE Append(u, n) \in P
  <2>1. s \o Append(u, n) = Append(s \o u, n) /\ s \o u \in Seq(Nat) /\ Append(u, n) \in Seq(Nat)
    OBVIOUS
  <2>2. Total(Append(s \o u, n)) = Total(s \o u) + n
    BY <2>1, TotalAppend
  <2>3. Total(Append(u, n)) = Total(u) + n /\ Total(u) \in Nat /\ Total(s) \in Nat
    BY TotalAppend
  <2>4. Total(s \o u) = Total(s) + Total(u)
    BY <1>2
  <2>5. Total(s \o Append(u, n)) = Total(s) + Total(Append(u, n))
    BY <2>1, <2>2, <2>3, <2>4
  <2> QED BY <2>1, <2>5
<1> HIDE DEF P
<1>3. \A u \in Seq(Nat) : u \in P
  BY <1>1, <1>2, SeqInduction
<1>4. Total(s \o t) = Total(s) + Total(t)
  BY <1>3 DEF P
<1>5. Total(s) \in Nat /\ Total(t) \in Nat
  BY TotalAppend
<1> QED BY <1>4, <1>5

\* Flattening a concatenation.
LEMMA FlattenConcat ==
  ASSUME NEW A, NEW s \in Seq(Seq(A)), NEW t \in Seq(Seq(A))
  PROVE  FlattenSeq(s \o t) = FlattenSeq(s) \o FlattenSeq(t)
<1> DEFINE P == {u \in Seq(Seq(A)) : FlattenSeq(s \o u) = FlattenSeq(s) \o FlattenSeq(u)}
<1>1. <<>> \in P
  <2>1. s \o <<>> = s /\ <<>> \in Seq(Seq(A))
    OBVIOUS
  <2>2. FlattenSeq(s) \in Seq(A)
    BY FlattenType
  <2>3. FlattenSeq(s) \o <<>> = FlattenSeq(s)
    BY <2>2
  <2>4. FlattenSeq(s \o <<>>) = FlattenSeq(s) /\ FlattenSeq(<<>>) = <<>>
    BY <2>1, FlattenEmpty
  <2> QED BY <2>1, <2>3, <2>4
<1>2. ASSUME NEW u \in Seq(Seq(A)), NEW r \in Seq(A), u \in P PROVE Append(u, r) \in P
  <2>1. s \o Append(u, r) = Append(s \o u, r) /\ s \o u \in Seq(Seq(A)) /\ Append(u, r) \in Seq(Seq(A))
    OBVIOUS
  <2>2. FlattenSeq(Append(s \o u, r)) = FlattenSeq(s \o u) \o r
    BY <2>1, FlattenAppend
  <2>3. FlattenSeq(Append(u, r)) = FlattenSeq(u) \o r
    BY FlattenAppend
  <2>4. FlattenSeq(s \o u) = FlattenSeq(s) \o FlattenSeq(u)
    BY <1>2
  <2>5. FlattenSeq(s) \in Seq(A) /\ FlattenSeq(u) \in Seq(A)
    BY FlattenType
  <2>6. (FlattenSeq(s) \o FlattenSeq(u)) \o r = FlattenSeq(s) \o (FlattenSeq(u) \o r)
    BY <2>5, ConcatAssociative
  <2> QED BY <2>1, <2>2, <2>3, <2>4, <2>6
<1> HIDE DEF P
<1>3. \A u \in Seq(Seq(A)) : u \in P
  BY <1>1, <1>2, SeqInduction
<1> QED BY <1>3 DEF P

\* Flattening a single part.
LEMMA FlattenOne ==
  ASSUME NEW A, NEW s \in Seq(A) PROVE FlattenSeq(<<s>>) = s
<1>1. <<s>> = Append(<<>>, s) /\ <<>> \in Seq(Seq(A)) /\ <<>> \o s = s
  OBVIOUS
<1> QED BY <1>1, FlattenAppend, FlattenEmpty

-----------------------------------------------------------------------------
(* Rows of list items.                                                     *)

\* f gives the rows of the sections among the list items in T.
Measures(T, f) == \A x \in T : x # NoLink => f[x] \in Nat

\* Only the measures of the sections among the items matter.
LEMMA MeasureSame ==
  ASSUME NEW items, NEW g, NEW h, \A i \in DOMAIN items : items[i] # NoLink => g[items[i]] = h[items[i]]
  PROVE  MeasureItems(items, g) = MeasureItems(items, h)
<1>1. [i \in DOMAIN items |-> IF items[i] = NoLink THEN 1 ELSE g[items[i]]]
      = [i \in DOMAIN items |-> IF items[i] = NoLink THEN 1 ELSE h[items[i]]]
  OBVIOUS
<1> QED BY <1>1, Zenon DEF MeasureItems

\* The measure of a concatenation is the sum of the measures.
LEMMA MeasureConcat ==
  ASSUME NEW T, NEW f, Measures(T, f), NEW s \in Seq(T), NEW t \in Seq(T)
  PROVE  /\ MeasureItems(s, f) \in Nat /\ MeasureItems(t, f) \in Nat
         /\ MeasureItems(s \o t, f) = MeasureItems(s, f) + MeasureItems(t, f)
<1> DEFINE Units(u) == [i \in DOMAIN u |-> IF u[i] = NoLink THEN 1 ELSE f[u[i]]]
<1>1. \A u \in Seq(T) : Units(u) \in Seq(Nat)
  <2> SUFFICES ASSUME NEW u \in Seq(T) PROVE Units(u) \in Seq(Nat)
    OBVIOUS
  <2>1. \A i \in 1..Len(u) : u[i] \in T
    OBVIOUS
  <2>2. Units(u) = [i \in 1..Len(u) |-> IF u[i] = NoLink THEN 1 ELSE f[u[i]]]
    OBVIOUS
  <2>3. \A i \in 1..Len(u) : (IF u[i] = NoLink THEN 1 ELSE f[u[i]]) \in Nat
    BY <2>1 DEF Measures
  <2>4. Len(u) \in Nat
    OBVIOUS
  <2> HIDE DEF Units
  <2> QED BY <2>2, <2>3, <2>4, IsASeq
<1>11. \A u \in Seq(T) : Len(Units(u)) = Len(u) /\ \A i \in 1..Len(u) :
          Units(u)[i] = IF u[i] = NoLink THEN 1 ELSE f[u[i]]
  <2> SUFFICES ASSUME NEW u \in Seq(T)
               PROVE Len(Units(u)) = Len(u) /\ \A i \in 1..Len(u) :
                       Units(u)[i] = IF u[i] = NoLink THEN 1 ELSE f[u[i]]
    OBVIOUS
  <2>1. DOMAIN u = 1..Len(u) /\ Len(u) \in Nat
    OBVIOUS
  <2>2. Units(u) \in Seq(Nat) /\ DOMAIN Units(u) = 1..Len(u)
    BY <1>1, <2>1
  <2>3. \A i \in 1..Len(u) : Units(u)[i] = IF u[i] = NoLink THEN 1 ELSE f[u[i]]
    BY <2>1
  <2> HIDE DEF Units
  <2>4. Len(Units(u)) = Len(u)
    BY <2>1, <2>2, LenProperties
  <2> QED BY <2>3, <2>4
<1>12. s \o t \in Seq(T)
  OBVIOUS
<1> HIDE DEF Units
<1>2. Units(s \o t) = Units(s) \o Units(t)
  <2>1. Len(s) \in Nat /\ Len(t) \in Nat /\ Len(s \o t) = Len(s) + Len(t)
    OBVIOUS
  <2>2. \A i \in 1..Len(s \o t) : (s \o t)[i] = IF i <= Len(s) THEN s[i] ELSE t[i - Len(s)]
    OBVIOUS
  <2>3. /\ Units(s) \in Seq(Nat) /\ Units(t) \in Seq(Nat) /\ Units(s \o t) \in Seq(Nat)
        /\ Len(Units(s)) = Len(s) /\ Len(Units(t)) = Len(t) /\ Len(Units(s \o t)) = Len(s \o t)
    BY <1>1, <1>11, <1>12
  <2>4. Units(s) \o Units(t) \in Seq(Nat) /\ Len(Units(s) \o Units(t)) = Len(s) + Len(t)
        /\ \A i \in 1..(Len(s) + Len(t)) : (Units(s) \o Units(t))[i] =
               IF i <= Len(s) THEN Units(s)[i] ELSE Units(t)[i - Len(s)]
    BY <2>3, ConcatProperties
  <2>5. \A i \in 1..(Len(s) + Len(t)) : Units(s \o t)[i] = (Units(s) \o Units(t))[i]
    <3> SUFFICES ASSUME NEW i \in 1..(Len(s) + Len(t))
                 PROVE  Units(s \o t)[i] = (Units(s) \o Units(t))[i]
      OBVIOUS
    <3>1. Units(s \o t)[i] = IF (s \o t)[i] = NoLink THEN 1 ELSE f[(s \o t)[i]]
      BY <1>11, <1>12, <2>1
    <3>2. CASE i <= Len(s)
      <4>1. i \in 1..Len(s)
        BY <2>1, <3>2
      <4> QED BY <1>11, <2>1, <2>2, <2>4, <3>1, <3>2, <4>1
    <3>3. CASE ~(i <= Len(s))
      <4>1. i - Len(s) \in 1..Len(t)
        BY <2>1, <3>3
      <4> QED BY <1>11, <2>1, <2>2, <2>4, <3>1, <3>3, <4>1
    <3> QED BY <3>2, <3>3
  <2> QED BY <2>1, <2>3, <2>4, <2>5, SeqEqual
<1>3. \A u : MeasureItems(u, f) = Total(Units(u))
  BY DEF MeasureItems, Units
<1> QED BY <1>1, <1>2, <1>3, <1>12, TotalConcat

\* The measure of a single list item.
LEMMA MeasureOne ==
  ASSUME NEW T, NEW f, Measures(T, f), NEW x \in T
  PROVE  MeasureItems(<<x>>, f) = IF x = NoLink THEN 1 ELSE f[x]
<1> DEFINE n == IF x = NoLink THEN 1 ELSE f[x]
<1>1. n \in Nat
  BY DEF Measures
<1>2. MeasureItems(<<x>>, f) = Total(<<n>>)
  <2>1. [i \in DOMAIN <<x>> |-> IF <<x>>[i] = NoLink THEN 1 ELSE f[<<x>>[i]]] = <<n>>
    OBVIOUS
  <2> QED BY <2>1 DEF MeasureItems
<1> HIDE DEF n
<1>3. <<n>> = Append(<<>>, n) /\ <<>> \in Seq(Nat)
  OBVIOUS
<1>4. Total(<<n>>) = 0 + n
  BY <1>1, <1>3, TotalAppend, TotalEmpty
<1> QED BY <1>1, <1>2, <1>4 DEF n

\* No items measure nothing.
LEMMA MeasureNone == ASSUME NEW f PROVE MeasureItems(<<>>, f) = 0
<1>1. [i \in DOMAIN <<>> |-> IF <<>>[i] = NoLink THEN 1 ELSE f[<<>>[i]]] = <<>>
  OBVIOUS
<1> QED BY <1>1, TotalEmpty DEF MeasureItems

-----------------------------------------------------------------------------
(* The measures of sections.                                               *)

\* The list items of a section are sections further down.
NestedItems(D, items, h) ==
  \A i \in DOMAIN items : items[i] # NoLink => items[i] \in D /\ Height[items[i]] < h

Nested(secs) ==
  /\ DOMAIN secs \subseteq Models
  /\ \A m \in DOMAIN secs : secs[m] \in Section /\ NestedItems(DOMAIN secs, secs[m].items, Height[m])

ListItems(secs) == DOMAIN secs \cup {NoLink}

\* The list items and the other fields of a section.
LEMMA ItemsTyped ==
  ASSUME NEW secs, Nested(secs), NEW m \in DOMAIN secs
  PROVE  /\ secs[m].items \in Seq(ListItems(secs))
         /\ secs[m].hasSep \in BOOLEAN /\ secs[m].ns \in Namespaces
         /\ Separator(secs[m]) \in {0, 1}
<1>1. /\ secs[m].items \in Seq(Models \cup {NoLink}) /\ secs[m].hasSep \in BOOLEAN
      /\ secs[m].ns \in Namespaces
  BY DEF Nested, Section
<1>2. \A i \in 1..Len(secs[m].items) : secs[m].items[i] \in ListItems(secs)
  <2>1. DOMAIN secs[m].items = 1..Len(secs[m].items)
    BY <1>1
  <2> QED BY <2>1 DEF Nested, NestedItems, ListItems
<1>3. secs[m].items \in Seq(ListItems(secs))
  <2> DEFINE s == secs[m].items
             T == ListItems(secs)
  <2>1. s \in Seq(Models \cup {NoLink}) /\ \A i \in 1..Len(s) : s[i] \in T
    BY <1>1, <1>2
  <2> HIDE DEF s, T
  <2>2. Len(s) \in Nat /\ s = [i \in 1..Len(s) |-> s[i]]
    BY <2>1
  <2>3. s \in Seq(T)
    BY <2>1, <2>2, IsASeq
  <2> QED BY <2>3 DEF s, T
<1> QED BY <1>1, <1>3 DEF Separator

\* A function on the sections measures their list items.
LEMMA MeasuresListItems ==
  ASSUME NEW secs, NEW f \in [DOMAIN secs -> Nat]
  PROVE  Measures(ListItems(secs), f)
BY DEF Measures, ListItems

\* Two functions that agree further down give the items of m the same measure.
LEMMA MeasureBelow ==
  ASSUME NEW secs, Nested(secs), NEW m \in DOMAIN secs, NEW g, NEW h,
         \A k \in DOMAIN secs : Height[k] < Height[m] => g[k] = h[k]
  PROVE  MeasureItems(secs[m].items, g) = MeasureItems(secs[m].items, h)
<1>1. \A i \in DOMAIN secs[m].items : secs[m].items[i] # NoLink => g[secs[m].items[i]] = h[secs[m].items[i]]
  BY DEF Nested, NestedItems
<1> QED BY <1>1, MeasureSame

\* The measure of each section, by its defining equation.
IsMeasure(secs, f) ==
  /\ f \in [DOMAIN secs -> Nat]
  /\ \A m \in DOMAIN secs : f[m] = Separator(secs[m]) + MeasureItems(secs[m].items, f)

\* The ranks of sections, downward.
HeightOf(secs) == [m \in DOMAIN secs |-> Height[m]]

\* The heights of the sections are a rank.
LEMMA HeightTyped ==
  ASSUME NEW secs, Nested(secs)
  PROVE  HeightOf(secs) \in [DOMAIN secs -> Nat]
BY LinkAssumption DEF HeightOf, Nested

\* The measure of each section, by its defining equation.
LEMMA MeasureSolved ==
  ASSUME NEW secs, Nested(secs)
  PROVE  IsMeasure(secs, Measure(secs))
<1> DEFINE S == DOMAIN secs
           V == Nat
           rank == HeightOf(secs)
           E(m, g) == Separator(secs[m]) + MeasureItems(secs[m].items, g)
           D == [p \in S \X [S -> V] |-> E(p[1], p[2])]
           Eq(t) == t = [m \in DOMAIN secs |-> Separator(secs[m]) + MeasureItems(secs[m].items, t)]
<1>1. rank \in [S -> Nat] /\ V # {} /\ \A k \in S : rank[k] = Height[k]
  BY HeightTyped DEF HeightOf
<1>2. \A m \in S, g \in [S -> V] : D[<<m, g>>] = E(m, g)
  OBVIOUS
<1>3. ASSUME NEW m \in S, NEW g, \A k \in S : Height[k] < Height[m] => g[k] \in Nat
      PROVE  E(m, g) \in V
  <2> DEFINE h == [k \in S |-> IF Height[k] < Height[m] THEN g[k] ELSE 0]
  <2>1. h \in [S -> Nat] /\ \A k \in S : Height[k] < Height[m] => g[k] = h[k]
    BY <1>3
  <2> HIDE DEF h
  <2>2. MeasureItems(secs[m].items, g) = MeasureItems(secs[m].items, h)
    BY <2>1, MeasureBelow
  <2>3. MeasureItems(secs[m].items, h) \in Nat
    BY <2>1, ItemsTyped, MeasuresListItems, MeasureConcat
  <2>4. Separator(secs[m]) \in {0, 1}
    BY ItemsTyped
  <2> QED BY <2>2, <2>3, <2>4
<1>4. D \in [S \X [S -> V] -> V]
  <2>1. \A m \in S, g \in [S -> V] : E(m, g) \in V
    <3> SUFFICES ASSUME NEW m \in S, NEW g \in [S -> V] PROVE E(m, g) \in V
      OBVIOUS
    <3> HIDE DEF E
    <3> QED BY <1>3
  <2> HIDE DEF E
  <2> QED BY <2>1
<1>5. ASSUME NEW m \in S, NEW g, NEW h, \A k \in S : rank[k] < rank[m] => g[k] = h[k]
      PROVE  E(m, g) = E(m, h)
  <2>1. MeasureItems(secs[m].items, g) = MeasureItems(secs[m].items, h)
    BY <1>1, <1>5, MeasureBelow
  <2> QED BY <2>1
<1>6. Recursive(S, V, rank, D)
  <2> HIDE DEF rank, D, S, V, E
  <2> QED BY <1>1, <1>2, <1>4, <1>5 DEF Recursive
<1> HIDE DEF rank, D, S, V, E
<1>7. PICK f : Solves(f, S, V, D)
  BY <1>6, Recursion
<1>8. Eq(f)
  BY <1>2, <1>7 DEF Solves, S, E
<1> DEFINE t == CHOOSE t : Eq(t)
<1>9. Eq(t)
  <2> HIDE DEF Eq
  <2> QED BY <1>8
<1>10. Measure(secs) = t
  BY DEF Measure
<1> HIDE DEF t
<1>11. \A m \in S : t[m] = E(m, t)
  BY <1>9 DEF S, E
<1>12. \A m \in S : t[m] \in V
  <2> DEFINE P == {k \in S : t[k] \in V}
  <2>1. ASSUME NEW m \in S, \A k \in S : rank[k] < rank[m] => k \in P PROVE m \in P
    <3>1. \A k \in S : Height[k] < Height[m] => t[k] \in Nat
      BY <1>1, <2>1 DEF V
    <3>2. E(m, t) \in V
      BY <1>3, <3>1
    <3> QED BY <1>11, <3>2
  <2> HIDE DEF P
  <2>2. \A m \in S : m \in P
    BY <1>1, <2>1, RankInduction
  <2> QED BY <2>2 DEF P
<1>13. t \in [DOMAIN secs -> Nat]
  <2>1. t = [m \in DOMAIN secs |-> t[m]]
    BY <1>9
  <2> QED BY <1>12, <2>1 DEF S, V
<1> QED BY <1>10, <1>11, <1>13 DEF IsMeasure, E, S

IsSyncedMeasure(mu, secs, f) ==
  /\ f \in [DOMAIN secs -> Nat]
  /\ \A m \in DOMAIN secs : f[m] =
       LET inside == MeasureItems(secs[m].items, f)
       IN  inside + (IF CouldHaveSeparator(mu, secs, m) /\ inside # 0 THEN 1 ELSE 0)

\* The measure of each section when its separators are due, likewise.
LEMMA SyncedMeasureSolved ==
  ASSUME NEW mu, NEW secs, Nested(secs)
  PROVE  IsSyncedMeasure(mu, secs, SyncedMeasure(mu, secs))
<1> DEFINE S == DOMAIN secs
           V == Nat
           rank == HeightOf(secs)
           E(m, g) == (LET inside == MeasureItems(secs[m].items, g)
              IN  inside + (IF CouldHaveSeparator(mu, secs, m) /\ inside # 0 THEN 1 ELSE 0))
           D == [p \in S \X [S -> V] |-> E(p[1], p[2])]
           Eq(t) == t = [m \in DOMAIN secs |-> (LET inside == MeasureItems(secs[m].items, t)
              IN  inside + (IF CouldHaveSeparator(mu, secs, m) /\ inside # 0 THEN 1 ELSE 0))]
<1>1. rank \in [S -> Nat] /\ V # {} /\ \A k \in S : rank[k] = Height[k]
  BY HeightTyped DEF HeightOf
<1>2. \A m \in S, g \in [S -> V] : D[<<m, g>>] = E(m, g)
  OBVIOUS
<1>3. ASSUME NEW m \in S, NEW g, \A k \in S : Height[k] < Height[m] => g[k] \in V
      PROVE  E(m, g) \in V
  <2> DEFINE h == [k \in S |-> IF Height[k] < Height[m] THEN g[k] ELSE 0]
  <2>1. h \in [S -> Nat] /\ \A k \in S : Height[k] < Height[m] => g[k] = h[k]
    BY <1>3
  <2> HIDE DEF h
  <2>2. MeasureItems(secs[m].items, g) = MeasureItems(secs[m].items, h)
    BY <2>1, MeasureBelow
  <2>3. MeasureItems(secs[m].items, h) \in Nat
    BY <2>1, ItemsTyped, MeasuresListItems, MeasureConcat
  <2> QED BY <2>2, <2>3
<1>4. D \in [S \X [S -> V] -> V]
  <2>1. \A m \in S, g \in [S -> V] : E(m, g) \in V
    <3> SUFFICES ASSUME NEW m \in S, NEW g \in [S -> V] PROVE E(m, g) \in V
      OBVIOUS
    <3> HIDE DEF E, V
    <3> QED BY <1>3
  <2> HIDE DEF E
  <2> QED BY <2>1
<1>5. ASSUME NEW m \in S, NEW g, NEW h, \A k \in S : rank[k] < rank[m] => g[k] = h[k]
      PROVE  E(m, g) = E(m, h)
  <2>1. MeasureItems(secs[m].items, g) = MeasureItems(secs[m].items, h)
    BY <1>1, <1>5, MeasureBelow
  <2> QED BY <2>1
<1>6. Recursive(S, V, rank, D)
  <2> HIDE DEF rank, D, S, V, E
  <2> QED BY <1>1, <1>2, <1>4, <1>5 DEF Recursive
<1> HIDE DEF rank, D, S, V, E
<1>7. PICK f : Solves(f, S, V, D)
  BY <1>6, Recursion
<1>8. Eq(f)
  BY <1>2, <1>7, Zenon DEF Solves, S, E
<1> DEFINE t == CHOOSE t : Eq(t)
<1>9. Eq(t)
  <2> HIDE DEF Eq
  <2> QED BY <1>8
<1>10. SyncedMeasure(mu, secs) = t
  BY DEF SyncedMeasure
<1> HIDE DEF t
<1>11. \A m \in S : t[m] = E(m, t)
  BY <1>9 DEF S, E
<1>12. \A m \in S : t[m] \in V
  <2> DEFINE P == {k \in S : t[k] \in V}
  <2>1. ASSUME NEW m \in S, \A k \in S : rank[k] < rank[m] => k \in P PROVE m \in P
    <3>1. \A k \in S : Height[k] < Height[m] => t[k] \in V
      BY <1>1, <2>1
    <3>2. E(m, t) \in V
      BY <1>3, <3>1
    <3> QED BY <1>11, <3>2
  <2> HIDE DEF P
  <2>2. \A m \in S : m \in P
    BY <1>1, <2>1, RankInduction
  <2> QED BY <2>2 DEF P
<1>13. t \in [DOMAIN secs -> Nat]
  <2>1. t = [m \in DOMAIN secs |-> t[m]]
    BY <1>9
  <2> QED BY <1>12, <2>1 DEF S, V
<1> QED BY <1>10, <1>11, <1>13 DEF IsSyncedMeasure, E, S

-----------------------------------------------------------------------------
(* Finding a section.                                                      *)

\* The first hit is one, and no other is before it.
LEMMA FirstHitLeast ==
  ASSUME NEW T, NEW items \in Seq(T), NEW find, Hits(items, find) # {}
  PROVE  /\ FirstHit(items, find) \in Hits(items, find)
         /\ \A j \in Hits(items, find) : FirstHit(items, find) <= j
<1>1. Hits(items, find) \in SUBSET Nat
  BY DEF Hits
<1>2. \E i \in Hits(items, find) : \A j \in Hits(items, find) : i <= j
  BY <1>1, Least
<1> QED BY <1>2 DEF FirstHit

\* The hits are what is found further down.
LEMMA HitsBelow ==
  ASSUME NEW secs, Nested(secs), NEW m \in DOMAIN secs, NEW g, NEW h,
         \A k \in DOMAIN secs : Height[k] < Height[m] => g[k] = h[k]
  PROVE  Hits(secs[m].items, g) = Hits(secs[m].items, h)
<1>1. \A i \in DOMAIN secs[m].items : secs[m].items[i] # NoLink => g[secs[m].items[i]] = h[secs[m].items[i]]
  BY DEF Nested, NestedItems
<1> QED BY <1>1 DEF Hits

\* The rows before each list item of a section.
Before(secs, s, i) == MeasureItems(SubSeq(secs[s].items, 1, i - 1), Measure(secs))

\* What is before a list item has a measure.
LEMMA BeforeTyped ==
  ASSUME NEW secs, Nested(secs), NEW s \in DOMAIN secs, NEW i \in DOMAIN secs[s].items
  PROVE  Before(secs, s, i) \in Nat
<1>1. Measure(secs) \in [DOMAIN secs -> Nat]
  BY MeasureSolved DEF IsMeasure
<1>2. SubSeq(secs[s].items, 1, i - 1) \in Seq(ListItems(secs))
  <2>1. secs[s].items \in Seq(ListItems(secs))
    BY ItemsTyped
  <2> QED BY <2>1
<1> HIDE DEF IsMeasure
<1> QED BY <1>1, <1>2, MeasuresListItems, MeasureConcat DEF Before

IsFind(secs, to, f) ==
  /\ f \in [DOMAIN secs -> Nat \cup {NotFound}]
  /\ \A m \in DOMAIN secs : f[m] =
       IF m = to THEN Separator(secs[m])
       ELSE IF Hits(secs[m].items, f) = {} THEN NotFound
       ELSE Separator(secs[m]) + Before(secs, m, FirstHit(secs[m].items, f)) + f[secs[m].items[FirstHit(secs[m].items, f)]]

\* The search, by its defining equation.
LEMMA FindSolved ==
  ASSUME NEW secs, Nested(secs), NEW to
  PROVE  IsFind(secs, to, FindModel(secs, to))
<1> DEFINE S == DOMAIN secs
           V == Nat \cup {NotFound}
           rank == HeightOf(secs)
           E(m, g) == (IF m = to THEN Separator(secs[m])
              ELSE IF Hits(secs[m].items, g) = {} THEN NotFound
              ELSE Separator(secs[m]) + Before(secs, m, FirstHit(secs[m].items, g)) + g[secs[m].items[FirstHit(secs[m].items, g)]])
           D == [p \in S \X [S -> V] |-> E(p[1], p[2])]
           Eq(t) == t = [m \in DOMAIN secs |-> (IF m = to THEN Separator(secs[m])
              ELSE IF Hits(secs[m].items, t) = {} THEN NotFound
              ELSE Separator(secs[m]) + Before(secs, m, FirstHit(secs[m].items, t)) + t[secs[m].items[FirstHit(secs[m].items, t)]])]
<1>1. rank \in [S -> Nat] /\ V # {} /\ \A k \in S : rank[k] = Height[k]
  BY HeightTyped DEF HeightOf
<1>2. \A m \in S, g \in [S -> V] : D[<<m, g>>] = E(m, g)
  OBVIOUS
<1>3. ASSUME NEW m \in S, NEW g, \A k \in S : Height[k] < Height[m] => g[k] \in V
      PROVE  E(m, g) \in V
  <2>1. Separator(secs[m]) \in {0, 1}
    BY ItemsTyped
  <2>2. CASE Hits(secs[m].items, g) = {}
    BY <2>1, <2>2
  <2>3. CASE Hits(secs[m].items, g) # {}
    <3> DEFINE i == FirstHit(secs[m].items, g)
               k == secs[m].items[i]
    <3>1. i \in Hits(secs[m].items, g)
      BY <2>3, ItemsTyped, FirstHitLeast
    <3>2. i \in DOMAIN secs[m].items /\ k # NoLink /\ g[k] # NotFound
      BY <3>1 DEF Hits
    <3>3. k \in S /\ Height[k] < Height[m]
      BY <3>2 DEF Nested, NestedItems
    <3>4. g[k] \in Nat
      BY <1>3, <3>2, <3>3
    <3> HIDE DEF i
    <3>5. Before(secs, m, i) \in Nat
      BY <3>2, BeforeTyped
    <3>6. E(m, g) = IF m = to THEN Separator(secs[m]) ELSE Separator(secs[m]) + Before(secs, m, i) + g[k]
      BY <2>3 DEF i
    <3> HIDE DEF E
    <3> QED BY <2>1, <3>4, <3>5, <3>6
  <2> QED BY <2>2, <2>3
<1>4. D \in [S \X [S -> V] -> V]
  <2>1. \A m \in S, g \in [S -> V] : E(m, g) \in V
    <3> SUFFICES ASSUME NEW m \in S, NEW g \in [S -> V] PROVE E(m, g) \in V
      OBVIOUS
    <3> HIDE DEF E, V
    <3> QED BY <1>3
  <2> HIDE DEF E
  <2> QED BY <2>1
<1>5. ASSUME NEW m \in S, NEW g, NEW h, \A k \in S : rank[k] < rank[m] => g[k] = h[k]
      PROVE  E(m, g) = E(m, h)
  <2>1. \A k \in S : Height[k] < Height[m] => g[k] = h[k]
    BY <1>1, <1>5
  <2>2. Hits(secs[m].items, g) = Hits(secs[m].items, h)
    BY <2>1, HitsBelow
  <2>3. FirstHit(secs[m].items, g) = FirstHit(secs[m].items, h)
    BY <2>2 DEF FirstHit
  <2>4. CASE Hits(secs[m].items, g) = {}
    BY <2>2, <2>4
  <2>5. CASE Hits(secs[m].items, g) # {}
    <3>1. FirstHit(secs[m].items, g) \in Hits(secs[m].items, g)
      BY <2>5, ItemsTyped, FirstHitLeast
    <3>2. g[secs[m].items[FirstHit(secs[m].items, g)]] = h[secs[m].items[FirstHit(secs[m].items, g)]]
      BY <2>1, <3>1 DEF Hits, Nested, NestedItems
    <3> QED BY <2>2, <2>3, <3>2
  <2> QED BY <2>4, <2>5
<1>6. Recursive(S, V, rank, D)
  <2> HIDE DEF rank, D, S, V, E
  <2> QED BY <1>1, <1>2, <1>4, <1>5 DEF Recursive
<1> HIDE DEF rank, D, S, V, E
<1>7. PICK f : Solves(f, S, V, D)
  BY <1>6, Recursion
<1>8. Eq(f)
  BY <1>2, <1>7, Zenon DEF Solves, S, E
<1> DEFINE t == CHOOSE t : Eq(t)
<1>9. Eq(t)
  <2> HIDE DEF Eq
  <2> QED BY <1>8
<1>10. FindModel(secs, to) = t
  BY DEF FindModel, Before
<1> HIDE DEF t
<1>11. \A m \in S : t[m] = E(m, t)
  BY <1>9 DEF S, E
<1>12. \A m \in S : t[m] \in V
  <2> DEFINE P == {k \in S : t[k] \in V}
  <2>1. ASSUME NEW m \in S, \A k \in S : rank[k] < rank[m] => k \in P PROVE m \in P
    <3>1. \A k \in S : Height[k] < Height[m] => t[k] \in V
      BY <1>1, <2>1
    <3>2. E(m, t) \in V
      BY <1>3, <3>1
    <3> QED BY <1>11, <3>2
  <2> HIDE DEF P
  <2>2. \A m \in S : m \in P
    BY <1>1, <2>1, RankInduction
  <2> QED BY <2>2 DEF P
<1>13. t \in [DOMAIN secs -> Nat \cup {NotFound}]
  <2>1. t = [m \in DOMAIN secs |-> t[m]]
    BY <1>9
  <2> QED BY <1>12, <2>1 DEF S, V
<1> QED BY <1>10, <1>11, <1>13 DEF IsFind, E, S

-----------------------------------------------------------------------------
(* Menus.                                                                  *)

\* A menu is typed, well nested, and has no entry twice.
MenuOK(mu) ==
  /\ mu \in [Models -> Seq(Entries)]
  /\ \A m \in Models : WellNested(m, mu[m])
  /\ \A m, n \in Models : m # n => ToSet(mu[m]) \cap ToSet(mu[n]) = {}

\* An entry is the link of its section.
LEMMA LinkOfSection ==
  ASSUME NEW e \in Entries, SectionOf[e] # NoLink
  PROVE  LinkOf(SectionOf[e]) = e /\ SectionOf[e] \in Models \ {Root}
<1>1. \A f \in Entries : SectionOf[f] = SectionOf[e] => f = e
  BY LinkAssumption
<1>2. SectionOf[e] \in Models \ {Root}
  BY LinkAssumption
<1> QED BY <1>1, <1>2 DEF LinkOf

\* The list items of a sequence of entries, one by one.
LEMMA ItemsShape ==
  ASSUME NEW es \in Seq(Entries)
  PROVE  /\ Items(es) \in Seq(Models \cup {NoLink})
         /\ Len(Items(es)) = Len(es) /\ DOMAIN Items(es) = DOMAIN es
         /\ \A i \in DOMAIN es : Items(es)[i] = SectionOf[es[i]]
<1>1. DOMAIN es = 1..Len(es) /\ Len(es) \in Nat /\ \A i \in 1..Len(es) : es[i] \in Entries
  OBVIOUS
<1>2. \A i \in 1..Len(es) : SectionOf[es[i]] \in Models \cup {NoLink}
  BY <1>1, LinkAssumption
<1>3. Items(es) = [i \in 1..Len(es) |-> SectionOf[es[i]]]
  BY <1>1 DEF Items
<1>4. Items(es) \in Seq(Models \cup {NoLink})
  BY <1>1, <1>2, <1>3, IsASeq
<1>5. DOMAIN Items(es) = 1..Len(es)
  BY <1>3
<1>6. Len(Items(es)) = Len(es)
  BY <1>1, <1>4, <1>5, LenProperties
<1> QED BY <1>1, <1>3, <1>4, <1>5, <1>6

\* The list items of a concatenation.
LEMMA ItemsConcat ==
  ASSUME NEW s \in Seq(Entries), NEW t \in Seq(Entries)
  PROVE  Items(s \o t) = Items(s) \o Items(t)
<1>1. s \o t \in Seq(Entries)
  OBVIOUS
<1>2. /\ Items(s) \in Seq(Models \cup {NoLink}) /\ Items(t) \in Seq(Models \cup {NoLink})
      /\ Items(s \o t) \in Seq(Models \cup {NoLink})
      /\ Len(Items(s)) = Len(s) /\ Len(Items(t)) = Len(t) /\ Len(Items(s \o t)) = Len(s \o t)
  BY <1>1, ItemsShape
<1>3. Len(s) \in Nat /\ Len(t) \in Nat /\ Len(s \o t) = Len(s) + Len(t)
  OBVIOUS
<1>4. Items(s) \o Items(t) \in Seq(Models \cup {NoLink}) /\ Len(Items(s) \o Items(t)) = Len(s) + Len(t)
      /\ \A i \in 1..(Len(s) + Len(t)) : (Items(s) \o Items(t))[i] =
             IF i <= Len(s) THEN Items(s)[i] ELSE Items(t)[i - Len(s)]
  <2> DEFINE a == Items(s)
             b == Items(t)
  <2>1. /\ a \o b \in Seq(Models \cup {NoLink}) /\ Len(a \o b) = Len(a) + Len(b)
        /\ \A i \in 1..(Len(a) + Len(b)) : (a \o b)[i] = IF i <= Len(a) THEN a[i] ELSE b[i - Len(a)]
    <3>1. a \in Seq(Models \cup {NoLink}) /\ b \in Seq(Models \cup {NoLink})
      BY <1>2
    <3> HIDE DEF a, b
    <3> QED BY <3>1, ConcatProperties
  <2>2. Len(a) = Len(s) /\ Len(b) = Len(t)
    BY <1>2
  <2> HIDE DEF a, b
  <2>3. /\ a \o b \in Seq(Models \cup {NoLink}) /\ Len(a \o b) = Len(s) + Len(t)
        /\ \A i \in 1..(Len(s) + Len(t)) : (a \o b)[i] = IF i <= Len(s) THEN a[i] ELSE b[i - Len(s)]
    BY <2>1, <2>2
  <2> QED BY <2>3 DEF a, b
<1>5. ASSUME NEW i \in 1..(Len(s) + Len(t))
      PROVE  Items(s \o t)[i] = (Items(s) \o Items(t))[i]
  <2>1. Items(s \o t)[i] = SectionOf[(s \o t)[i]]
    <3>1. i \in DOMAIN (s \o t)
      BY <1>3
    <3> QED BY <1>1, <3>1, ItemsShape
  <2>2. CASE i <= Len(s)
    <3>1. i \in DOMAIN s /\ (s \o t)[i] = s[i]
      BY <1>3, <2>2
    <3>2. Items(s)[i] = SectionOf[s[i]]
      BY <3>1, ItemsShape
    <3> QED BY <1>4, <2>1, <2>2, <3>1, <3>2
  <2>3. CASE ~(i <= Len(s))
    <3>1. i - Len(s) \in DOMAIN t /\ (s \o t)[i] = t[i - Len(s)]
      BY <1>3, <2>3
    <3>2. Items(t)[i - Len(s)] = SectionOf[t[i - Len(s)]]
      BY <3>1, ItemsShape
    <3> QED BY <1>4, <2>1, <2>3, <3>1, <3>2
  <2> QED BY <2>2, <2>3
<1> QED BY <1>2, <1>3, <1>4, <1>5, SeqEqual

\* The two parts of a concatenation have its elements.
LEMMA ElementsConcat ==
  ASSUME NEW T, NEW s \in Seq(T), NEW t \in Seq(T)
  PROVE  ToSet(s \o t) = ToSet(s) \cup ToSet(t)
<1>1. Len(s) \in Nat /\ Len(t) \in Nat /\ DOMAIN s = 1..Len(s) /\ DOMAIN t = 1..Len(t)
      /\ DOMAIN (s \o t) = 1..(Len(s) + Len(t))
  OBVIOUS
<1>2. /\ \A i \in 1..Len(s) : (s \o t)[i] = s[i] /\ i \in 1..(Len(s) + Len(t))
      /\ \A i \in 1..Len(t) : (s \o t)[i + Len(s)] = t[i] /\ i + Len(s) \in 1..(Len(s) + Len(t))
      /\ \A i \in 1..(Len(s) + Len(t)) : \/ i \in 1..Len(s) /\ (s \o t)[i] = s[i]
                                         \/ i - Len(s) \in 1..Len(t) /\ (s \o t)[i] = t[i - Len(s)]
  OBVIOUS
<1>3. ASSUME NEW x PROVE x \in ToSet(s \o t) <=> x \in ToSet(s) \cup ToSet(t)
  <2>1. ASSUME NEW i \in DOMAIN (s \o t), x = (s \o t)[i] PROVE x \in ToSet(s) \cup ToSet(t)
    BY <1>1, <1>2, <2>1 DEF ToSet
  <2>2. ASSUME NEW i \in DOMAIN s, x = s[i] PROVE x \in ToSet(s \o t)
    BY <1>1, <1>2, <2>2 DEF ToSet
  <2>3. ASSUME NEW i \in DOMAIN t, x = t[i] PROVE x \in ToSet(s \o t)
    BY <1>1, <1>2, <2>3 DEF ToSet
  <2> QED BY <2>1, <2>2, <2>3 DEF ToSet
<1> QED BY <1>3

\* The sections among the items of a concatenation.
LEMMA SectionsConcat ==
  ASSUME NEW T, NEW s \in Seq(T), NEW t \in Seq(T)
  PROVE  SectionsIn(s \o t) = SectionsIn(s) \cup SectionsIn(t)
BY ElementsConcat DEF SectionsIn

\* A sequence s in the three parts of a splice, and the splice.
Parted(T, s, pos, removed, a, g, b) ==
  /\ a \in Seq(T) /\ g \in Seq(T) /\ b \in Seq(T)
  /\ a = SubSeq(s, 1, pos) /\ g = SubSeq(s, pos + 1, pos + removed) /\ b = SubSeq(s, pos + removed + 1, Len(s))
  /\ Len(a) = pos /\ Len(g) = removed
  /\ s = (a \o g) \o b
  /\ \A es : Splice(s, pos, removed, es) = (a \o es) \o b

\* A sequence in which some elements are replaced has three parts.
LEMMA Parts ==
  ASSUME NEW T, NEW s \in Seq(T), NEW pos \in Nat, NEW removed \in Nat, pos + removed <= Len(s)
  PROVE  \E a, g, b : Parted(T, s, pos, removed, a, g, b)
<1> DEFINE a == SubSeq(s, 1, pos)
           g == SubSeq(s, pos + 1, pos + removed)
           b == SubSeq(s, pos + removed + 1, Len(s))
<1>1. Len(s) \in Nat
  OBVIOUS
<1>2. a \in Seq(T) /\ g \in Seq(T) /\ b \in Seq(T)
  BY <1>1
<1>3. Len(a) = pos /\ Len(g) = removed
  BY <1>1
<1>4. s = (a \o g) \o b
  <2>1. SubSeq(s, 1, pos) \o SubSeq(s, pos + 1, pos + removed) = SubSeq(s, 1, pos + removed)
    <3>1. 1 \in 1..(Len(s) + 1) /\ pos \in (1 - 1)..Len(s) /\ pos + removed \in pos..Len(s)
      BY <1>1
    <3> QED BY <3>1, ConcatAdjacentSubSeq
  <2>2. SubSeq(s, 1, pos + removed) \o SubSeq(s, pos + removed + 1, Len(s)) = SubSeq(s, 1, Len(s))
    <3>1. 1 \in 1..(Len(s) + 1) /\ pos + removed \in (1 - 1)..Len(s) /\ Len(s) \in (pos + removed)..Len(s)
      BY <1>1
    <3> QED BY <3>1, ConcatAdjacentSubSeq
  <2>3. SubSeq(s, 1, Len(s)) = s
    BY SubSeqFull
  <2> QED BY <2>1, <2>2, <2>3
<1>5. \A es : Splice(s, pos, removed, es) = (a \o es) \o b
  BY DEF Splice
<1>6. a = SubSeq(s, 1, pos) /\ g = SubSeq(s, pos + 1, pos + removed) /\ b = SubSeq(s, pos + removed + 1, Len(s))
  OBVIOUS
<1> HIDE DEF a, g, b
<1>7. Parted(T, s, pos, removed, a, g, b)
  BY <1>2, <1>3, <1>4, <1>5, <1>6, Zenon DEF Parted
<1> QED BY <1>7

-----------------------------------------------------------------------------
(* A change of a menu.                                                     *)

\* The peer replaces entries of model m by entries that are in no model.
Change(mu, nu, m, pos, removed, es) ==
  /\ m \in Models /\ pos \in Nat /\ removed \in Nat /\ pos + removed <= Len(mu[m])
  /\ WellNested(m, es)
  /\ \A k \in Models : ToSet(es) \cap ToSet(mu[k]) = {}
  /\ nu = [mu EXCEPT ![m] = Splice(mu[m], pos, removed, es)]

\* No element is there twice.
Distinct(s) == \A i, j \in DOMAIN s : s[i] = s[j] => i = j

\* No element is twice in a concatenation: when it is so of the parts, and
\* they share none.
LEMMA DistinctConcat ==
  ASSUME NEW T, NEW s \in Seq(T), NEW t \in Seq(T)
  PROVE  Distinct(s \o t) <=> Distinct(s) /\ Distinct(t) /\ ToSet(s) \cap ToSet(t) = {}
<1>1. Len(s) \in Nat /\ Len(t) \in Nat /\ DOMAIN s = 1..Len(s) /\ DOMAIN t = 1..Len(t)
      /\ DOMAIN (s \o t) = 1..(Len(s) + Len(t))
  OBVIOUS
<1>2. /\ \A i \in 1..Len(s) : (s \o t)[i] = s[i] /\ i \in 1..(Len(s) + Len(t))
      /\ \A i \in 1..Len(t) : (s \o t)[i + Len(s)] = t[i] /\ i + Len(s) \in 1..(Len(s) + Len(t))
      /\ \A i \in 1..(Len(s) + Len(t)) : \/ i \in 1..Len(s) /\ (s \o t)[i] = s[i]
                                         \/ i - Len(s) \in 1..Len(t) /\ (s \o t)[i] = t[i - Len(s)]
  OBVIOUS
<1>3. ASSUME Distinct(s \o t) PROVE Distinct(s) /\ Distinct(t) /\ ToSet(s) \cap ToSet(t) = {}
  <2>1. Distinct(s)
    BY <1>1, <1>2, <1>3 DEF Distinct
  <2>2. ASSUME NEW i \in 1..Len(t), NEW j \in 1..Len(t), t[i] = t[j] PROVE i = j
    <3>1. i + Len(s) = j + Len(s)
      BY <1>1, <1>2, <1>3, <2>2 DEF Distinct
    <3> QED BY <1>1, <3>1
  <2>3. Distinct(t)
    BY <1>1, <2>2 DEF Distinct
  <2>4. ASSUME NEW i \in 1..Len(s), NEW j \in 1..Len(t), s[i] = t[j] PROVE FALSE
    <3>1. i = j + Len(s)
      BY <1>1, <1>2, <1>3, <2>4 DEF Distinct
    <3> QED BY <1>1, <3>1
  <2>5. ToSet(s) \cap ToSet(t) = {}
    BY <1>1, <2>4 DEF ToSet
  <2> QED BY <2>1, <2>3, <2>5
<1>4. ASSUME Distinct(s), Distinct(t), ToSet(s) \cap ToSet(t) = {} PROVE Distinct(s \o t)
  <2>1. \A i \in 1..Len(s), j \in 1..Len(t) : s[i] # t[j]
    BY <1>1, <1>4 DEF ToSet
  <2>2. ASSUME NEW i \in 1..(Len(s) + Len(t)), NEW j \in 1..(Len(s) + Len(t)),
               (s \o t)[i] = (s \o t)[j]
        PROVE  i = j
    <3>1. CASE i \in 1..Len(s) /\ (s \o t)[i] = s[i] /\ j \in 1..Len(s) /\ (s \o t)[j] = s[j]
      BY <1>1, <1>4, <2>2, <3>1 DEF Distinct
    <3>2. CASE /\ i - Len(s) \in 1..Len(t) /\ (s \o t)[i] = t[i - Len(s)]
               /\ j - Len(s) \in 1..Len(t) /\ (s \o t)[j] = t[j - Len(s)]
      <4>1. i - Len(s) = j - Len(s)
        BY <1>1, <1>4, <2>2, <3>2 DEF Distinct
      <4> QED BY <1>1, <4>1
    <3> QED BY <1>2, <2>1, <2>2, <3>1, <3>2
  <2> QED BY <1>1, <2>2 DEF Distinct
<1> QED BY <1>3, <1>4

\* The links of a sequence of entries lead to models below m.
LinksBelow(m, es) == \A e \in ToSet(es) : SectionOf[e] # NoLink => Height[SectionOf[e]] < Height[m]

\* What it is for a sequence of entries to be well nested, in two parts.
LEMMA WellNestedParts ==
  ASSUME NEW m, NEW es
  PROVE  WellNested(m, es) <=> es \in Seq(Entries) /\ Distinct(es) /\ LinksBelow(m, es)
BY DEF WellNested, Distinct, LinksBelow, ToSet

\* The elements of a concatenation of three parts.
LEMMA ThreeParts ==
  ASSUME NEW a \in Seq(Entries), NEW g \in Seq(Entries), NEW b \in Seq(Entries)
  PROVE  /\ (a \o g) \o b \in Seq(Entries)
         /\ ToSet((a \o g) \o b) = ToSet(a) \cup ToSet(g) \cup ToSet(b)
         /\ Distinct((a \o g) \o b) <=>
              /\ Distinct(a) /\ Distinct(g) /\ Distinct(b) /\ ToSet(a) \cap ToSet(g) = {}
              /\ (ToSet(a) \cup ToSet(g)) \cap ToSet(b) = {}
<1>1. a \o g \in Seq(Entries) /\ (a \o g) \o b \in Seq(Entries)
  OBVIOUS
<1>2. ToSet(a \o g) = ToSet(a) \cup ToSet(g)
  BY ElementsConcat
<1>3. ToSet((a \o g) \o b) = ToSet(a \o g) \cup ToSet(b)
  BY <1>1, ElementsConcat
<1>4. Distinct(a \o g) <=> Distinct(a) /\ Distinct(g) /\ ToSet(a) \cap ToSet(g) = {}
  BY DistinctConcat
<1>5. Distinct((a \o g) \o b) <=> Distinct(a \o g) /\ Distinct(b) /\ ToSet(a \o g) \cap ToSet(b) = {}
  BY <1>1, DistinctConcat
<1> QED BY <1>1, <1>2, <1>3, <1>4, <1>5

\* The entries of m before and after a change: those of a, g and b, and of a, es and b.
Changed(mu, nu, m, pos, removed, es, a, g, b) ==
  /\ Parted(Entries, mu[m], pos, removed, a, g, b)
  /\ a \in Seq(Entries) /\ g \in Seq(Entries) /\ b \in Seq(Entries) /\ es \in Seq(Entries)
  /\ mu[m] = (a \o g) \o b /\ nu[m] = (a \o es) \o b
  /\ nu \in [Models -> Seq(Entries)] /\ \A k \in Models \ {m} : nu[k] = mu[k]

\* The entries before and after a change, in three parts.
LEMMA ChangeParts ==
  ASSUME NEW mu, NEW nu, NEW m, NEW pos, NEW removed, NEW es, MenuOK(mu), Change(mu, nu, m, pos, removed, es)
  PROVE  \E a, g, b : Changed(mu, nu, m, pos, removed, es, a, g, b)
<1> DEFINE s == mu[m]
<1>1. s \in Seq(Entries) /\ pos \in Nat /\ removed \in Nat /\ pos + removed <= Len(s)
  BY DEF MenuOK, Change
<1>2. m \in Models /\ mu \in [Models -> Seq(Entries)] /\ es \in Seq(Entries)
      /\ nu = [mu EXCEPT ![m] = Splice(s, pos, removed, es)]
  BY DEF MenuOK, Change, WellNested
<1> HIDE DEF s
<1>3. PICK a, g, b : Parted(Entries, s, pos, removed, a, g, b)
  BY <1>1, Parts
<1>4. /\ a \in Seq(Entries) /\ g \in Seq(Entries) /\ b \in Seq(Entries)
      /\ s = (a \o g) \o b
      /\ Splice(s, pos, removed, es) = (a \o es) \o b
  BY <1>3 DEF Parted
<1>5. (a \o es) \o b \in Seq(Entries)
  BY <1>2, <1>4
<1>6. nu \in [Models -> Seq(Entries)] /\ \A k \in Models \ {m} : nu[k] = mu[k]
  BY <1>2, <1>4, <1>5
<1>7. nu[m] = (a \o es) \o b
  BY <1>2, <1>4
<1>8. Changed(mu, nu, m, pos, removed, es, a, g, b)
  BY <1>2, <1>3, <1>4, <1>6, <1>7, Zenon DEF Changed, s
<1> QED BY <1>8

\* After a change no entry is twice in the menu, and all are well nested, as
\* before.
LEMMA ChangeMenuOK ==
  ASSUME NEW mu, NEW nu, NEW m, NEW pos, NEW removed, NEW es, MenuOK(mu), Change(mu, nu, m, pos, removed, es)
  PROVE  MenuOK(nu)
<1>0. PICK a, g, b : Changed(mu, nu, m, pos, removed, es, a, g, b)
  BY ChangeParts
<1>1. /\ a \in Seq(Entries) /\ g \in Seq(Entries) /\ b \in Seq(Entries)
      /\ mu[m] = (a \o g) \o b /\ nu[m] = (a \o es) \o b
      /\ nu \in [Models -> Seq(Entries)] /\ \A k \in Models \ {m} : nu[k] = mu[k]
  BY <1>0 DEF Changed
<1>2. /\ m \in Models /\ es \in Seq(Entries) /\ Distinct(es) /\ LinksBelow(m, es)
      /\ \A k \in Models : ToSet(es) \cap ToSet(mu[k]) = {}
  BY WellNestedParts DEF Change
<1>3. (a \o es) \o b \in Seq(Entries)
  BY <1>1, <1>2
<1>4. /\ ToSet(mu[m]) = ToSet(a) \cup ToSet(g) \cup ToSet(b)
      /\ ToSet(nu[m]) = ToSet(a) \cup ToSet(es) \cup ToSet(b)
  <2>1. ToSet((a \o g) \o b) = ToSet(a) \cup ToSet(g) \cup ToSet(b)
    BY <1>1, ThreeParts
  <2>2. ToSet((a \o es) \o b) = ToSet(a) \cup ToSet(es) \cup ToSet(b)
    BY <1>1, <1>2, ThreeParts
  <2> QED BY <1>1, <2>1, <2>2
<1>5. Distinct(mu[m]) /\ LinksBelow(m, mu[m])
  BY <1>2, WellNestedParts DEF MenuOK
<1>6. Distinct(a) /\ Distinct(b) /\ (ToSet(a) \cup ToSet(g)) \cap ToSet(b) = {}
  <2>1. Distinct((a \o g) \o b)
    BY <1>1, <1>5
  <2> QED BY <1>1, <2>1, ThreeParts
<1>7. ToSet(es) \cap (ToSet(a) \cup ToSet(b)) = {}
  BY <1>2, <1>4
<1>8. Distinct(nu[m])
  <2>1. Distinct((a \o es) \o b)
    BY <1>1, <1>2, <1>6, <1>7, ThreeParts
  <2> QED BY <1>1, <2>1
<1>9. LinksBelow(m, nu[m])
  BY <1>2, <1>4, <1>5 DEF LinksBelow
<1>10. \A k \in Models : WellNested(k, nu[k])
  <2>1. WellNested(m, nu[m])
    BY <1>1, <1>3, <1>8, <1>9, WellNestedParts
  <2> QED BY <1>1, <2>1 DEF MenuOK
<1>11. \A k, n \in Models : k # n => ToSet(nu[k]) \cap ToSet(nu[n]) = {}
  <2>1. \A k \in Models \ {m} : nu[k] = mu[k] /\ ToSet(mu[k]) \cap ToSet(mu[m]) = {} /\ ToSet(mu[k]) \cap ToSet(es) = {}
    BY <1>1, <1>2 DEF MenuOK
  <2>2. \A k \in Models \ {m} : ToSet(nu[k]) \cap ToSet(nu[m]) = {}
    BY <1>4, <2>1
  <2>3. \A k, n \in Models \ {m} : k # n => ToSet(nu[k]) \cap ToSet(nu[n]) = {}
    BY <2>1 DEF MenuOK
  <2> QED BY <2>2, <2>3
<1> QED BY <1>1, <1>10, <1>11 DEF MenuOK

-----------------------------------------------------------------------------
(* The models below others.                                                *)

ClosedUnder(links, S) == \A j \in S : SectionsIn(links[j]) \subseteq S

\* What is linked is there.
Whole(links) == ClosedUnder(links, DOMAIN links)

\* What is below some models includes them, and what each of these links.
LEMMA BelowHas ==
  ASSUME NEW links, NEW ms, Whole(links), ms \subseteq DOMAIN links
  PROVE  /\ ms \subseteq Below(links, ms) /\ Below(links, ms) \subseteq DOMAIN links
         /\ ClosedUnder(links, Below(links, ms))
<1> DEFINE B == Below(links, ms)
<1>1. \A k : k \in B <=> k \in DOMAIN links /\ \A S \in SUBSET DOMAIN links : ms \subseteq S /\ ClosedUnder(links, S) => k \in S
  BY DEF Below, ClosedUnder
<1> HIDE DEF B
<1>2. ms \subseteq B /\ B \subseteq DOMAIN links
  BY <1>1
<1>3. ASSUME NEW j \in B, NEW k \in SectionsIn(links[j]) PROVE k \in B
  <2>1. k \in DOMAIN links
    BY <1>2 DEF Whole, ClosedUnder
  <2>2. ASSUME NEW S \in SUBSET DOMAIN links, ms \subseteq S, ClosedUnder(links, S) PROVE k \in S
    BY <1>1, <2>2 DEF ClosedUnder
  <2> QED BY <1>1, <2>1, <2>2
<1>4. ClosedUnder(links, B)
  BY <1>3 DEF ClosedUnder
<1> QED BY <1>2, <1>4 DEF B

\* What is below some models is in every set that has them and what its own
\* link.
LEMMA BelowLeast ==
  ASSUME NEW links, NEW ms, NEW S \in SUBSET DOMAIN links, ms \subseteq S, ClosedUnder(links, S)
  PROVE  Below(links, ms) \subseteq S
BY DEF Below, ClosedUnder

\* What is below others is linked by one of them.
LEMMA BelowParent ==
  ASSUME NEW links, NEW ms, Whole(links), ms \subseteq DOMAIN links, NEW k \in Below(links, ms), k \notin ms
  PROVE  \E p \in Below(links, ms) : k \in SectionsIn(links[p])
<1> SUFFICES ASSUME \A p \in Below(links, ms) : k \notin SectionsIn(links[p]) PROVE FALSE
  OBVIOUS
<1> DEFINE S == Below(links, ms) \ {k}
<1>1. ms \subseteq S /\ S \in SUBSET DOMAIN links /\ ClosedUnder(links, S)
  BY BelowHas DEF ClosedUnder
<1> HIDE DEF S
<1>2. Below(links, ms) \subseteq S
  BY <1>1, BelowLeast
<1> QED BY <1>2 DEF S

\* The sections of a sequence of entries.
LinksIn(es) == SectionsIn(Items(es))

\* The sections of a sequence of entries are those its elements link.
LEMMA LinksInEntries ==
  ASSUME NEW es \in Seq(Entries)
  PROVE  /\ \A k : k \in LinksIn(es) <=> \E e \in ToSet(es) : e \in Entries /\ SectionOf[e] = k /\ k # NoLink
         /\ \A k \in LinksIn(es) : k \in Models \ {Root} /\ LinkOf(k) \in ToSet(es) /\ SectionOf[LinkOf(k)] = k
<1>1. DOMAIN Items(es) = DOMAIN es /\ \A i \in DOMAIN es : Items(es)[i] = SectionOf[es[i]] /\ es[i] \in Entries
  BY ItemsShape
<1>2. \A k : k \in LinksIn(es) <=> \E e \in ToSet(es) : e \in Entries /\ SectionOf[e] = k /\ k # NoLink
  BY <1>1 DEF LinksIn, SectionsIn, ToSet
<1>3. \A k \in LinksIn(es) : k \in Models \ {Root} /\ LinkOf(k) \in ToSet(es) /\ SectionOf[LinkOf(k)] = k
  BY <1>2, LinkOfSection
<1> QED BY <1>2, <1>3

\* The sections of a concatenation of three parts.
LEMMA LinksInParts ==
  ASSUME NEW a \in Seq(Entries), NEW g \in Seq(Entries), NEW b \in Seq(Entries)
  PROVE  LinksIn((a \o g) \o b) = LinksIn(a) \cup LinksIn(g) \cup LinksIn(b)
<1>1. (a \o g) \o b \in Seq(Entries) /\ ToSet((a \o g) \o b) = ToSet(a) \cup ToSet(g) \cup ToSet(b)
  BY ThreeParts
<1> DEFINE s == (a \o g) \o b
<1> HIDE DEF s
<1>2. /\ \A k : k \in LinksIn(s) <=> \E e \in ToSet(s) : e \in Entries /\ SectionOf[e] = k /\ k # NoLink
      /\ \A k : k \in LinksIn(a) <=> \E e \in ToSet(a) : e \in Entries /\ SectionOf[e] = k /\ k # NoLink
      /\ \A k : k \in LinksIn(g) <=> \E e \in ToSet(g) : e \in Entries /\ SectionOf[e] = k /\ k # NoLink
      /\ \A k : k \in LinksIn(b) <=> \E e \in ToSet(b) : e \in Entries /\ SectionOf[e] = k /\ k # NoLink
  BY <1>1, LinksInEntries DEF s
<1>3. ToSet(s) = ToSet(a) \cup ToSet(g) \cup ToSet(b)
  BY <1>1 DEF s
<1>4. \A k : k \in LinksIn(s) <=> k \in LinksIn(a) \cup LinksIn(g) \cup LinksIn(b)
  BY <1>2, <1>3
<1> QED BY <1>4 DEF s

\* What links says of a menu.
LinksOK(mu) ==
  /\ DOMAIN Links(mu) = Models /\ Whole(Links(mu))
  /\ \A p \in Models : SectionsIn(Links(mu)[p]) = LinksIn(mu[p])
  /\ \A p \in Models : \A k \in LinksIn(mu[p]) :
       k \in Models \ {Root} /\ Height[k] < Height[p] /\ LinkOf(k) \in ToSet(mu[p])
  /\ \A p, q \in Models : \A k \in LinksIn(mu[p]) : LinkOf(k) \in ToSet(mu[q]) => p = q
  /\ \A p, q \in Models : \A k \in LinksIn(mu[p]) : k \in LinksIn(mu[q]) => p = q

\* Each model links lower ones, and no two models link the same.
LEMMA MenuLinks ==
  ASSUME NEW mu, MenuOK(mu)
  PROVE  LinksOK(mu)
<1>1. \A p \in Models : mu[p] \in Seq(Entries) /\ LinksBelow(p, mu[p])
  BY WellNestedParts DEF MenuOK
<1>2. DOMAIN Links(mu) = Models /\ \A p \in Models : SectionsIn(Links(mu)[p]) = LinksIn(mu[p])
  BY DEF Links, LinksIn
<1>3. ASSUME NEW p \in Models, NEW k \in LinksIn(mu[p])
      PROVE  k \in Models \ {Root} /\ LinkOf(k) \in ToSet(mu[p]) /\ Height[k] < Height[p]
  <2>1. k \in Models \ {Root} /\ LinkOf(k) \in ToSet(mu[p]) /\ SectionOf[LinkOf(k)] = k
    BY <1>1, LinksInEntries
  <2>2. k # NoLink
    BY <2>1, LinkAssumption
  <2> QED BY <1>1, <2>1, <2>2 DEF LinksBelow
<1>4. \A p, q \in Models : \A k \in LinksIn(mu[p]) : LinkOf(k) \in ToSet(mu[q]) => p = q
  BY <1>3 DEF MenuOK
<1>5. \A p, q \in Models : \A k \in LinksIn(mu[p]) : k \in LinksIn(mu[q]) => p = q
  BY <1>3, <1>4
<1>6. Whole(Links(mu))
  BY <1>2, <1>3 DEF Whole, ClosedUnder
<1> QED BY <1>2, <1>3, <1>4, <1>5, <1>6 DEF LinksOK

-----------------------------------------------------------------------------
(* The tree of sections.                                                   *)

\* There is a section for each model that Root leads to, with its items.
Tree(mu, secs) ==
  /\ DOMAIN secs = Below(Links(mu), {Root})
  /\ secs \in [DOMAIN secs -> Section]
  /\ \A m \in DOMAIN secs : secs[m].items = Items(mu[m])

\* The shape of a tree.
TreeShape(mu, secs) ==
  /\ Root \in DOMAIN secs /\ DOMAIN secs \subseteq Models
  /\ \A p \in DOMAIN secs : LinksIn(mu[p]) \subseteq DOMAIN secs
  /\ \A k \in DOMAIN secs \ {Root} : \E p \in DOMAIN secs : k \in LinksIn(mu[p])
  /\ \A S \in SUBSET DOMAIN secs :
       Root \in S /\ (\A j \in S : LinksIn(mu[j]) \subseteq S) => S = DOMAIN secs
  /\ \A p \in DOMAIN secs : SectionsIn(secs[p].items) = LinksIn(mu[p])

\* The sections of a tree have the items of the menu, and the links lead down.
LEMMA TreeHasShape ==
  ASSUME NEW mu, NEW secs, MenuOK(mu), Tree(mu, secs)
  PROVE  TreeShape(mu, secs)
<1> DEFINE L == Links(mu)
           B == Below(L, {Root})
<1>1. DOMAIN L = Models /\ Whole(L) /\ {Root} \subseteq DOMAIN L /\ \A p \in Models : SectionsIn(L[p]) = LinksIn(mu[p])
  BY MenuLinks, LinkAssumption DEF LinksOK
<1>2. B = DOMAIN secs
  BY DEF Tree
<1> HIDE DEF L
<1>3. {Root} \subseteq B /\ B \subseteq Models /\ ClosedUnder(L, B)
  BY <1>1, BelowHas
<1>4. \A k \in B \ {Root} : \E p \in B : k \in SectionsIn(L[p])
  BY <1>1, BelowParent
<1>5. ASSUME NEW S \in SUBSET B, Root \in S, \A j \in S : LinksIn(mu[j]) \subseteq S
      PROVE  S = B
  <2>1. S \in SUBSET DOMAIN L /\ {Root} \subseteq S /\ ClosedUnder(L, S)
    BY <1>1, <1>3, <1>5 DEF ClosedUnder
  <2>2. B \subseteq S
    BY <2>1, BelowLeast
  <2> QED BY <2>2
<1> HIDE DEF B
<1>6. \A p \in DOMAIN secs : SectionsIn(secs[p].items) = LinksIn(mu[p])
  BY DEF Tree, LinksIn
<1>7. \A p \in DOMAIN secs : LinksIn(mu[p]) \subseteq DOMAIN secs
  BY <1>1, <1>2, <1>3 DEF ClosedUnder
<1>8. \A k \in DOMAIN secs \ {Root} : \E p \in DOMAIN secs : k \in LinksIn(mu[p])
  BY <1>1, <1>2, <1>3, <1>4
<1>9. \A S \in SUBSET DOMAIN secs : Root \in S /\ (\A j \in S : LinksIn(mu[j]) \subseteq S) => S = DOMAIN secs
  BY <1>2, <1>5
<1> QED BY <1>2, <1>3, <1>6, <1>7, <1>8, <1>9 DEF TreeShape

\* The sections of a tree nest: the equations over them have solutions.
LEMMA TreeNested ==
  ASSUME NEW mu, NEW secs, MenuOK(mu), Tree(mu, secs)
  PROVE  Nested(secs)
<1>1. TreeShape(mu, secs) /\ LinksOK(mu)
  BY TreeHasShape, MenuLinks
<1>2. ASSUME NEW m \in DOMAIN secs, NEW i \in DOMAIN secs[m].items, secs[m].items[i] # NoLink
      PROVE  secs[m].items[i] \in DOMAIN secs /\ Height[secs[m].items[i]] < Height[m]
  <2>1. secs[m].items[i] \in SectionsIn(secs[m].items)
    BY <1>2 DEF SectionsIn, ToSet
  <2>2. secs[m].items[i] \in LinksIn(mu[m]) /\ m \in Models
    BY <1>1, <2>1 DEF TreeShape
  <2> QED BY <1>1, <2>2 DEF TreeShape, LinksOK
<1>3. \A m \in DOMAIN secs : secs[m] \in Section
  BY DEF Tree
<1> QED BY <1>1, <1>2, <1>3 DEF TreeShape, Nested, NestedItems

-----------------------------------------------------------------------------
(* What goes from a tree and what comes to it.                             *)

FreedBelow(secs, items) == Below([k \in DOMAIN secs |-> secs[k].items], SectionsIn(items))
NewBelow(nu, es) == Below(Links(nu), LinksIn(es))

\* Of a tree whose section m changes, F goes, K stays and N comes.
Graft(mu, nu, secs, m, a, g, b, es, F, K, N) ==
  /\ F \subseteq DOMAIN secs /\ K = DOMAIN secs \ F /\ m \in K /\ Root \in K /\ N \subseteq Models
  /\ LinksIn(g) \subseteq F /\ \A k \in F : LinksIn(mu[k]) \subseteq F
  /\ LinksIn(es) \subseteq N /\ \A k \in N : LinksIn(nu[k]) \subseteq N
  /\ \A k \in N \ LinksIn(es) : \E p \in N : k \in LinksIn(nu[p])
  /\ LinksIn(a) \cup LinksIn(b) \subseteq K /\ \A k \in K \ {m} : LinksIn(nu[k]) \subseteq K
  /\ K \cap N = {} /\ K \cup N = Below(Links(nu), {Root})

\* A change divides the tree in what is freed, what is kept and what is new.
LEMMA Grafted ==
  ASSUME NEW mu, NEW nu, NEW secs, NEW m, NEW pos, NEW removed, NEW es, NEW a, NEW g, NEW b,
         MenuOK(mu), MenuOK(nu), Tree(mu, secs), m \in DOMAIN secs,
         Change(mu, nu, m, pos, removed, es), Changed(mu, nu, m, pos, removed, es, a, g, b)
  PROVE  Graft(mu, nu, secs, m, a, g, b, es,
               FreedBelow(secs, Items(g)), DOMAIN secs \ FreedBelow(secs, Items(g)), NewBelow(nu, es))
<1> DEFINE B == DOMAIN secs
           SL == [k \in DOMAIN secs |-> secs[k].items]
           F == FreedBelow(secs, Items(g))
           N == NewBelow(nu, es)
           K == B \ F
<1>1. TreeShape(mu, secs) /\ LinksOK(mu) /\ LinksOK(nu)
  BY TreeHasShape, MenuLinks
<1>2. /\ a \in Seq(Entries) /\ g \in Seq(Entries) /\ b \in Seq(Entries) /\ es \in Seq(Entries)
      /\ mu[m] = (a \o g) \o b /\ nu[m] = (a \o es) \o b
      /\ \A k \in Models \ {m} : nu[k] = mu[k]
      /\ m \in Models /\ B \subseteq Models
  BY <1>1 DEF Changed, Change, TreeShape
<1>3. /\ LinksIn(mu[m]) = LinksIn(a) \cup LinksIn(g) \cup LinksIn(b)
      /\ LinksIn(nu[m]) = LinksIn(a) \cup LinksIn(es) \cup LinksIn(b)
  BY <1>2, LinksInParts
<1>4. LinksIn(g) \cap (LinksIn(a) \cup LinksIn(b)) = {}
  <2>1. Distinct((a \o g) \o b)
    BY <1>2, WellNestedParts DEF MenuOK
  <2>2. ToSet(a) \cap ToSet(g) = {} /\ (ToSet(a) \cup ToSet(g)) \cap ToSet(b) = {}
    BY <1>2, <2>1, ThreeParts
  <2>3. /\ \A k \in LinksIn(a) : LinkOf(k) \in ToSet(a)
        /\ \A k \in LinksIn(g) : LinkOf(k) \in ToSet(g)
        /\ \A k \in LinksIn(b) : LinkOf(k) \in ToSet(b)
    BY <1>2, LinksInEntries
  <2> QED BY <2>2, <2>3
\* What goes.
<1>5. DOMAIN SL = B /\ Whole(SL) /\ LinksIn(g) \subseteq B /\ \A k \in B : SectionsIn(SL[k]) = LinksIn(mu[k])
  <2>1. DOMAIN SL = B /\ \A k \in B : SectionsIn(SL[k]) = LinksIn(mu[k])
    BY <1>1 DEF TreeShape
  <2>2. Whole(SL)
    BY <1>1, <2>1 DEF TreeShape, Whole, ClosedUnder
  <2>3. LinksIn(g) \subseteq B
    BY <1>1, <1>3 DEF TreeShape
  <2> QED BY <2>1, <2>2, <2>3
<1>6. F = Below(SL, LinksIn(g))
  BY DEF FreedBelow, LinksIn
<1> HIDE DEF F, SL
<1>7. F \subseteq B /\ LinksIn(g) \subseteq F /\ \A k \in F : LinksIn(mu[k]) \subseteq F
  BY <1>5, <1>6, BelowHas DEF ClosedUnder
<1>8. \A k \in F \ LinksIn(g) : \E p \in F : k \in LinksIn(mu[p])
  BY <1>5, <1>6, <1>7, BelowParent
<1>9. m \notin F /\ Root \notin F
  <2> DEFINE S == {k \in B \ {Root} : Height[k] < Height[m]}
  <2>1. S \in SUBSET DOMAIN SL /\ LinksIn(g) \subseteq S /\ ClosedUnder(SL, S)
    <3>1. LinksIn(g) \subseteq S
      BY <1>1, <1>2, <1>3, <1>5 DEF LinksOK
    <3>2. ASSUME NEW j \in S, NEW k \in LinksIn(mu[j]) PROVE k \in S
      <4>1. k \in B /\ k \in Models \ {Root} /\ Height[k] < Height[j] /\ Height[j] < Height[m]
        BY <1>1, <1>2 DEF TreeShape, LinksOK
      <4>2. Height[k] \in Nat /\ Height[j] \in Nat /\ Height[m] \in Nat
        BY <1>2, <4>1, LinkAssumption
      <4> QED BY <4>1, <4>2
    <3> QED BY <1>5, <3>1, <3>2 DEF ClosedUnder
  <2>2. F \subseteq S
    <3> HIDE DEF S
    <3> QED BY <1>6, <2>1, BelowLeast
  <2>3. Height[m] \in Nat
    BY <1>2, LinkAssumption
  <2> QED BY <2>2, <2>3
\* What comes.
<1>10. /\ DOMAIN Links(nu) = Models /\ Whole(Links(nu)) /\ LinksIn(es) \subseteq Models
       /\ \A k \in Models : SectionsIn(Links(nu)[k]) = LinksIn(nu[k])
  <2>1. LinksIn(es) \subseteq Models
    BY <1>2, LinksInEntries
  <2> QED BY <1>1, <2>1 DEF LinksOK
<1>11. N = Below(Links(nu), LinksIn(es))
  BY DEF NewBelow
<1> HIDE DEF N
<1>12. N \subseteq Models /\ LinksIn(es) \subseteq N /\ \A k \in N : LinksIn(nu[k]) \subseteq N
  BY <1>10, <1>11, BelowHas DEF ClosedUnder
<1>13. \A k \in N \ LinksIn(es) : \E p \in N : k \in LinksIn(nu[p])
  BY <1>10, <1>11, <1>12, BelowParent
<1>14. m \notin N /\ Root \notin N
  <2> DEFINE S == {k \in Models \ {Root} : Height[k] < Height[m]}
  <2>1. S \in SUBSET DOMAIN Links(nu) /\ LinksIn(es) \subseteq S /\ ClosedUnder(Links(nu), S)
    <3>1. LinksIn(es) \subseteq S
      BY <1>1, <1>2, <1>3, <1>10 DEF LinksOK
    <3>2. ASSUME NEW j \in S, NEW k \in LinksIn(nu[j]) PROVE k \in S
      <4>1. k \in Models \ {Root} /\ Height[k] < Height[j] /\ Height[j] < Height[m]
        BY <1>1, <1>2 DEF TreeShape, LinksOK
      <4>2. Height[k] \in Nat /\ Height[j] \in Nat /\ Height[m] \in Nat
        BY <1>2, <4>1, LinkAssumption
      <4> QED BY <4>1, <4>2
    <3> QED BY <1>10, <3>1, <3>2 DEF ClosedUnder
  <2>2. N \subseteq S
    <3> HIDE DEF S
    <3> QED BY <1>11, <2>1, BelowLeast
  <2>3. Height[m] \in Nat
    BY <1>2, LinkAssumption
  <2> QED BY <2>2, <2>3
\* What stays.
<1>15. m \in K /\ Root \in K
  BY <1>1, <1>9 DEF TreeShape
<1>16. \A k \in K \ {m} : LinksIn(nu[k]) \subseteq K
  <2> SUFFICES ASSUME NEW k \in K \ {m}, NEW c \in LinksIn(nu[k]), c \in F PROVE FALSE
    BY <1>1, <1>2 DEF TreeShape
  <2>1. c \in LinksIn(mu[k]) /\ k \in Models /\ k \in B /\ k \notin F
    BY <1>2
  <2>2. CASE c \in LinksIn(g)
    BY <1>1, <1>2, <1>3, <2>1, <2>2 DEF LinksOK
  <2>3. CASE c \notin LinksIn(g)
    <3>1. PICK p \in F : c \in LinksIn(mu[p])
      BY <1>8, <2>3
    <3>2. p = k
      BY <1>1, <1>2, <1>7, <2>1, <3>1 DEF LinksOK
    <3> QED BY <2>1, <3>1, <3>2
  <2> QED BY <2>2, <2>3
<1>17. LinksIn(a) \cup LinksIn(b) \subseteq K
  <2> SUFFICES ASSUME NEW c \in LinksIn(a) \cup LinksIn(b), c \in F PROVE FALSE
    BY <1>1, <1>3 DEF TreeShape
  <2>1. c \in LinksIn(mu[m]) /\ c \notin LinksIn(g)
    BY <1>3, <1>4
  <2>2. PICK p \in F : c \in LinksIn(mu[p])
    BY <1>8, <2>1
  <2>3. p = m
    BY <1>1, <1>2, <1>7, <2>1, <2>2 DEF LinksOK
  <2> QED BY <1>9, <2>2, <2>3
<1>18. K \cap N = {}
  <2> DEFINE S == N \ K
  <2>1. LinksIn(es) \subseteq S
    <3> SUFFICES ASSUME NEW c \in LinksIn(es), c \in K PROVE FALSE
      BY <1>12
    <3>1. c # Root /\ LinkOf(c) \in ToSet(es)
      BY <1>2, LinksInEntries
    <3>2. PICK p \in B : c \in LinksIn(mu[p])
      BY <1>1, <3>1 DEF TreeShape
    <3>3. LinkOf(c) \in ToSet(mu[p])
      BY <1>1, <1>2, <3>2 DEF LinksOK
    <3> QED BY <1>2, <3>1, <3>2, <3>3 DEF Change
  <2>2. ASSUME NEW j \in S, NEW c \in LinksIn(nu[j]) PROVE c \in S
    <3> SUFFICES ASSUME c \in K PROVE FALSE
      BY <1>12
    <3>1. j # m /\ j \in Models /\ c \in LinksIn(mu[j])
      BY <1>2, <1>12, <1>14
    <3>2. c # Root
      BY <1>1, <3>1 DEF LinksOK
    <3>3. PICK p \in B : c \in LinksIn(mu[p])
      BY <1>1, <3>2 DEF TreeShape
    <3>4. p = j
      BY <1>1, <1>2, <3>1, <3>3 DEF LinksOK
    <3>5. j \in F
      BY <3>3, <3>4
    <3> QED BY <1>7, <3>1, <3>5
  <2>3. S \in SUBSET DOMAIN Links(nu) /\ ClosedUnder(Links(nu), S)
    BY <1>10, <1>12, <2>2 DEF ClosedUnder
  <2> HIDE DEF S
  <2>4. N \subseteq S
    BY <1>11, <2>1, <2>3, BelowLeast
  <2> QED BY <2>4 DEF S
<1>19. K \cup N = Below(Links(nu), {Root})
  <2> DEFINE S == K \cup N
             R == Below(Links(nu), {Root})
  <2>1. S \in SUBSET DOMAIN Links(nu) /\ {Root} \subseteq S
    BY <1>2, <1>10, <1>12, <1>15
  <2>2. \A j \in S : LinksIn(nu[j]) \subseteq S
    BY <1>3, <1>12, <1>16, <1>17
  <2>3. ClosedUnder(Links(nu), S)
    BY <1>10, <2>1, <2>2 DEF ClosedUnder
  <2>4. R \subseteq S
    <3> HIDE DEF S
    <3> QED BY <2>1, <2>3, BelowLeast
  <2>5. Root \in R /\ R \subseteq Models /\ \A k \in R : LinksIn(nu[k]) \subseteq R
    <3>1. {Root} \subseteq DOMAIN Links(nu)
      BY <1>10, LinkAssumption
    <3>2. {Root} \subseteq R /\ R \subseteq DOMAIN Links(nu) /\ ClosedUnder(Links(nu), R)
      BY <1>10, <3>1, BelowHas
    <3> QED BY <1>10, <3>2 DEF ClosedUnder
  <2> HIDE DEF R
  <2>6. (R \cap B) \cup F = B
    <3> DEFINE T == (R \cap B) \cup F
    <3>1. T \in SUBSET B /\ Root \in T
      BY <1>1, <1>7, <2>5 DEF TreeShape
    <3>2. ASSUME NEW j \in T PROVE LinksIn(mu[j]) \subseteq T
      <4>1. CASE j \in F
        BY <1>7, <4>1
      <4>2. CASE j \notin F /\ j # m
        <5>1. LinksIn(mu[j]) \subseteq R /\ LinksIn(mu[j]) \subseteq B
          BY <1>1, <1>2, <2>5, <4>2 DEF TreeShape
        <5> QED BY <5>1
      <4>3. CASE j = m
        <5>1. LinksIn(a) \cup LinksIn(b) \subseteq R
          BY <1>3, <1>9, <2>5, <4>3
        <5>2. LinksIn(mu[m]) \subseteq B
          BY <1>1, <1>15 DEF TreeShape
        <5> QED BY <1>3, <1>7, <4>3, <5>1, <5>2
      <4> QED BY <4>1, <4>2, <4>3
    <3> HIDE DEF T
    <3>3. T = B
      BY <1>1, <3>1, <3>2 DEF TreeShape
    <3> QED BY <3>3 DEF T
  <2>7. K \subseteq R
    BY <2>6
  <2>8. LinksIn(es) \subseteq R
    BY <1>3, <1>15, <2>5, <2>7
  <2>9. N \subseteq R
    <3>1. R \in SUBSET DOMAIN Links(nu) /\ ClosedUnder(Links(nu), R)
      BY <1>10, <2>5 DEF ClosedUnder
    <3> QED BY <1>11, <2>8, <3>1, BelowLeast
  <2> QED BY <2>4, <2>7, <2>9 DEF R
<1> HIDE DEF K
<1>20. K = B \ F
  BY DEF K
<1>21. Graft(mu, nu, secs, m, a, g, b, es, F, K, N)
  BY <1>7, <1>12, <1>13, <1>15, <1>16, <1>17, <1>18, <1>19, <1>20, Zenon DEF Graft
<1> QED BY <1>20, <1>21 DEF F, N

-----------------------------------------------------------------------------
(* New sections.                                                           *)

\* Each of the models N is Root or linked by one of them or of secs.
Supported(mu, secs, N) ==
  /\ N \subseteq Models /\ DOMAIN secs \subseteq Models
  /\ \A p \in DOMAIN secs : secs[p].ns \in Namespaces
  /\ \A k \in N \ {Root} : \E p \in N \cup DOMAIN secs : k \in LinksIn(mu[p])

\* The model around a section is the one that links it.
LEMMA AroundIs ==
  ASSUME NEW mu, MenuOK(mu), NEW p \in Models, NEW k \in LinksIn(mu[p])
  PROVE  Around(mu, k) = p /\ LinkOf(k) \in Entries
<1>1. LinksOK(mu) /\ mu[p] \in Seq(Entries)
  BY MenuLinks DEF MenuOK
<1>2. LinkOf(k) \in ToSet(mu[p]) /\ \A q \in Models : LinkOf(k) \in ToSet(mu[q]) => p = q
  BY <1>1 DEF LinksOK
<1>3. Around(mu, k) = p
  BY <1>2 DEF Around
<1>4. LinkOf(k) \in Entries
  BY <1>1, <1>2 DEF ToSet
<1> QED BY <1>3, <1>4

\* The namespace of a subsection is one.
LEMMA ChildNamespaceTyped ==
  ASSUME NEW ns \in Namespaces, NEW e \in Entries
  PROVE  ChildNamespace(ns, e) \in Namespaces
<1> DEFINE T == STRING
<1>1. Namespace[e] \in Namespaces
  BY LinkAssumption
<1>2. Namespaces = Seq(T)
  BY DEF Namespaces
<1> HIDE DEF T
<1>3. ns \o Namespace[e] \in Namespaces
  BY <1>1, <1>2
<1> QED BY <1>3 DEF ChildNamespace

\* What is around a section of N, and where.
LEMMA SupportedAround ==
  ASSUME NEW mu, NEW secs, NEW N, MenuOK(mu), Supported(mu, secs, N), NEW k \in N, k # Root
  PROVE  /\ LinkOf(k) \in Entries
         /\ Around(mu, k) \in N => Height[Root] - Height[Around(mu, k)] < Height[Root] - Height[k]
         /\ Around(mu, k) \notin N => secs[Around(mu, k)].ns \in Namespaces
<1>1. PICK p \in N \cup DOMAIN secs : k \in LinksIn(mu[p])
  BY DEF Supported
<1>2. p \in Models /\ k \in Models
  BY DEF Supported
<1>3. Around(mu, k) = p /\ LinkOf(k) \in Entries
  BY <1>1, <1>2, AroundIs
<1>4. Height[k] < Height[p] /\ Height[p] \in Nat /\ Height[k] \in Nat /\ Height[Root] \in Nat
  BY <1>1, <1>2, MenuLinks, LinkAssumption DEF LinksOK
<1>5. p \notin N => secs[p].ns \in Namespaces
  BY DEF Supported
<1> QED BY <1>3, <1>4, <1>5

IsNamespaces(mu, secs, N, f) ==
  /\ f \in [N -> Namespaces]
  /\ \A m \in N : f[m] =
       IF m = Root THEN RootNamespace
       ELSE ChildNamespace(IF Around(mu, m) \in N THEN f[Around(mu, m)] ELSE secs[Around(mu, m)].ns, LinkOf(m))

\* The namespaces of new sections, by their defining equation.
LEMMA NamespacesSolved ==
  ASSUME NEW mu, NEW secs, NEW N, MenuOK(mu), Supported(mu, secs, N)
  PROVE  IsNamespaces(mu, secs, N, NamespacesNew(mu, secs, N))
<1> DEFINE S == N
           V == Namespaces
           rank == [k \in N |-> Height[Root] - Height[k]]
           E(m, g) == (IF m = Root THEN RootNamespace
              ELSE ChildNamespace(IF Around(mu, m) \in N THEN g[Around(mu, m)] ELSE secs[Around(mu, m)].ns, LinkOf(m)))
           D == [p \in S \X [S -> V] |-> E(p[1], p[2])]
           Eq(t) == t = [m \in N |-> (IF m = Root THEN RootNamespace
              ELSE ChildNamespace(IF Around(mu, m) \in N THEN t[Around(mu, m)] ELSE secs[Around(mu, m)].ns, LinkOf(m)))]
<1>1. rank \in [S -> Nat] /\ V # {} /\ \A k \in S : rank[k] = (Height[Root] - Height[k])
  <2>1. \A k \in N : k \in Models /\ Height[k] \in Nat /\ Height[Root] \in Nat /\ Height[Root] - Height[k] \in Nat
    <3> SUFFICES ASSUME NEW k \in N
                 PROVE  k \in Models /\ Height[k] \in Nat /\ Height[Root] \in Nat /\ Height[Root] - Height[k] \in Nat
      OBVIOUS
    <3>1. k \in Models /\ Height[k] \in Nat /\ Height[Root] \in Nat
      BY LinkAssumption DEF Supported
    <3>2. k = Root \/ Height[k] < Height[Root]
      BY <3>1, LinkAssumption
    <3> QED BY <3>1, <3>2
  <2>2. V # {}
    BY LinkAssumption
  <2> QED BY <2>1, <2>2
<1>2. \A m \in S, g \in [S -> V] : D[<<m, g>>] = E(m, g)
  OBVIOUS
<1>3. ASSUME NEW m \in S, NEW g, \A k \in S : (Height[Root] - Height[k]) < (Height[Root] - Height[m]) => g[k] \in V
      PROVE  E(m, g) \in V
  <2>1. CASE m = Root
    BY <2>1, LinkAssumption
  <2>2. CASE m # Root
    <3> DEFINE p == Around(mu, m)
               ns == IF p \in N THEN g[p] ELSE secs[p].ns
    <3>1. /\ LinkOf(m) \in Entries
          /\ p \in N => Height[Root] - Height[p] < Height[Root] - Height[m]
          /\ p \notin N => secs[p].ns \in Namespaces
      BY <2>2, SupportedAround
    <3>2. ns \in Namespaces
      BY <1>3, <3>1
    <3>3. E(m, g) = ChildNamespace(ns, LinkOf(m))
      BY <2>2
    <3> HIDE DEF ns, E
    <3> QED BY <3>1, <3>2, <3>3, ChildNamespaceTyped
  <2> QED BY <2>1, <2>2
<1>4. D \in [S \X [S -> V] -> V]
  <2>1. \A m \in S, g \in [S -> V] : E(m, g) \in V
    <3> SUFFICES ASSUME NEW m \in S, NEW g \in [S -> V] PROVE E(m, g) \in V
      OBVIOUS
    <3> HIDE DEF E, V
    <3> QED BY <1>3
  <2> HIDE DEF E
  <2> QED BY <2>1
<1>5. ASSUME NEW m \in S, NEW g, NEW h, \A k \in S : rank[k] < rank[m] => g[k] = h[k]
      PROVE  E(m, g) = E(m, h)
  <2>1. m # Root /\ Around(mu, m) \in N => g[Around(mu, m)] = h[Around(mu, m)]
    <3> SUFFICES ASSUME m # Root, Around(mu, m) \in N PROVE g[Around(mu, m)] = h[Around(mu, m)]
      OBVIOUS
    <3>1. Height[Root] - Height[Around(mu, m)] < Height[Root] - Height[m]
      BY SupportedAround
    <3> QED BY <1>1, <1>5, <3>1
  <2> QED BY <2>1
<1>6. Recursive(S, V, rank, D)
  <2> HIDE DEF rank, D, S, V, E
  <2> QED BY <1>1, <1>2, <1>4, <1>5 DEF Recursive
<1> HIDE DEF rank, D, S, V, E
<1>7. PICK f : Solves(f, S, V, D)
  BY <1>6, Recursion
<1>8. Eq(f)
  BY <1>2, <1>7, Zenon DEF Solves, S, E
<1> DEFINE t == CHOOSE t : Eq(t)
<1>9. Eq(t)
  <2> HIDE DEF Eq
  <2> QED BY <1>8
<1>10. NamespacesNew(mu, secs, N) = t
  BY DEF NamespacesNew
<1> HIDE DEF t
<1>11. \A m \in S : t[m] = E(m, t)
  BY <1>9 DEF S, E
<1>12. \A m \in S : t[m] \in V
  <2> DEFINE P == {k \in S : t[k] \in V}
  <2>1. ASSUME NEW m \in S, \A k \in S : rank[k] < rank[m] => k \in P PROVE m \in P
    <3>1. \A k \in S : (Height[Root] - Height[k]) < (Height[Root] - Height[m]) => t[k] \in V
      BY <1>1, <2>1
    <3>2. E(m, t) \in V
      BY <1>3, <3>1
    <3> QED BY <1>11, <3>2
  <2> HIDE DEF P
  <2>2. \A m \in S : m \in P
    BY <1>1, <2>1, RankInduction
  <2> QED BY <2>2 DEF P
<1>13. t \in [N -> Namespaces]
  <2>1. t = [m \in N |-> t[m]]
    BY <1>9
  <2> QED BY <1>12, <2>1 DEF S, V
<1> QED BY <1>10, <1>11, <1>13 DEF IsNamespaces, E, S

\* The list items of a part of the entries.
LEMMA ItemsSubSeq ==
  ASSUME NEW s \in Seq(Entries), NEW lo \in Nat \ {0}, NEW hi \in Nat, hi <= Len(s)
  PROVE  Items(SubSeq(s, lo, hi)) = SubSeq(Items(s), lo, hi)
<1>1. /\ Items(s) \in Seq(Models \cup {NoLink}) /\ Len(Items(s)) = Len(s) /\ Len(s) \in Nat
      /\ \A i \in 1..Len(s) : Items(s)[i] = SectionOf[s[i]] /\ s[i] \in Entries
  BY ItemsShape
<1> DEFINE n == IF lo <= hi THEN hi - lo + 1 ELSE 0
           t == SubSeq(s, lo, hi)
           u == SubSeq(Items(s), lo, hi)
<1>2. t \in Seq(Entries) /\ Len(t) = n /\ \A i \in 1..n : t[i] = s[lo + i - 1]
  OBVIOUS
<1>3. u \in Seq(Models \cup {NoLink}) /\ Len(u) = n /\ \A i \in 1..n : u[i] = Items(s)[lo + i - 1]
  <2> DEFINE v == Items(s)
             T == Models \cup {NoLink}
  <2>1. v \in Seq(T) /\ Len(v) = Len(s) /\ Len(s) \in Nat
    BY <1>1
  <2>2. u = SubSeq(v, lo, hi)
    OBVIOUS
  <2> HIDE DEF v, T, u
  <2>3. u \in Seq(T) /\ Len(u) = n /\ \A i \in 1..n : u[i] = v[lo + i - 1]
    BY <2>1, <2>2
  <2> QED BY <2>3 DEF v, T
<1> HIDE DEF t, u
<1>4. /\ Items(t) \in Seq(Models \cup {NoLink}) /\ Len(Items(t)) = Len(t)
      /\ \A i \in DOMAIN t : Items(t)[i] = SectionOf[t[i]]
  BY <1>2, ItemsShape
<1>5. ASSUME NEW i \in 1..n PROVE Items(t)[i] = u[i]
  <2>1. lo + i - 1 \in 1..Len(s) /\ i \in DOMAIN t
    BY <1>1, <1>2
  <2> QED BY <1>1, <1>2, <1>3, <1>4, <2>1
<1>6. Items(t) = u
  BY <1>2, <1>3, <1>4, <1>5, SeqEqual
<1> QED BY <1>6 DEF t, u

\* The list items have the parts that the entries have.
LEMMA ItemsParted ==
  ASSUME NEW s \in Seq(Entries), NEW pos \in Nat, NEW removed \in Nat, pos + removed <= Len(s),
         NEW a, NEW g, NEW b, Parted(Entries, s, pos, removed, a, g, b)
  PROVE  Parted(Models \cup {NoLink}, Items(s), pos, removed, Items(a), Items(g), Items(b))
<1> DEFINE T == Models \cup {NoLink}
           v == Items(s)
           x == Items(a)
           y == Items(g)
           z == Items(b)
<1>0. /\ a \in Seq(Entries) /\ g \in Seq(Entries) /\ b \in Seq(Entries)
      /\ a = SubSeq(s, 1, pos) /\ g = SubSeq(s, pos + 1, pos + removed) /\ b = SubSeq(s, pos + removed + 1, Len(s))
      /\ Len(a) = pos /\ Len(g) = removed
      /\ s = (a \o g) \o b
  BY Zenon DEF Parted
<1>1. a \o g \in Seq(Entries)
  BY <1>0, ConcatProperties, Zenon
<1>2. x \in Seq(T) /\ y \in Seq(T) /\ z \in Seq(T) /\ v \in Seq(T) /\ Len(x) = pos /\ Len(y) = removed /\ Len(v) = Len(s)
  BY <1>0, <1>1, ItemsShape
<1>3. v = (x \o y) \o z
  <2>1. Items(a \o g) = x \o y /\ Items((a \o g) \o b) = Items(a \o g) \o z
    BY <1>0, <1>1, ItemsConcat
  <2> QED BY <1>0, <2>1
<1>4. x = SubSeq(v, 1, pos) /\ y = SubSeq(v, pos + 1, pos + removed)
  <2>1. Len(s) \in Nat /\ pos <= Len(s) /\ pos + 1 \in Nat \ {0} /\ pos + removed \in Nat /\ 1 \in Nat \ {0}
    OBVIOUS
  <2> QED BY <1>0, <2>1, ItemsSubSeq
<1>5. z = SubSeq(v, pos + removed + 1, Len(v))
  <2>1. Len(s) \in Nat /\ pos + removed + 1 \in Nat \ {0} /\ Len(s) <= Len(s)
    OBVIOUS
  <2>2. z = SubSeq(v, pos + removed + 1, Len(s))
    BY <1>0, <2>1, ItemsSubSeq
  <2> QED BY <1>2, <2>2
<1> HIDE DEF T, v, x, y, z
<1>6. \A es : Splice(v, pos, removed, es) = (x \o es) \o z
  BY <1>4, <1>5 DEF Splice
<1>7. Parted(T, v, pos, removed, x, y, z)
  BY <1>2, <1>3, <1>4, <1>5, <1>6, Zenon DEF Parted
<1> QED BY <1>7 DEF T, v, x, y, z

-----------------------------------------------------------------------------
(* The sections after a change.                                            *)

\* new has new sections for the models N, and those of secs.
HasNew(mu, secs, N, new) ==
  /\ DOMAIN new = DOMAIN secs \cup N /\ new = [k \in DOMAIN secs \cup N |-> new[k]]
  /\ \A k \in DOMAIN secs \ N : new[k] = secs[k]
  /\ \A k \in N : /\ new[k] \in Section /\ new[k].items = Items(mu[k]) /\ new[k].hasSep = FALSE
                  /\ k = Root => new[k].ns = RootNamespace
                  /\ \A p \in DOMAIN secs \cup N :
                       k \in LinksIn(mu[p]) => new[k].ns = ChildNamespace(new[p].ns, LinkOf(k))

\* What SectionsNew gives for the models N, besides secs.
LEMMA SectionsNewIs ==
  ASSUME NEW mu, NEW secs, NEW ms, MenuOK(mu), Supported(mu, secs, Below(Links(mu), ms))
  PROVE  HasNew(mu, secs, Below(Links(mu), ms), SectionsNew(mu, secs, ms))
<1> DEFINE N == Below(Links(mu), ms)
           new == SectionsNew(mu, secs, ms)
           ns == NamespacesNew(mu, secs, N)
           made(k) == [items |-> Items(mu[k]), ns |-> ns[k], hasSep |-> FALSE]
<1>1. /\ ns \in [N -> Namespaces]
      /\ \A m \in N : ns[m] =
           IF m = Root THEN RootNamespace
           ELSE ChildNamespace(IF Around(mu, m) \in N THEN ns[Around(mu, m)] ELSE secs[Around(mu, m)].ns, LinkOf(m))
  BY NamespacesSolved, Zenon DEF IsNamespaces
<1>2. new = [k \in DOMAIN secs \cup N |-> IF k \in N THEN made(k) ELSE secs[k]]
  BY DEF SectionsNew
<1>21. Supported(mu, secs, N)
  OBVIOUS
<1> HIDE DEF N, new
<1>22. ns \in [N -> Namespaces]
  BY <1>1
<1> HIDE DEF ns
<1>3. N \subseteq Models /\ DOMAIN secs \subseteq Models /\ mu \in [Models -> Seq(Entries)]
  BY <1>21 DEF Supported, MenuOK
<1>4. \A k \in N : Items(mu[k]) \in Seq(Models \cup {NoLink})
  BY <1>3, ItemsShape
<1>5. \A k \in N : made(k) \in Section
  BY <1>1, <1>4 DEF Section
<1>6. \A k \in N : new[k] = made(k)
  BY <1>2
<1>7. \A k \in N : new[k].items = Items(mu[k]) /\ new[k].ns = ns[k] /\ new[k].hasSep = FALSE
  <2> SUFFICES ASSUME NEW k \in N PROVE new[k].items = Items(mu[k]) /\ new[k].ns = ns[k] /\ new[k].hasSep = FALSE
    OBVIOUS
  <2>1. new[k] = [items |-> Items(mu[k]), ns |-> ns[k], hasSep |-> FALSE]
    BY <1>6
  <2>2. new[k].items = Items(mu[k]) /\ new[k].ns = ns[k]
    BY <2>1
  <2>3. new[k].hasSep = FALSE
    <3> DEFINE i == Items(mu[k])
               n == ns[k]
               r == new[k]
    <3>1. r = [items |-> i, ns |-> n, hasSep |-> FALSE]
      BY <2>1
    <3> HIDE DEF i, n, r
    <3>2. r.hasSep = FALSE
      BY <3>1
    <3> QED BY <3>2 DEF r
  <2> QED BY <2>2, <2>3
<1> HIDE DEF made
<1>8. ASSUME NEW k \in N, NEW p \in DOMAIN secs \cup N, k \in LinksIn(mu[p])
      PROVE  new[k].ns = ChildNamespace(new[p].ns, LinkOf(k))
  <2>1. Around(mu, k) = p
    BY <1>3, <1>8, AroundIs
  <2>2. k # Root
    BY <1>3, <1>8, MenuLinks DEF LinksOK
  <2>3. new[p].ns = IF p \in N THEN ns[p] ELSE secs[p].ns
    BY <1>2, <1>7
  <2> QED BY <1>1, <1>7, <2>1, <2>2, <2>3
<1>9. \A k \in N : k = Root => new[k].ns = RootNamespace
  BY <1>1, <1>7
<1>10. DOMAIN new = DOMAIN secs \cup N /\ new = [k \in DOMAIN secs \cup N |-> new[k]]
  BY <1>2
<1>11. \A k \in DOMAIN secs \ N : new[k] = secs[k]
  BY <1>2
<1>12. \A k \in N : new[k] \in Section
  BY <1>5, <1>6
<1>13. HasNew(mu, secs, N, new)
  BY <1>7, <1>8, <1>9, <1>10, <1>11, <1>12, Zenon DEF HasNew
<1> QED BY <1>13 DEF N, new

\* The sections after those of a change are made: those of K as before, m's list
\* changed, and those of N new.
Regrown(nu, secs, new, m, K, N) ==
  /\ DOMAIN new = K \cup N /\ new \in [K \cup N -> Section]
  /\ \A k \in K \cup N : new[k].items = Items(nu[k])
  /\ \A k \in K \ {m} : new[k] = secs[k]
  /\ \A k \in K : new[k].ns = secs[k].ns /\ new[k].hasSep = secs[k].hasSep
  /\ \A k \in N : /\ new[k].hasSep = FALSE
                  /\ \A p \in K \cup N : k \in LinksIn(nu[p]) => new[k].ns = ChildNamespace(new[p].ns, LinkOf(k))

\* The sections after a change are the tree of the changed menu.
LEMMA RegrownTree ==
  ASSUME NEW mu, NEW nu, NEW secs, NEW m, NEW pos, NEW removed, NEW es, NEW a, NEW g, NEW b,
         NEW F, NEW K, NEW N, NEW new,
         MenuOK(mu), MenuOK(nu), Tree(mu, secs), m \in DOMAIN secs,
         Change(mu, nu, m, pos, removed, es), Changed(mu, nu, m, pos, removed, es, a, g, b),
         F = FreedBelow(secs, Items(g)), N = NewBelow(nu, es), Graft(mu, nu, secs, m, a, g, b, es, F, K, N),
         new = SectionsNew(nu, SectionsKept(secs, m, pos, removed, es), SectionsIn(Items(es)))
  PROVE  Regrown(nu, secs, new, m, K, N) /\ Tree(nu, new)
<1> DEFINE kept == SectionsKept(secs, m, pos, removed, es)
           s == mu[m]
           T == Models \cup {NoLink}
<1>1. /\ F \subseteq DOMAIN secs /\ K = DOMAIN secs \ F /\ m \in K /\ Root \in K /\ N \subseteq Models
      /\ K \cap N = {} /\ K \cup N = Below(Links(nu), {Root}) /\ K \subseteq Models /\ m \in Models
  BY TreeHasShape DEF Graft, TreeShape
<1>2. /\ secs \in [DOMAIN secs -> Section] /\ \A k \in DOMAIN secs : secs[k].items = Items(mu[k])
  BY DEF Tree
<1>3. /\ s \in Seq(Entries) /\ pos \in Nat /\ removed \in Nat /\ pos + removed <= Len(s)
      /\ Parted(Entries, s, pos, removed, a, g, b) /\ es \in Seq(Entries)
      /\ nu[m] = (a \o es) \o b /\ a \in Seq(Entries) /\ b \in Seq(Entries)
      /\ \A k \in Models \ {m} : nu[k] = mu[k]
  BY <1>1 DEF Change, Changed, MenuOK
<1> HIDE DEF s
<1>4. Parted(T, Items(s), pos, removed, Items(a), Items(g), Items(b))
  BY <1>3, ItemsParted
<1>5. /\ Items(g) = SubSeq(Items(s), pos + 1, pos + removed)
      /\ Splice(Items(s), pos, removed, Items(es)) = (Items(a) \o Items(es)) \o Items(b)
  BY <1>4 DEF Parted
<1>6. Splice(Items(s), pos, removed, Items(es)) = Items(nu[m])
  <2>1. a \o es \in Seq(Entries)
    BY <1>3, ConcatProperties, Zenon
  <2>2. Items(a \o es) = Items(a) \o Items(es)
    BY <1>3, ItemsConcat
  <2>3. Items((a \o es) \o b) = Items(a \o es) \o Items(b)
    BY <1>3, <2>1, ItemsConcat
  <2> QED BY <1>3, <1>5, <2>2, <2>3
<1>7. secs[m].items = Items(s)
  BY <1>1, <1>2 DEF s
<1>8. SectionsFreed(secs, Items(g)) = [k \in K |-> secs[k]]
  BY <1>1 DEF SectionsFreed, FreedBelow
<1>9. kept = [[k \in K |-> secs[k]] EXCEPT ![m].items = Items(nu[m])]
  BY <1>1, <1>5, <1>6, <1>7, <1>8 DEF SectionsKept
<1> HIDE DEF kept
<1>10. Items(nu[m]) \in Seq(T) /\ secs[m] \in Section
  <2>1. nu[m] \in Seq(Entries)
    BY <1>1 DEF MenuOK
  <2> QED BY <1>1, <1>2, <2>1, ItemsShape
<1>11. /\ DOMAIN kept = K /\ \A k \in K \ {m} : kept[k] = secs[k]
       /\ kept[m].items = Items(nu[m]) /\ kept[m].ns = secs[m].ns /\ kept[m].hasSep = secs[m].hasSep
       /\ kept[m] \in Section
  <2>1. DOMAIN kept = K /\ \A k \in K \ {m} : kept[k] = secs[k]
    BY <1>9
  <2>2. kept[m] = [secs[m] EXCEPT !.items = Items(nu[m])]
    BY <1>1, <1>9
  <2>3. kept[m].items = Items(nu[m]) /\ kept[m].ns = secs[m].ns /\ kept[m].hasSep = secs[m].hasSep
    BY <1>10, <2>2 DEF Section
  <2>4. kept[m] \in Section
    BY <1>10, <2>2 DEF Section
  <2> QED BY <2>1, <2>3, <2>4
<1>12. Supported(nu, kept, N)
  <2>1. \A p \in K : kept[p].ns \in Namespaces
    BY <1>1, <1>2, <1>11 DEF Section
  <2>2. \A k \in N : \E p \in N \cup K : k \in LinksIn(nu[p])
    <3>1. \A k \in LinksIn(es) : k \in LinksIn(nu[m])
      BY <1>3, LinksInParts
    <3>2. \A k \in N \ LinksIn(es) : \E p \in N : k \in LinksIn(nu[p])
      BY DEF Graft
    <3> QED BY <1>1, <3>1, <3>2
  <2> QED BY <1>1, <1>11, <2>1, <2>2 DEF Supported
<1>13. N = Below(Links(nu), SectionsIn(Items(es))) /\ new = SectionsNew(nu, kept, SectionsIn(Items(es)))
  BY DEF NewBelow, LinksIn, kept
<1>14. /\ DOMAIN new = K \cup N /\ new = [k \in K \cup N |-> new[k]]
       /\ \A k \in K \ N : new[k] = kept[k]
       /\ \A k \in N : /\ new[k] \in Section /\ new[k].items = Items(nu[k]) /\ new[k].hasSep = FALSE
                       /\ \A p \in K \cup N : k \in LinksIn(nu[p]) => new[k].ns = ChildNamespace(new[p].ns, LinkOf(k))
  <2>1. HasNew(nu, kept, N, new)
    BY <1>12, <1>13, SectionsNewIs
  <2> QED BY <1>11, <2>1, Zenon DEF HasNew
<1>15. \A k \in K : new[k] = kept[k]
  BY <1>1, <1>14
<1>16. \A k \in K : new[k] \in Section /\ new[k].items = Items(nu[k])
  BY <1>1, <1>2, <1>3, <1>11, <1>15
<1>17. \A k \in K : new[k].ns = secs[k].ns /\ new[k].hasSep = secs[k].hasSep
  BY <1>11, <1>15
<1>18. \A k \in K \ {m} : new[k] = secs[k]
  BY <1>11, <1>15
<1>19. new \in [K \cup N -> Section]
  BY <1>14, <1>16
<1>20. Regrown(nu, secs, new, m, K, N)
  BY <1>14, <1>16, <1>17, <1>18, <1>19 DEF Regrown
<1>21. Tree(nu, new)
  BY <1>1, <1>14, <1>16, <1>19 DEF Tree
<1> QED BY <1>20, <1>21

-----------------------------------------------------------------------------
(* Sequences put together from pieces.                                     *)

\* The piece G has of each element of s, in order.
Mapped(s, G) == [i \in DOMAIN s |-> G[s[i]]]
Joined(s, G) == FlattenSeq(Mapped(s, G))

Maps(v, s, G, U) == v \in Seq(U) /\ Len(v) = Len(s) /\ \A i \in 1..Len(s) : v[i] = G[s[i]]

\* Mapping a sequence element by element.
LEMMA MappedTyped ==
  ASSUME NEW T, NEW U, NEW G \in [T -> U], NEW s \in Seq(T)
  PROVE  Maps(Mapped(s, G), s, G, U)
<1> DEFINE v == [i \in DOMAIN s |-> G[s[i]]]
<1>1. DOMAIN s = 1..Len(s) /\ Len(s) \in Nat /\ \A i \in 1..Len(s) : s[i] \in T
  OBVIOUS
<1>2. v = [i \in 1..Len(s) |-> G[s[i]]]
  BY <1>1
<1>3. \A i \in 1..Len(s) : G[s[i]] \in U
  BY <1>1
<1>4. DOMAIN v = 1..Len(s) /\ \A i \in 1..Len(s) : v[i] = G[s[i]]
  BY <1>1
<1> HIDE DEF v
<1>5. v \in Seq(U)
  BY <1>1, <1>2, <1>3, IsASeq
<1>6. Len(v) = Len(s)
  BY <1>1, <1>4, <1>5, LenProperties
<1>7. Maps(v, s, G, U)
  BY <1>4, <1>5, <1>6 DEF Maps
<1> QED BY <1>7 DEF Mapped, v

\* Mapping a concatenation.
LEMMA MappedConcat ==
  ASSUME NEW T, NEW U, NEW G \in [T -> U], NEW s \in Seq(T), NEW t \in Seq(T)
  PROVE  Mapped(s \o t, G) = Mapped(s, G) \o Mapped(t, G)
<1> DEFINE v == Mapped(s, G)
           w == Mapped(t, G)
           u == Mapped(s \o t, G)
<1>1. /\ s \o t \in Seq(T) /\ Len(s) \in Nat /\ Len(t) \in Nat /\ Len(s \o t) = Len(s) + Len(t)
      /\ \A i \in 1..(Len(s) + Len(t)) : (s \o t)[i] = IF i <= Len(s) THEN s[i] ELSE t[i - Len(s)]
  OBVIOUS
<1>2. v \in Seq(U) /\ Len(v) = Len(s) /\ \A i \in 1..Len(s) : v[i] = G[s[i]]
  <2>1. Maps(Mapped(s, G), s, G, U)
    BY MappedTyped
  <2> QED BY <2>1 DEF Maps
<1>3. w \in Seq(U) /\ Len(w) = Len(t) /\ \A i \in 1..Len(t) : w[i] = G[t[i]]
  <2>1. Maps(Mapped(t, G), t, G, U)
    BY MappedTyped
  <2> QED BY <2>1 DEF Maps
<1>4. u \in Seq(U) /\ Len(u) = Len(s \o t) /\ \A i \in 1..Len(s \o t) : u[i] = G[(s \o t)[i]]
  <2>1. s \o t \in Seq(T)
    BY <1>1
  <2>2. Maps(Mapped(s \o t, G), s \o t, G, U)
    BY <2>1, MappedTyped
  <2> QED BY <2>2 DEF Maps
<1> HIDE DEF u, v, w
<1>5. v \o w \in Seq(U) /\ Len(v \o w) = Len(s) + Len(t)
      /\ \A i \in 1..(Len(s) + Len(t)) : (v \o w)[i] = IF i <= Len(s) THEN v[i] ELSE w[i - Len(s)]
  <2>1. v \o w \in Seq(U) /\ Len(v \o w) = Len(v) + Len(w)
        /\ \A i \in 1..(Len(v) + Len(w)) : (v \o w)[i] = IF i <= Len(v) THEN v[i] ELSE w[i - Len(v)]
    <3>1. v \in Seq(U) /\ w \in Seq(U)
      BY <1>2, <1>3
    <3> QED BY <3>1, ConcatProperties
  <2> QED BY <1>2, <1>3, <2>1
<1>6. ASSUME NEW i \in 1..(Len(s) + Len(t)) PROVE u[i] = (v \o w)[i]
  <2>1. CASE i <= Len(s)
    <3>1. i \in 1..Len(s)
      BY <1>1, <2>1
    <3> QED BY <1>1, <1>2, <1>4, <1>5, <2>1, <3>1
  <2>2. CASE ~(i <= Len(s))
    <3>1. i - Len(s) \in 1..Len(t)
      BY <1>1, <2>2
    <3> QED BY <1>1, <1>3, <1>4, <1>5, <2>2, <3>1
  <2> QED BY <2>1, <2>2
<1>7. u = v \o w
  BY <1>1, <1>4, <1>5, <1>6, SeqEqual
<1> QED BY <1>7 DEF u, v, w

\* The joined pieces of a sequence have the elements of the pieces.
LEMMA JoinedTyped ==
  ASSUME NEW T, NEW A, NEW G \in [T -> Seq(A)], NEW s \in Seq(T)
  PROVE  Joined(s, G) \in Seq(A)
<1> DEFINE v == Mapped(s, G)
<1>1. v \in Seq(Seq(A))
  BY MappedTyped, Zenon DEF Maps
<1> HIDE DEF v
<1>2. FlattenSeq(v) \in Seq(A)
  BY <1>1, FlattenType
<1> QED BY <1>2 DEF Joined, v

\* The joined pieces of a concatenation.
LEMMA JoinedConcat ==
  ASSUME NEW T, NEW A, NEW G \in [T -> Seq(A)], NEW s \in Seq(T), NEW t \in Seq(T)
  PROVE  Joined(s \o t, G) = Joined(s, G) \o Joined(t, G)
<1> DEFINE v == Mapped(s, G)
           w == Mapped(t, G)
           u == Mapped(s \o t, G)
<1>1. v \in Seq(Seq(A)) /\ w \in Seq(Seq(A))
  BY MappedTyped, Zenon DEF Maps
<1>2. u = v \o w
  BY MappedConcat
<1> HIDE DEF u, v, w
<1>3. FlattenSeq(u) = FlattenSeq(v) \o FlattenSeq(w)
  BY <1>1, <1>2, FlattenConcat
<1> QED BY <1>3 DEF Joined, u, v, w

\* No pieces.
LEMMA JoinedEmpty == ASSUME NEW G PROVE Joined(<<>>, G) = <<>>
<1>1. Mapped(<<>>, G) = <<>>
  BY DEF Mapped
<1> QED BY <1>1, FlattenEmpty DEF Joined

\* A single piece.
LEMMA JoinedOne ==
  ASSUME NEW T, NEW A, NEW G \in [T -> Seq(A)], NEW x \in T
  PROVE  Joined(<<x>>, G) = G[x]
<1>1. Mapped(<<x>>, G) = <<G[x]>>
  BY DEF Mapped
<1>2. FlattenSeq(<<G[x]>>) = G[x]
  BY FlattenOne
<1> QED BY <1>1, <1>2 DEF Joined

-----------------------------------------------------------------------------
(* The rows that are added and removed.                                    *)

\* Adding rows adds their number.
LEMMA AddRowsTyped ==
  ASSUME NEW A, NEW rs \in Seq(A), NEW new \in Seq(A), NEW offset \in Nat
  PROVE  AddRows(rs, offset, new) \in Seq(A) /\ Len(AddRows(rs, offset, new)) = Len(rs) + Len(new)
<1> DEFINE at == At(rs, offset)
           p == SubSeq(rs, 1, at)
           q == SubSeq(rs, at + 1, Len(rs))
<1>1. Len(rs) \in Nat /\ at \in 0..Len(rs) /\ Len(new) \in Nat
  BY DEF At
<1> HIDE DEF at
<1>2. p \in Seq(A) /\ q \in Seq(A) /\ Len(p) = at /\ Len(q) = Len(rs) - at
  BY <1>1
<1>3. AddRows(rs, offset, new) = p \o new \o q
  BY DEF AddRows, at
<1> HIDE DEF p, q
<1>4. p \o new \in Seq(A) /\ Len(p \o new) = Len(p) + Len(new)
  BY <1>2, ConcatProperties, Zenon
<1>5. (p \o new) \o q \in Seq(A) /\ Len((p \o new) \o q) = Len(p \o new) + Len(q)
  BY <1>2, <1>4, ConcatProperties, Zenon
<1>6. Len((p \o new) \o q) = Len(rs) + Len(new)
  BY <1>1, <1>2, <1>4, <1>5
<1> QED BY <1>3, <1>5, <1>6

\* Rows that are added after the first part of the list.
LEMMA AddRowsAt ==
  ASSUME NEW A, NEW p \in Seq(A), NEW q \in Seq(A), NEW new \in Seq(A)
  PROVE  AddRows(p \o q, Len(p), new) = (p \o new) \o q
<1> DEFINE rs == p \o q
<1>1. rs \in Seq(A) /\ Len(rs) = Len(p) + Len(q) /\ Len(p) \in Nat /\ Len(q) \in Nat
  OBVIOUS
<1>2. SubSeq(rs, 1, Len(p)) = p
  <2>1. SubSeq(rs, 1, Len(p)) \in Seq(A) /\ Len(SubSeq(rs, 1, Len(p))) = Len(p)
        /\ \A i \in 1..Len(p) : SubSeq(rs, 1, Len(p))[i] = p[i]
    BY <1>1
  <2> QED BY <2>1, SeqEqual
<1>3. SubSeq(rs, Len(p) + 1, Len(rs)) = q
  <2>1. SubSeq(rs, Len(p) + 1, Len(rs)) \in Seq(A) /\ Len(SubSeq(rs, Len(p) + 1, Len(rs))) = Len(q)
        /\ \A i \in 1..Len(q) : SubSeq(rs, Len(p) + 1, Len(rs))[i] = q[i]
    BY <1>1
  <2> QED BY <2>1, SeqEqual
<1>4. At(rs, Len(p)) = Len(p)
  BY <1>1 DEF At
<1> QED BY <1>2, <1>3, <1>4 DEF AddRows

\* Removing rows that are there takes their number off.
LEMMA RemoveRowsTyped ==
  ASSUME NEW A, NEW rs \in Seq(A), NEW n \in Nat, NEW offset \in Nat
  PROVE  /\ RemoveRows(rs, offset, n) \in Seq(A)
         /\ offset + n <= Len(rs) => Len(RemoveRows(rs, offset, n)) = Len(rs) - n
<1> DEFINE at == At(rs, offset)
           p == SubSeq(rs, 1, at)
           q == SubSeq(rs, offset + n + 1, Len(rs))
<1>1. Len(rs) \in Nat /\ at \in 0..Len(rs) /\ (offset <= Len(rs) => at = offset)
  BY DEF At
<1> HIDE DEF at
<1>2. p \in Seq(A) /\ q \in Seq(A) /\ Len(p) = at
      /\ (offset + n <= Len(rs) => Len(q) = Len(rs) - (offset + n))
  BY <1>1
<1>3. RemoveRows(rs, offset, n) = p \o q
  BY DEF RemoveRows, at
<1> HIDE DEF p, q
<1> QED BY <1>1, <1>2, <1>3

\* Rows that are removed from between two parts of the list.
LEMMA RemoveRowsAt ==
  ASSUME NEW A, NEW p \in Seq(A), NEW g \in Seq(A), NEW q \in Seq(A)
  PROVE  RemoveRows((p \o g) \o q, Len(p), Len(g)) = p \o q
<1> DEFINE rs == (p \o g) \o q
<1>1. rs \in Seq(A) /\ Len(rs) = Len(p) + Len(g) + Len(q) /\ Len(p) \in Nat /\ Len(q) \in Nat /\ Len(g) \in Nat
  OBVIOUS
<1>2. SubSeq(rs, 1, Len(p)) = p
  <2>1. SubSeq(rs, 1, Len(p)) \in Seq(A) /\ Len(SubSeq(rs, 1, Len(p))) = Len(p)
        /\ \A i \in 1..Len(p) : SubSeq(rs, 1, Len(p))[i] = p[i]
    BY <1>1
  <2> QED BY <2>1, SeqEqual
<1>3. SubSeq(rs, Len(p) + Len(g) + 1, Len(rs)) = q
  <2>1. SubSeq(rs, Len(p) + Len(g) + 1, Len(rs)) \in Seq(A) /\ Len(SubSeq(rs, Len(p) + Len(g) + 1, Len(rs))) = Len(q)
        /\ \A i \in 1..Len(q) : SubSeq(rs, Len(p) + Len(g) + 1, Len(rs))[i] = q[i]
    BY <1>1
  <2> QED BY <2>1, SeqEqual
<1>4. At(rs, Len(p)) = Len(p)
  BY <1>1 DEF At
<1> QED BY <1>2, <1>3, <1>4 DEF RemoveRows

-----------------------------------------------------------------------------
(* The rows of entries, when flat has those of the sections D.             *)

EntriesOf(D) == {e \in Entries : SectionOf[e] = NoLink \/ SectionOf[e] \in D}

PlainPiece(D, ns) == [e \in EntriesOf(D) |-> IF SectionOf[e] = NoLink THEN <<Row(e, ns, FALSE)>> ELSE <<>>]
SectionPiece(D, flat) == [e \in EntriesOf(D) |-> IF SectionOf[e] = NoLink THEN <<>> ELSE flat[SectionOf[e]]]
RowPiece(D, ns, flat) ==
  [e \in EntriesOf(D) |-> IF SectionOf[e] = NoLink THEN <<Row(e, ns, FALSE)>> ELSE flat[SectionOf[e]]]

\* The rows in the order of the entries.
ItemRows(D, es, ns, flat) == Joined(es, RowPiece(D, ns, flat))

\* The pieces are rows.
Flats(D, ns, flat) == D \subseteq Models /\ ns \in Namespaces /\ flat \in [D -> Seq(RowsOf)]

\* Entries that link sections in D only are entries of D.
LEMMA EntriesIn ==
  ASSUME NEW D, NEW es \in Seq(Entries), LinksIn(es) \subseteq D
  PROVE  es \in Seq(EntriesOf(D))
<1>1. Len(es) \in Nat /\ es = [i \in 1..Len(es) |-> es[i]] /\ \A i \in 1..Len(es) : es[i] \in Entries /\ es[i] \in ToSet(es)
  BY DEF ToSet
<1>2. \A i \in 1..Len(es) : SectionOf[es[i]] = NoLink \/ SectionOf[es[i]] \in LinksIn(es)
  BY <1>1, LinksInEntries
<1>3. \A i \in 1..Len(es) : es[i] \in EntriesOf(D)
  BY <1>1, <1>2 DEF EntriesOf
<1> QED BY <1>1, <1>3, IsASeq

\* The pieces of each entry are rows.
LEMMA PiecesTyped ==
  ASSUME NEW D, NEW ns, NEW flat, Flats(D, ns, flat)
  PROVE  /\ PlainPiece(D, ns) \in [EntriesOf(D) -> Seq(RowsOf)]
         /\ SectionPiece(D, flat) \in [EntriesOf(D) -> Seq(RowsOf)]
         /\ RowPiece(D, ns, flat) \in [EntriesOf(D) -> Seq(RowsOf)]
<1>1. \A e \in EntriesOf(D) : Row(e, ns, FALSE) \in RowsOf
  BY DEF Row, RowsOf, EntriesOf, Flats
<1>2. \A r \in RowsOf : <<r>> \in Seq(RowsOf)
  OBVIOUS
<1>3. \A e \in EntriesOf(D) : SectionOf[e] # NoLink => flat[SectionOf[e]] \in Seq(RowsOf)
  BY DEF EntriesOf, Flats
<1>4. <<>> \in Seq(RowsOf)
  OBVIOUS
<1>5. PlainPiece(D, ns) \in [EntriesOf(D) -> Seq(RowsOf)]
  BY <1>1, <1>2, <1>4 DEF PlainPiece
<1>6. SectionPiece(D, flat) \in [EntriesOf(D) -> Seq(RowsOf)]
  BY <1>3, <1>4 DEF SectionPiece
<1>7. RowPiece(D, ns, flat) \in [EntriesOf(D) -> Seq(RowsOf)]
  BY <1>1, <1>2, <1>3 DEF RowPiece
<1> QED BY <1>5, <1>6, <1>7

\* The rows that are added: the pieces of the plain items, and those of the
\* sections.
LEMMA AddedJoined ==
  ASSUME NEW D, NEW ns, NEW flat, NEW es \in Seq(EntriesOf(D))
  PROVE  AddedRows(es, ns, flat) = Joined(es, PlainPiece(D, ns)) \o Joined(es, SectionPiece(D, flat))
<1>1. \A i \in DOMAIN es : es[i] \in EntriesOf(D)
  OBVIOUS
<1>2. [i \in DOMAIN es |-> IF SectionOf[es[i]] = NoLink THEN <<Row(es[i], ns, FALSE)>> ELSE <<>>]
      = Mapped(es, PlainPiece(D, ns))
  BY <1>1 DEF Mapped, PlainPiece
<1>3. [i \in DOMAIN es |-> IF SectionOf[es[i]] = NoLink THEN <<>> ELSE flat[SectionOf[es[i]]]]
      = Mapped(es, SectionPiece(D, flat))
  BY <1>1 DEF Mapped, SectionPiece
<1> QED BY <1>2, <1>3, Zenon DEF AddedRows, Joined

\* The rows that are added are rows.
LEMMA AddedRowsTyped ==
  ASSUME NEW D, NEW ns, NEW flat, Flats(D, ns, flat), NEW es \in Seq(EntriesOf(D))
  PROVE  AddedRows(es, ns, flat) \in Seq(RowsOf)
<1> DEFINE p == Joined(es, PlainPiece(D, ns))
           q == Joined(es, SectionPiece(D, flat))
<1>1. PlainPiece(D, ns) \in [EntriesOf(D) -> Seq(RowsOf)] /\ SectionPiece(D, flat) \in [EntriesOf(D) -> Seq(RowsOf)]
  BY PiecesTyped
<1>2. p \in Seq(RowsOf) /\ q \in Seq(RowsOf)
  BY <1>1, JoinedTyped
<1>3. AddedRows(es, ns, flat) = p \o q
  BY AddedJoined
<1> HIDE DEF p, q
<1> QED BY <1>2, <1>3, ConcatProperties, Zenon

\* Only the rows of the sections that are linked matter.
LEMMA AddedRowsSame ==
  ASSUME NEW es \in Seq(Entries), NEW ns, NEW g, NEW h, \A k \in LinksIn(es) : g[k] = h[k]
  PROVE  AddedRows(es, ns, g) = AddedRows(es, ns, h)
<1>1. ASSUME NEW i \in DOMAIN es, SectionOf[es[i]] # NoLink PROVE g[SectionOf[es[i]]] = h[SectionOf[es[i]]]
  <2>1. es[i] \in ToSet(es) /\ es[i] \in Entries
    BY DEF ToSet
  <2> QED BY <1>1, <2>1, LinksInEntries
<1>2. [i \in DOMAIN es |-> IF SectionOf[es[i]] = NoLink THEN <<>> ELSE g[SectionOf[es[i]]]]
      = [i \in DOMAIN es |-> IF SectionOf[es[i]] = NoLink THEN <<>> ELSE h[SectionOf[es[i]]]]
  BY <1>1
<1> QED BY <1>2, Zenon DEF AddedRows

-----------------------------------------------------------------------------
(* Their number.                                                           *)

\* f has the numbers of rows of flat.
Counts(D, flat, f) == f \in [D -> Nat] /\ \A k \in D : Len(flat[k]) = f[k]

\* One more entry.
LEMMA JoinedAppend ==
  ASSUME NEW T, NEW A, NEW G \in [T -> Seq(A)], NEW s \in Seq(T), NEW x \in T
  PROVE  Joined(Append(s, x), G) = Joined(s, G) \o G[x]
<1>1. Append(s, x) = s \o <<x>> /\ <<x>> \in Seq(T)
  OBVIOUS
<1>2. Joined(s \o <<x>>, G) = Joined(s, G) \o Joined(<<x>>, G)
  BY <1>1, JoinedConcat
<1>3. Joined(<<x>>, G) = G[x]
  BY JoinedOne
<1> QED BY <1>1, <1>2, <1>3

\* The measure of entries with one more.
LEMMA MeasureAppend ==
  ASSUME NEW D, D \subseteq Models, NEW f \in [D -> Nat], NEW es \in Seq(EntriesOf(D)), NEW e \in EntriesOf(D)
  PROVE  /\ MeasureItems(Items(es), f) \in Nat
         /\ MeasureItems(Items(Append(es, e)), f)
            = MeasureItems(Items(es), f) + (IF SectionOf[e] = NoLink THEN 1 ELSE f[SectionOf[e]])
<1> DEFINE T == D \cup {NoLink}
           n == IF SectionOf[e] = NoLink THEN 1 ELSE f[SectionOf[e]]
<1>1. Measures(T, f)
  BY DEF Measures
<1>2. \A u \in Seq(EntriesOf(D)) : u \in Seq(Entries)
  <2>1. EntriesOf(D) \subseteq Entries
    BY DEF EntriesOf
  <2> QED BY <2>1, SeqMonotonic
<1>3. ASSUME NEW u \in Seq(EntriesOf(D)) PROVE Items(u) \in Seq(T)
  <2>1. /\ Items(u) \in Seq(Models \cup {NoLink}) /\ Len(Items(u)) = Len(u) /\ DOMAIN u = 1..Len(u) /\ Len(u) \in Nat
        /\ \A i \in DOMAIN u : Items(u)[i] = SectionOf[u[i]] /\ u[i] \in EntriesOf(D)
    BY <1>2, ItemsShape
  <2>2. \A i \in 1..Len(u) : Items(u)[i] \in T
    BY <2>1 DEF EntriesOf
  <2>3. Items(u) = [i \in 1..Len(u) |-> Items(u)[i]]
    BY <2>1
  <2> HIDE DEF T
  <2> QED BY <2>1, <2>2, <2>3, IsASeq
<1>4. Append(es, e) = es \o <<e>> /\ es \in Seq(Entries) /\ <<e>> \in Seq(Entries) /\ <<e>> \in Seq(EntriesOf(D)) /\ e \in Entries
  BY <1>2 DEF EntriesOf
<1>5. Items(es \o <<e>>) = Items(es) \o Items(<<e>>)
  BY <1>4, ItemsConcat
<1>6. Items(<<e>>) = <<SectionOf[e]>>
  BY DEF Items
<1>7. SectionOf[e] \in T
  BY DEF EntriesOf
<1> HIDE DEF T
<1>8. MeasureItems(<<SectionOf[e]>>, f) = n
  BY <1>1, <1>7, MeasureOne
<1>9. Items(es) \in Seq(T) /\ <<SectionOf[e]>> \in Seq(T)
  BY <1>3, <1>7
<1>10. /\ MeasureItems(Items(es), f) \in Nat
       /\ MeasureItems(Items(es) \o <<SectionOf[e]>>, f) = MeasureItems(Items(es), f) + MeasureItems(<<SectionOf[e]>>, f)
  BY <1>1, <1>9, MeasureConcat
<1> QED BY <1>4, <1>5, <1>6, <1>8, <1>10

\* The rows of entries are as many as they measure.
LEMMA ItemRowsCount ==
  ASSUME NEW D, NEW ns, NEW flat, NEW f, Flats(D, ns, flat), Counts(D, flat, f), NEW es \in Seq(EntriesOf(D))
  PROVE  Len(ItemRows(D, es, ns, flat)) = MeasureItems(Items(es), f)
<1> DEFINE G == RowPiece(D, ns, flat)
           P == {u \in Seq(EntriesOf(D)) : Len(Joined(u, G)) = MeasureItems(Items(u), f)}
<1>1. G \in [EntriesOf(D) -> Seq(RowsOf)]
  BY PiecesTyped
<1>2. <<>> \in P
  <2>1. Joined(<<>>, G) = <<>> /\ Items(<<>>) = <<>> /\ MeasureItems(<<>>, f) = 0
    BY JoinedEmpty, MeasureNone DEF Items
  <2> QED BY <2>1
<1>3. ASSUME NEW u \in Seq(EntriesOf(D)), NEW e \in EntriesOf(D), u \in P PROVE Append(u, e) \in P
  <2>1. Joined(Append(u, e), G) = Joined(u, G) \o G[e] /\ Joined(u, G) \in Seq(RowsOf) /\ G[e] \in Seq(RowsOf)
    BY <1>1, JoinedAppend, JoinedTyped
  <2>2. Len(G[e]) = IF SectionOf[e] = NoLink THEN 1 ELSE f[SectionOf[e]]
    BY DEF RowPiece, EntriesOf, Counts
  <2>3. D \subseteq Models /\ f \in [D -> Nat]
    BY DEF Flats, Counts
  <2>4. MeasureItems(Items(Append(u, e)), f) = MeasureItems(Items(u), f) + Len(G[e])
    BY <2>2, <2>3, MeasureAppend
  <2>5. Len(Joined(u, G)) = MeasureItems(Items(u), f)
    BY <1>3
  <2> HIDE DEF G
  <2>6. Len(Joined(u, G) \o G[e]) = Len(Joined(u, G)) + Len(G[e])
    BY <2>1, ConcatProperties
  <2>7. Len(Joined(Append(u, e), G)) = MeasureItems(Items(Append(u, e)), f)
    BY <2>1, <2>4, <2>5, <2>6
  <2> QED BY <2>7
<1> HIDE DEF P
<1>4. \A u \in Seq(EntriesOf(D)) : u \in P
  BY <1>2, <1>3, SeqInduction
<1> QED BY <1>4 DEF P, ItemRows

\* The rows that are added are as many as the entries measure.
LEMMA AddedRowsCount ==
  ASSUME NEW D, NEW ns, NEW flat, NEW f, Flats(D, ns, flat), Counts(D, flat, f), NEW es \in Seq(EntriesOf(D))
  PROVE  Len(AddedRows(es, ns, flat)) = MeasureItems(Items(es), f)
<1> DEFINE G == PlainPiece(D, ns)
           H == SectionPiece(D, flat)
           P == {u \in Seq(EntriesOf(D)) : Len(Joined(u, G)) + Len(Joined(u, H)) = MeasureItems(Items(u), f)}
<1>1. G \in [EntriesOf(D) -> Seq(RowsOf)] /\ H \in [EntriesOf(D) -> Seq(RowsOf)]
  BY PiecesTyped
<1>2. <<>> \in P
  <2>1. Joined(<<>>, G) = <<>> /\ Joined(<<>>, H) = <<>> /\ Items(<<>>) = <<>> /\ MeasureItems(<<>>, f) = 0
    BY JoinedEmpty, MeasureNone DEF Items
  <2> QED BY <2>1
<1>3. ASSUME NEW u \in Seq(EntriesOf(D)), NEW e \in EntriesOf(D), u \in P PROVE Append(u, e) \in P
  <2>1. Joined(Append(u, e), G) = Joined(u, G) \o G[e] /\ Joined(u, G) \in Seq(RowsOf) /\ G[e] \in Seq(RowsOf)
    BY <1>1, JoinedAppend, JoinedTyped
  <2>2. Joined(Append(u, e), H) = Joined(u, H) \o H[e] /\ Joined(u, H) \in Seq(RowsOf) /\ H[e] \in Seq(RowsOf)
    BY <1>1, JoinedAppend, JoinedTyped
  <2>3. Len(G[e]) + Len(H[e]) = IF SectionOf[e] = NoLink THEN 1 ELSE f[SectionOf[e]]
    BY DEF PlainPiece, SectionPiece, EntriesOf, Counts
  <2>4. D \subseteq Models /\ f \in [D -> Nat]
    BY DEF Flats, Counts
  <2>5. MeasureItems(Items(Append(u, e)), f) = MeasureItems(Items(u), f) + (Len(G[e]) + Len(H[e]))
    BY <2>3, <2>4, MeasureAppend
  <2>6. Len(Joined(u, G)) + Len(Joined(u, H)) = MeasureItems(Items(u), f)
    BY <1>3
  <2> HIDE DEF G, H
  <2>7. Len(Joined(u, G) \o G[e]) = Len(Joined(u, G)) + Len(G[e])
    BY <2>1, ConcatProperties
  <2>8. Len(Joined(u, H) \o H[e]) = Len(Joined(u, H)) + Len(H[e])
    BY <2>2, ConcatProperties
  <2>9. Len(G[e]) \in Nat /\ Len(H[e]) \in Nat /\ Len(Joined(u, G)) \in Nat /\ Len(Joined(u, H)) \in Nat
    BY <2>1, <2>2
  <2>10. Len(Joined(Append(u, e), G)) + Len(Joined(Append(u, e), H)) = MeasureItems(Items(Append(u, e)), f)
    <3> DEFINE p == Len(Joined(u, G))
               q == Len(Joined(u, H))
               x == Len(G[e])
               y == Len(H[e])
               l == Len(Joined(Append(u, e), G))
               r == Len(Joined(Append(u, e), H))
               k == MeasureItems(Items(u), f)
               n == MeasureItems(Items(Append(u, e)), f)
    <3>1. p \in Nat /\ q \in Nat /\ x \in Nat /\ y \in Nat
      BY <2>9
    <3>2. l = p + x /\ r = q + y
      BY <2>1, <2>2, <2>7, <2>8, Zenon
    <3>3. n = k + (x + y) /\ p + q = k
      BY <2>5, <2>6, Zenon
    <3>4. l + r = n
      <4> HIDE DEF p, q, x, y, l, r, k, n
      <4> QED BY <3>1, <3>2, <3>3
    <3> QED BY <3>4
  <2> QED BY <2>10
<1> HIDE DEF P
<1>4. \A u \in Seq(EntriesOf(D)) : u \in P
  BY <1>2, <1>3, SeqInduction
<1>5. Len(Joined(es, G)) + Len(Joined(es, H)) = MeasureItems(Items(es), f)
  BY <1>4 DEF P
<1>6. Joined(es, G) \in Seq(RowsOf) /\ Joined(es, H) \in Seq(RowsOf)
  BY <1>1, JoinedTyped
<1>7. Len(Joined(es, G) \o Joined(es, H)) = Len(Joined(es, G)) + Len(Joined(es, H))
  <2> HIDE DEF G, H
  <2> QED BY <1>6, ConcatProperties
<1> QED BY <1>5, <1>7, AddedJoined

-----------------------------------------------------------------------------
(* The rows that new sections bring.                                       *)

\* The entries of a section, and what they link.
LEMMA TreeEntries ==
  ASSUME NEW mu, NEW secs, MenuOK(mu), Tree(mu, secs), NEW m \in DOMAIN secs
  PROVE  /\ mu[m] \in Seq(Entries) /\ mu[m] \in Seq(EntriesOf(DOMAIN secs))
         /\ \A k \in LinksIn(mu[m]) : k \in DOMAIN secs /\ Height[k] < Height[m]
         /\ m \in Models /\ secs[m].ns \in Namespaces
<1>1. TreeShape(mu, secs) /\ LinksOK(mu)
  BY TreeHasShape, MenuLinks
<1>2. m \in Models /\ mu[m] \in Seq(Entries) /\ LinksIn(mu[m]) \subseteq DOMAIN secs
  BY <1>1 DEF TreeShape, MenuOK
<1>3. mu[m] \in Seq(EntriesOf(DOMAIN secs))
  BY <1>2, EntriesIn
<1>4. \A k \in LinksIn(mu[m]) : Height[k] < Height[m]
  BY <1>1, <1>2 DEF LinksOK
<1>5. secs[m].ns \in Namespaces
  BY DEF Tree, Section
<1> QED BY <1>2, <1>3, <1>4, <1>5

IsMade(mu, secs, f) ==
  /\ f \in [DOMAIN secs -> Seq(RowsOf)]
  /\ \A m \in DOMAIN secs : f[m] = AddedRows(mu[m], secs[m].ns, f)

\* What is made, by its defining equation.
LEMMA MadeSolved ==
  ASSUME NEW mu, NEW secs, MenuOK(mu), Tree(mu, secs)
  PROVE  IsMade(mu, secs, MadeRows(mu, secs))
<1> DEFINE S == DOMAIN secs
           V == Seq(RowsOf)
           rank == HeightOf(secs)
           E(m, g) == AddedRows(mu[m], secs[m].ns, g)
           D == [p \in S \X [S -> V] |-> E(p[1], p[2])]
           Eq(t) == t = [m \in DOMAIN secs |-> AddedRows(mu[m], secs[m].ns, t)]
<1>1. rank \in [S -> Nat] /\ V # {} /\ \A k \in S : rank[k] = Height[k]
  <2>1. rank \in [S -> Nat]
    BY TreeNested, HeightTyped
  <2>2. \A k \in S : rank[k] = Height[k]
    BY DEF HeightOf
  <2>3. <<>> \in V
    OBVIOUS
  <2> QED BY <2>1, <2>2, <2>3
<1>2. \A m \in S, g \in [S -> V] : D[<<m, g>>] = E(m, g)
  OBVIOUS
<1>3. ASSUME NEW m \in S, NEW g, \A k \in S : Height[k] < Height[m] => g[k] \in V
      PROVE  E(m, g) \in V
  <2> DEFINE h == [k \in S |-> IF Height[k] < Height[m] THEN g[k] ELSE <<>>]
  <2>1. <<>> \in Seq(RowsOf)
    OBVIOUS
  <2>2. h \in [S -> Seq(RowsOf)] /\ \A k \in S : Height[k] < Height[m] => g[k] = h[k]
    BY <1>3, <2>1
  <2> HIDE DEF h
  <2>3. /\ mu[m] \in Seq(Entries) /\ mu[m] \in Seq(EntriesOf(S)) /\ secs[m].ns \in Namespaces
        /\ \A k \in LinksIn(mu[m]) : k \in S /\ Height[k] < Height[m]
    BY TreeEntries
  <2>4. \A k \in LinksIn(mu[m]) : g[k] = h[k]
    BY <2>2, <2>3
  <2>5. AddedRows(mu[m], secs[m].ns, g) = AddedRows(mu[m], secs[m].ns, h)
    BY <2>3, <2>4, AddedRowsSame
  <2>6. Flats(S, secs[m].ns, h)
    BY <2>2, <2>3, TreeHasShape DEF Flats, TreeShape
  <2>7. AddedRows(mu[m], secs[m].ns, h) \in Seq(RowsOf)
    <3> HIDE DEF S
    <3> QED BY <2>3, <2>6, AddedRowsTyped
  <2> QED BY <2>5, <2>7
<1>4. D \in [S \X [S -> V] -> V]
  <2>1. \A m \in S, g \in [S -> V] : E(m, g) \in V
    <3> SUFFICES ASSUME NEW m \in S, NEW g \in [S -> V] PROVE E(m, g) \in V
      OBVIOUS
    <3> HIDE DEF E, V
    <3> QED BY <1>3
  <2> HIDE DEF E
  <2> QED BY <2>1
<1>5. ASSUME NEW m \in S, NEW g, NEW h, \A k \in S : rank[k] < rank[m] => g[k] = h[k]
      PROVE  E(m, g) = E(m, h)
  <2>1. mu[m] \in Seq(Entries) /\ \A k \in LinksIn(mu[m]) : k \in S /\ Height[k] < Height[m]
    BY TreeEntries
  <2>2. \A k \in LinksIn(mu[m]) : g[k] = h[k]
    BY <1>1, <1>5, <2>1
  <2> QED BY <2>1, <2>2, AddedRowsSame
<1>6. Recursive(S, V, rank, D)
  <2> HIDE DEF rank, D, S, V, E
  <2> QED BY <1>1, <1>2, <1>4, <1>5 DEF Recursive
<1> HIDE DEF rank, D, S, V, E
<1>7. PICK f : Solves(f, S, V, D)
  BY <1>6, Recursion
<1>8. Eq(f)
  BY <1>2, <1>7, Zenon DEF Solves, S, E
<1> DEFINE t == CHOOSE t : Eq(t)
<1>9. Eq(t)
  <2> HIDE DEF Eq
  <2> QED BY <1>8
<1>10. MadeRows(mu, secs) = t
  BY DEF MadeRows
<1> HIDE DEF t
<1>11. \A m \in S : t[m] = E(m, t)
  BY <1>9 DEF S, E
<1>12. \A m \in S : t[m] \in V
  <2> DEFINE P == {k \in S : t[k] \in V}
  <2>1. ASSUME NEW m \in S, \A k \in S : rank[k] < rank[m] => k \in P PROVE m \in P
    <3>1. \A k \in S : Height[k] < Height[m] => t[k] \in V
      BY <1>1, <2>1
    <3>2. E(m, t) \in V
      BY <1>3, <3>1
    <3> QED BY <1>11, <3>2
  <2> HIDE DEF P
  <2>2. \A m \in S : m \in P
    BY <1>1, <2>1, RankInduction
  <2> QED BY <2>2 DEF P
<1>13. t \in [DOMAIN secs -> Seq(RowsOf)]
  <2>1. t = [m \in DOMAIN secs |-> t[m]]
    BY <1>9
  <2> QED BY <1>12, <2>1 DEF S, V
<1> QED BY <1>10, <1>11, <1>13 DEF IsMade, E, S

\* What is made has as many rows as it measures, while no separator is shown.
LEMMA MadeCount ==
  ASSUME NEW mu, NEW secs, NEW N, MenuOK(mu), Tree(mu, secs), N \subseteq DOMAIN secs,
         \A k \in N : secs[k].hasSep = FALSE /\ LinksIn(mu[k]) \subseteq N
  PROVE  \A k \in N : Len(MadeRows(mu, secs)[k]) = Measure(secs)[k]
<1> DEFINE made == MadeRows(mu, secs)
           measure == Measure(secs)
           D == DOMAIN secs
           rank == [k \in N |-> Height[k]]
           P == {k \in N : Len(made[k]) = measure[k]}
<1>1. made \in [D -> Seq(RowsOf)] /\ \A m \in D : made[m] = AddedRows(mu[m], secs[m].ns, made)
  BY MadeSolved DEF IsMade
<1>2. measure \in [D -> Nat] /\ \A m \in D : measure[m] = Separator(secs[m]) + MeasureItems(secs[m].items, measure)
  BY TreeNested, MeasureSolved DEF IsMeasure
<1> HIDE DEF made, measure
<1>3. N \subseteq Models /\ D \subseteq Models
  BY TreeHasShape DEF TreeShape
<1>4. rank \in [N -> Nat]
  BY <1>3, LinkAssumption
<1>5. ASSUME NEW m \in N, \A k \in N : rank[k] < rank[m] => k \in P PROVE m \in P
  <2> DEFINE flat == [k \in N |-> made[k]]
             count == [k \in N |-> IF k \in P THEN measure[k] ELSE Len(made[k])]
             es == mu[m]
  <2>1. m \in D /\ es \in Seq(Entries) /\ secs[m].ns \in Namespaces /\ LinksIn(es) \subseteq N
        /\ \A k \in LinksIn(es) : Height[k] < Height[m]
    BY TreeEntries
  <2>2. \A k \in LinksIn(es) : k \in P
    BY <1>5, <2>1
  <2>3. flat \in [N -> Seq(RowsOf)]
    BY <1>1
  <2>4. Counts(N, flat, count)
    <3>1. \A k \in N : made[k] \in Seq(RowsOf) /\ measure[k] \in Nat
      BY <1>1, <1>2
    <3>2. count \in [N -> Nat]
      BY <3>1
    <3>3. \A k \in N : Len(flat[k]) = count[k]
      OBVIOUS
    <3> QED BY <3>2, <3>3 DEF Counts
  <2>5. \A k \in LinksIn(es) : made[k] = flat[k] /\ measure[k] = count[k]
    BY <2>1, <2>2
  <2>6. secs[m].items = Items(es) /\ Separator(secs[m]) = 0
    BY <2>1 DEF Tree, Separator
  <2> HIDE DEF flat, count, es
  <2>7. AddedRows(es, secs[m].ns, made) = AddedRows(es, secs[m].ns, flat)
    BY <2>1, <2>5, AddedRowsSame
  <2>8. Flats(N, secs[m].ns, flat)
    BY <1>3, <2>1, <2>3 DEF Flats
  <2>9. es \in Seq(EntriesOf(N))
    BY <2>1, EntriesIn
  <2>10. Len(AddedRows(es, secs[m].ns, flat)) = MeasureItems(Items(es), count)
    BY <2>4, <2>8, <2>9, AddedRowsCount
  <2>11. MeasureItems(Items(es), count) = MeasureItems(Items(es), measure)
    <3>1. \A i \in DOMAIN Items(es) : Items(es)[i] # NoLink => Items(es)[i] \in LinksIn(es)
      BY DEF LinksIn, SectionsIn, ToSet
    <3>2. \A i \in DOMAIN Items(es) : Items(es)[i] # NoLink => count[Items(es)[i]] = measure[Items(es)[i]]
      BY <2>5, <3>1
    <3> QED BY <3>2, MeasureSame
  <2>12. measure[m] = MeasureItems(Items(es), measure)
    <3>1. measure[m] \in Nat /\ measure[m] = 0 + MeasureItems(Items(es), measure)
      BY <1>2, <2>1, <2>6
    <3>2. MeasureItems(Items(es), measure) \in Nat
      <4>1. Items(es) \in Seq(ListItems(secs))
        BY <2>1, <2>6, TreeNested, ItemsTyped
      <4>2. Measures(ListItems(secs), measure)
        BY <1>2, MeasuresListItems
      <4> QED BY <4>1, <4>2, MeasureConcat
    <3> QED BY <3>1, <3>2
  <2>13. made[m] = AddedRows(es, secs[m].ns, made)
    BY <1>1, <2>1 DEF es
  <2> QED BY <2>7, <2>10, <2>11, <2>12, <2>13
<1> HIDE DEF P, rank
<1>6. \A k \in N : k \in P
  BY <1>4, <1>5, RankInduction
<1> QED BY <1>6 DEF P, made, measure

-----------------------------------------------------------------------------
(* Syncing the separators.                                                 *)

\* Each section has its separator exactly when it has rows and is due one.
SeparatorsDue(mu, secs) ==
  \A m \in DOMAIN secs :
    secs[m].hasSep <=> CouldHaveSeparator(mu, secs, m) /\ MeasureItems(secs[m].items, Measure(secs)) # 0

IsSynced(mu, secs, t) ==
  /\ DOMAIN t = DOMAIN secs /\ t \in [DOMAIN secs -> Section]
  /\ \A m \in DOMAIN secs : /\ t[m].items = secs[m].items /\ t[m].ns = secs[m].ns
                            /\ t[m].hasSep = ShouldHaveSeparator(mu, secs, m)

\* Syncing leaves the items of the sections.
LEMMA SyncedIs ==
  ASSUME NEW mu, NEW secs, Nested(secs)
  PROVE  IsSynced(mu, secs, SectionsSynced(mu, secs))
<1> DEFINE t == SectionsSynced(mu, secs)
<1>1. DOMAIN t = DOMAIN secs
  BY DEF SectionsSynced
<1>2. ASSUME NEW m \in DOMAIN secs
      PROVE  /\ t[m] \in Section /\ t[m].items = secs[m].items /\ t[m].ns = secs[m].ns
             /\ t[m].hasSep = ShouldHaveSeparator(mu, secs, m)
  <2> DEFINE s == secs[m]
             should == ShouldHaveSeparator(mu, secs, m)
  <2>1. s \in Section
    BY DEF Nested
  <2>2. should \in BOOLEAN
    BY DEF ShouldHaveSeparator
  <2>3. t[m] = [s EXCEPT !.hasSep = should]
    BY DEF SectionsSynced
  <2> HIDE DEF s, should, t
  <2>4. /\ t[m] \in Section /\ t[m].items = s.items /\ t[m].ns = s.ns /\ t[m].hasSep = should
    <3> DEFINE I == Seq(Models \cup {NoLink})
               W == Namespaces
    <3>1. s \in [items : I, ns : W, hasSep : BOOLEAN]
      BY <2>1 DEF Section
    <3> HIDE DEF I, W
    <3>2. t[m] \in [items : I, ns : W, hasSep : BOOLEAN]
          /\ t[m].items = s.items /\ t[m].ns = s.ns /\ t[m].hasSep = should
      BY <2>2, <2>3, <3>1
    <3> QED BY <3>2 DEF I, W, Section
  <2> QED BY <2>4 DEF s, should
<1>3. t \in [DOMAIN secs -> Section]
  <2>1. t = [m \in DOMAIN secs |-> t[m]]
    BY DEF SectionsSynced
  <2> HIDE DEF t
  <2> QED BY <1>2, <2>1
<1> HIDE DEF t
<1>4. IsSynced(mu, secs, t)
  BY <1>1, <1>2, <1>3 DEF IsSynced
<1> QED BY <1>4 DEF t

\* So the measures are those with the separators that are due.
LEMMA SyncedMeasures ==
  ASSUME NEW mu, NEW secs, NEW t, Nested(secs), IsSynced(mu, secs, t)
  PROVE  /\ Measure(t) = SyncedMeasure(mu, secs) /\ SeparatorsDue(mu, t)
         /\ \A m \in DOMAIN secs : CouldHaveSeparator(mu, t, m) <=> CouldHaveSeparator(mu, secs, m)
<1> DEFINE D == DOMAIN secs
           f == Measure(t)
           h == SyncedMeasure(mu, secs)
           P == {m \in D : f[m] = h[m]}
<1>1. /\ DOMAIN t = D /\ t \in [D -> Section]
      /\ \A m \in D : t[m].items = secs[m].items /\ t[m].hasSep = ShouldHaveSeparator(mu, secs, m)
  BY DEF IsSynced
<1>2. Nested(t)
  BY <1>1 DEF Nested
<1>3. f \in [D -> Nat] /\ \A m \in D : f[m] = Separator(t[m]) + MeasureItems(t[m].items, f)
  BY <1>1, <1>2, MeasureSolved DEF IsMeasure
<1>4. /\ h \in [D -> Nat]
      /\ \A m \in D : h[m] = MeasureItems(secs[m].items, h)
           + (IF CouldHaveSeparator(mu, secs, m) /\ MeasureItems(secs[m].items, h) # 0 THEN 1 ELSE 0)
  BY SyncedMeasureSolved DEF IsSyncedMeasure
<1>5. \A m \in D : ShouldHaveSeparator(mu, secs, m) <=> CouldHaveSeparator(mu, secs, m) /\ h[m] # 0
  BY DEF ShouldHaveSeparator
<1> HIDE DEF f, h
<1>6. ASSUME NEW m \in D PROVE MeasureItems(secs[m].items, h) \in Nat /\ MeasureItems(secs[m].items, f) \in Nat
  <2>1. secs[m].items \in Seq(ListItems(secs))
    BY ItemsTyped
  <2>2. Measures(ListItems(secs), h) /\ Measures(ListItems(secs), f)
    BY <1>3, <1>4, MeasuresListItems
  <2> QED BY <2>1, <2>2, MeasureConcat
<1>7. ASSUME NEW m \in D
      PROVE  Separator(t[m]) = IF CouldHaveSeparator(mu, secs, m) /\ MeasureItems(secs[m].items, h) # 0 THEN 1 ELSE 0
  <2> DEFINE n == MeasureItems(secs[m].items, h)
             could == CouldHaveSeparator(mu, secs, m)
             should == ShouldHaveSeparator(mu, secs, m)
  <2>1. n \in Nat /\ h[m] = n + (IF could /\ n # 0 THEN 1 ELSE 0) /\ (should <=> could /\ h[m] # 0)
    BY <1>4, <1>5, <1>6
  <2>2. t[m].hasSep = should
    BY <1>1
  <2> HIDE DEF n, could, should
  <2>3. should <=> could /\ n # 0
    BY <2>1
  <2>4. Separator(t[m]) = IF could /\ n # 0 THEN 1 ELSE 0
    BY <2>2, <2>3 DEF Separator
  <2> QED BY <2>4 DEF n, could
<1>8. ASSUME NEW m \in D, \A k \in D : Height[k] < Height[m] => k \in P PROVE m \in P
  <2>1. \A k \in D : Height[k] < Height[m] => f[k] = h[k]
    BY <1>8
  <2> DEFINE n == MeasureItems(secs[m].items, h)
  <2>2. MeasureItems(secs[m].items, f) = n
    BY <2>1, MeasureBelow
  <2>3. f[m] = Separator(t[m]) + n
    BY <1>1, <1>3, <2>2
  <2>4. n \in Nat /\ h[m] = n + Separator(t[m]) /\ Separator(t[m]) \in {0, 1}
    BY <1>4, <1>6, <1>7
  <2> HIDE DEF n
  <2>5. f[m] = h[m]
    BY <2>3, <2>4
  <2> QED BY <2>5
<1>9. \A m \in D : m \in P
  <2>1. HeightOf(secs) \in [D -> Nat] /\ \A m \in D : HeightOf(secs)[m] = Height[m]
    BY HeightTyped DEF HeightOf
  <2> HIDE DEF P
  <2> QED BY <1>8, <2>1, RankInduction
<1>10. f = h
  BY <1>3, <1>4, <1>9
<1>11. ASSUME NEW m \in D PROVE CouldHaveSeparator(mu, t, m) <=> CouldHaveSeparator(mu, secs, m)
  BY <1>1 DEF CouldHaveSeparator
<1>12. ASSUME NEW m \in D
       PROVE  t[m].hasSep <=> CouldHaveSeparator(mu, t, m) /\ MeasureItems(t[m].items, f) # 0
  <2> DEFINE n == MeasureItems(secs[m].items, h)
             could == CouldHaveSeparator(mu, secs, m)
  <2>1. Separator(t[m]) = IF could /\ n # 0 THEN 1 ELSE 0
    BY <1>7
  <2>2. t[m].hasSep \in BOOLEAN
    BY <1>1 DEF Section
  <2> HIDE DEF n, could
  <2>3. t[m].hasSep <=> could /\ n # 0
    BY <2>1, <2>2 DEF Separator
  <2>4. MeasureItems(t[m].items, f) = n
    BY <1>1, <1>10 DEF n
  <2> QED BY <1>11, <2>3, <2>4 DEF could
<1>13. SeparatorsDue(mu, t)
  BY <1>1, <1>12 DEF SeparatorsDue, f
<1> QED BY <1>10, <1>11, <1>13 DEF f, h

\* A tree that is synced is a tree.
LEMMA SyncedTree ==
  ASSUME NEW mu, NEW secs, MenuOK(mu), Tree(mu, secs)
  PROVE  /\ Tree(mu, SectionsSynced(mu, secs)) /\ SeparatorsDue(mu, SectionsSynced(mu, secs))
         /\ Measure(SectionsSynced(mu, secs)) = SyncedMeasure(mu, secs)
<1>1. Nested(secs)
  BY TreeNested
<1>2. IsSynced(mu, secs, SectionsSynced(mu, secs))
  BY <1>1, SyncedIs
<1>3. Tree(mu, SectionsSynced(mu, secs))
  BY <1>2 DEF IsSynced, Tree
<1> QED BY <1>1, <1>2, <1>3, SyncedMeasures

\* The search from the root finds each section.
LEMMA Found ==
  ASSUME NEW mu, NEW secs, MenuOK(mu), Tree(mu, secs), NEW m \in DOMAIN secs
  PROVE  FindModel(secs, m)[Root] \in Nat
<1> DEFINE f == FindModel(secs, m)
           D == DOMAIN secs
           S == {s \in D : f[s] = NotFound}
<1>0. Nested(secs) /\ TreeShape(mu, secs)
  BY TreeNested, TreeHasShape
<1>1. f \in [D -> Nat \cup {NotFound}]
  BY <1>0, FindSolved DEF IsFind
<1>2. \A s \in D : f[s] =
        IF s = m THEN Separator(secs[s])
        ELSE IF Hits(secs[s].items, f) = {} THEN NotFound
        ELSE Separator(secs[s]) + Before(secs, s, FirstHit(secs[s].items, f)) + f[secs[s].items[FirstHit(secs[s].items, f)]]
  BY <1>0, FindSolved DEF IsFind
<1> HIDE DEF f
<1>3. ASSUME NEW s \in D, s = m \/ Hits(secs[s].items, f) # {} PROVE f[s] \in Nat
  <2> DEFINE items == secs[s].items
             i == FirstHit(items, f)
             q == Separator(secs[s])
             r == Before(secs, s, i)
             n == f[items[i]]
  <2>1. items \in Seq(ListItems(secs)) /\ q \in {0, 1}
    BY <1>0, ItemsTyped
  <2>2. CASE s = m
    BY <1>2, <2>1, <2>2
  <2>3. CASE s # m
    <3>1. i \in Hits(items, f)
      BY <1>3, <2>1, <2>3, FirstHitLeast
    <3>2. i \in DOMAIN items /\ items[i] # NoLink /\ n # NotFound
      BY <3>1 DEF Hits
    <3>3. r \in Nat
      BY <1>0, <3>2, BeforeTyped
    <3>4. items[i] \in D
      BY <1>0, <3>2 DEF Nested, NestedItems
    <3>5. n \in Nat
      BY <1>1, <3>2, <3>4
    <3>6. f[s] = q + r + n
      BY <1>2, <1>3, <2>3
    <3> HIDE DEF q, r, n
    <3> QED BY <2>1, <3>3, <3>5, <3>6
  <2> QED BY <2>2, <2>3
<1>4. ASSUME NEW s \in S PROVE LinksIn(mu[s]) \subseteq S
  <2>1. Hits(secs[s].items, f) = {}
    BY <1>3 DEF NotFound
  <2>2. SectionsIn(secs[s].items) = LinksIn(mu[s]) /\ LinksIn(mu[s]) \subseteq D
    BY <1>0 DEF TreeShape
  <2>3. \A k \in SectionsIn(secs[s].items) : f[k] = NotFound
    BY <2>1 DEF Hits, SectionsIn, ToSet
  <2> QED BY <2>2, <2>3
<1>5. m \notin S /\ m \in D
  BY <1>3 DEF NotFound
<1>6. Root \in S => S = D
  BY <1>0, <1>4 DEF TreeShape
<1>7. Root \in D
  BY <1>0 DEF TreeShape
<1> QED BY <1>1, <1>5, <1>6, <1>7 DEF f

-----------------------------------------------------------------------------
(* The sections mirror the menu.                                           *)

\* The sections of a new tracker are a tree.
LEMMA StartTree ==
  ASSUME NEW mu, MenuOK(mu)
  PROVE  /\ Tree(mu, SectionsNew(mu, <<>>, {Root}))
         /\ \A k \in DOMAIN SectionsNew(mu, <<>>, {Root}) : SectionsNew(mu, <<>>, {Root})[k].hasSep = FALSE
<1> DEFINE none == <<>>
           N == Below(Links(mu), {Root})
           new == SectionsNew(mu, none, {Root})
<1>1. DOMAIN none = {}
  OBVIOUS
<1> HIDE DEF none
<1>2. LinksOK(mu) /\ Root \in Models
  BY MenuLinks, LinkAssumption
<1>3. DOMAIN Links(mu) = Models /\ Whole(Links(mu)) /\ \A p \in Models : SectionsIn(Links(mu)[p]) = LinksIn(mu[p])
  BY <1>2 DEF LinksOK
<1>4. N \subseteq Models
  BY <1>2, <1>3, BelowHas
<1>5. ASSUME NEW k \in N \ {Root} PROVE \E p \in N : k \in LinksIn(mu[p])
  <2> DEFINE links == Links(mu)
             ms == {Root}
  <2>1. /\ DOMAIN links = Models /\ Whole(links) /\ ms \subseteq DOMAIN links /\ k \in Below(links, ms) /\ k \notin ms
        /\ \A p \in Models : SectionsIn(links[p]) = LinksIn(mu[p])
    BY <1>2, <1>3
  <2> HIDE DEF links, ms
  <2>2. \E p \in Below(links, ms) : k \in SectionsIn(links[p])
    BY <2>1, BelowParent
  <2>3. N = Below(links, ms)
    BY DEF links, ms
  <2> QED BY <1>4, <2>1, <2>2, <2>3
<1>6. Supported(mu, none, N)
  BY <1>1, <1>4, <1>5 DEF Supported
<1>7. HasNew(mu, none, N, new)
  BY <1>6, SectionsNewIs
<1> HIDE DEF new, N
<1>8. /\ DOMAIN new = N /\ new = [k \in N |-> new[k]]
      /\ \A k \in N : new[k] \in Section /\ new[k].items = Items(mu[k]) /\ new[k].hasSep = FALSE
  BY <1>1, <1>7, Zenon DEF HasNew
<1>9. new \in [N -> Section]
  BY <1>8
<1>10. Tree(mu, new)
  BY <1>8, <1>9 DEF Tree, N
<1> QED BY <1>8, <1>10 DEF new, none

\* A change of a model that Root does not lead to is none of the tracker's.
LEMMA OutsideTree ==
  ASSUME NEW mu, NEW nu, NEW secs, NEW m, NEW pos, NEW removed, NEW es,
         MenuOK(mu), MenuOK(nu), Tree(mu, secs), SeparatorsDue(mu, secs), m \notin DOMAIN secs,
         Change(mu, nu, m, pos, removed, es)
  PROVE  Tree(nu, secs) /\ SeparatorsDue(nu, secs)
<1> DEFINE D == DOMAIN secs
           B == Below(Links(nu), {Root})
<1>1. TreeShape(mu, secs) /\ LinksOK(nu)
  BY TreeHasShape, MenuLinks
<1>2. Root \in D /\ D \subseteq Models /\ \A p \in D : LinksIn(mu[p]) \subseteq D
  BY <1>1 DEF TreeShape
<1>3. \A k \in D : nu[k] = mu[k]
  BY <1>2 DEF Change, MenuOK
<1>4. /\ DOMAIN Links(nu) = Models /\ Whole(Links(nu))
      /\ \A p \in Models : SectionsIn(Links(nu)[p]) = LinksIn(nu[p])
  BY <1>1 DEF LinksOK
<1>5. B \subseteq D
  <2>1. ClosedUnder(Links(nu), D)
    BY <1>2, <1>3, <1>4 DEF ClosedUnder
  <2> QED BY <1>2, <1>4, <2>1, BelowLeast
<1>6. Root \in B /\ ClosedUnder(Links(nu), B)
  BY <1>2, <1>4, BelowHas
<1> HIDE DEF B
<1>7. \A j \in B : LinksIn(mu[j]) \subseteq B
  BY <1>2, <1>3, <1>4, <1>5, <1>6 DEF ClosedUnder
<1>8. B = D
  BY <1>1, <1>5, <1>6, <1>7 DEF TreeShape
<1>9. Tree(nu, secs)
  BY <1>3, <1>8 DEF Tree, B
<1>10. \A k \in D : CouldHaveSeparator(nu, secs, k) <=> CouldHaveSeparator(mu, secs, k)
  BY <1>3 DEF CouldHaveSeparator
<1>11. SeparatorsDue(nu, secs)
  BY <1>10 DEF SeparatorsDue
<1> QED BY <1>9, <1>11

\* A step of the peer is a change.
LEMMA StepChanges ==
  ASSUME MenuOK(menu), NEW m \in Models, NEW pos \in 0..Len(menu[m]), NEW removed \in 0..MaxRemoved,
         NEW es \in Batches[m] \cup {<<>>}, ItemsChanged(m, pos, removed, es)
  PROVE  Change(menu, menu', m, pos, removed, es) /\ MenuOK(menu')
<1>1. m \in Models /\ pos \in Nat /\ removed \in Nat /\ pos + removed <= Len(menu[m])
  <2>1. menu[m] \in Seq(Entries)
    BY DEF MenuOK
  <2>2. Len(menu[m]) \in Nat
    BY <2>1
  <2> QED BY <2>2, MenuAssumption DEF ItemsChanged
<1>2. WellNested(m, es)
  <2>1. CASE es \in Batches[m]
    BY <2>1, MenuAssumption
  <2>2. CASE es = <<>>
    BY <2>2 DEF WellNested
  <2> QED BY <2>1, <2>2
<1>3. \A k \in Models : ToSet(es) \cap ToSet(menu[k]) = {}
  BY DEF ItemsChanged, InUse
<1>4. menu' = [menu EXCEPT ![m] = Splice(menu[m], pos, removed, es)]
  BY DEF ItemsChanged
<1>5. Change(menu, menu', m, pos, removed, es)
  BY <1>1, <1>2, <1>3, <1>4 DEF Change
<1> QED BY <1>5, ChangeMenuOK

\* The first menu.
LEMMA InitialMenuOK == MenuOK(InitialMenu)
<1>1. \A m \in Models : InitialMenu[m] \in Seq(Entries)
  BY MenuAssumption DEF WellNested
<1>2. InitialMenu \in [Models -> Seq(Entries)]
  <2> DEFINE M == InitialMenu
  <2>1. M = [m \in Models |-> M[m]]
    BY MenuAssumption
  <2> HIDE DEF M
  <2>2. \A m \in Models : M[m] \in Seq(Entries)
    BY <1>1 DEF M
  <2>3. M \in [Models -> Seq(Entries)]
    BY <2>1, <2>2
  <2> QED BY <2>3 DEF M
<1> QED BY <1>2, MenuAssumption DEF MenuOK

\* The inductive invariant: the tracker has the tree that the exported menu has.
Mirrors == MenuOK(menu) /\ Tree(menu, sections) /\ SeparatorsDue(menu, sections) /\ fault = FALSE

\* The first sections mirror the first menu.
LEMMA MirrorsInit == Init => Mirrors
<1> SUFFICES ASSUME Init PROVE Mirrors
  OBVIOUS
<1> DEFINE new == SectionsNew(menu, <<>>, {Root})
<1>1. MenuOK(menu)
  BY InitialMenuOK DEF Init
<1>2. Tree(menu, new)
  BY <1>1, StartTree
<1>3. sections = SectionsSynced(menu, new)
  BY DEF Init, TrackerNew, SyncSeparators
<1> HIDE DEF new
<1>4. Tree(menu, sections) /\ SeparatorsDue(menu, sections)
  BY <1>1, <1>2, <1>3, SyncedTree
<1> QED BY <1>1, <1>4 DEF Mirrors, Init

\* What a change makes of the sections, before they are synced.
SectionsChanged(nu, secs, m, pos, removed, es) ==
  SectionsNew(nu, SectionsKept(secs, m, pos, removed, es), SectionsIn(Items(es)))

\* The sections after the removals and additions are the tree of the changed
\* menu.
LEMMA ChangedTree ==
  ASSUME NEW mu, NEW nu, NEW secs, NEW m, NEW pos, NEW removed, NEW es,
         MenuOK(mu), MenuOK(nu), Tree(mu, secs), m \in DOMAIN secs, Change(mu, nu, m, pos, removed, es)
  PROVE  Tree(nu, SectionsChanged(nu, secs, m, pos, removed, es))
<1>1. PICK a, g, b : Changed(mu, nu, m, pos, removed, es, a, g, b)
  BY ChangeParts
<1> DEFINE F == FreedBelow(secs, Items(g))
           K == DOMAIN secs \ F
           N == NewBelow(nu, es)
<1>2. Graft(mu, nu, secs, m, a, g, b, es, F, K, N)
  BY <1>1, Grafted
<1> HIDE DEF F, K, N
<1> QED BY <1>1, <1>2, RegrownTree DEF SectionsChanged, F, N

\* The handler finds its section.
LEMMA FoundToChange ==
  ASSUME NEW mu, NEW secs, NEW m, NEW pos, NEW removed, MenuOK(mu), Tree(mu, secs), m \in DOMAIN secs,
         pos + removed <= Len(mu[m])
  PROVE  CanChange(secs, m, pos, removed)
<1>1. FindModel(secs, m)[Root] \in Nat
  BY Found
<1>2. mu[m] \in Seq(Entries)
  BY TreeEntries
<1>3. Len(secs[m].items) = Len(mu[m])
  BY <1>2, ItemsShape DEF Tree
<1> QED BY <1>1, <1>3 DEF CanChange, NotFound

\* Every step keeps the sections to the menu.
LEMMA MirrorsNext == Mirrors /\ [Next]_vars => Mirrors'
<1> SUFFICES ASSUME Mirrors, [Next]_vars PROVE Mirrors'
  OBVIOUS
<1>1. MenuOK(menu) /\ Tree(menu, sections) /\ SeparatorsDue(menu, sections) /\ fault = FALSE
  BY DEF Mirrors
<1>2. CASE UNCHANGED vars
  BY <1>1, <1>2 DEF Mirrors, vars
<1>3. CASE Next
  <2>1. PICK m \in Models : \E pos \in 0..Len(menu[m]), removed \in 0..MaxRemoved, es \in Batches[m] \cup {<<>>} :
          ItemsChanged(m, pos, removed, es)
    BY <1>3 DEF Next
  <2>2. PICK pos \in 0..Len(menu[m]), removed \in 0..MaxRemoved, es \in Batches[m] \cup {<<>>} :
          ItemsChanged(m, pos, removed, es)
    BY <2>1
  <2>3. Change(menu, menu', m, pos, removed, es) /\ MenuOK(menu')
    BY <1>1, <2>2, StepChanges
  <2>4. CASE m \notin DOMAIN sections
    <3>1. UNCHANGED <<sections, fault>>
      BY <2>2, <2>4 DEF ItemsChanged, Connected
    <3>2. Tree(menu', sections) /\ SeparatorsDue(menu', sections)
      BY <1>1, <2>3, <2>4, OutsideTree
    <3> QED BY <1>1, <2>3, <3>1, <3>2 DEF Mirrors
  <2>5. CASE m \in DOMAIN sections
    <3>1. CanChange(sections, m, pos, removed)
      BY <1>1, <2>3, <2>5, FoundToChange DEF Change
    <3> DEFINE new == SectionsChanged(menu', sections, m, pos, removed, es)
    <3>2. Tree(menu', new)
      BY <1>1, <2>3, <2>5, ChangedTree
    <3>3. sections' = SectionsSynced(menu', new) /\ UNCHANGED fault
      BY <2>2, <2>5, <3>1 DEF ItemsChanged, Connected, ModelChanged, AddItems, SyncSeparators, SectionsChanged
    <3> HIDE DEF new
    <3>4. Tree(menu', sections') /\ SeparatorsDue(menu', sections')
      BY <2>3, <3>2, <3>3, SyncedTree
    <3> QED BY <1>1, <2>3, <3>3, <3>4 DEF Mirrors
  <2> QED BY <2>4, <2>5
<1> QED BY <1>2, <1>3

\* The sections always mirror the menu, and the handler has not failed.
LEMMA MirrorsAlways == Spec => []Mirrors
<1> QED BY MirrorsInit, MirrorsNext, PTL DEF Spec

\* gtk_menu_tracker_model_changed finds the section of the model that changed,
\* whatever has been freed before, and never counts past the end of its list.
THEOREM HandlerFindsItsSection == Spec => []NoNullItem
<1>1. Mirrors => NoNullItem
  BY DEF Mirrors, NoNullItem
<1> QED BY <1>1, MirrorsAlways, PTL

\* There is a section, with its items and the separator it is due, for exactly the
\* models that Root leads to, after any batch.
THEOREM SectionsMirrorMenu == Spec => []TreeMirrorsMenu
<1>1. Mirrors => TreeMirrorsMenu
  BY DEF Mirrors, Tree, SeparatorsDue, TreeMirrorsMenu
<1> QED BY <1>1, MirrorsAlways, PTL

-----------------------------------------------------------------------------
(* The calls of a sync.                                                    *)

\* A call with each list item gives rows.
Acts(items, g) ==
  \A i \in DOMAIN items : items[i] # NoLink =>
    \A offset \in Nat, rs \in Seq(RowsOf) : g[Call(items[i], offset, rs)] \in Seq(RowsOf)

\* Where the rows of each list item are when those before it measure as they should.
Due(items, measure, offset, i) == offset + MeasureItems(SubSeq(items, 1, i - 1), measure)

\* The rows after each call.
IsInside(items, measure, g, offset, rs, t) ==
  /\ t \in [0..Len(items) -> Seq(RowsOf)] /\ t[0] = rs
  /\ \A i \in 1..Len(items) :
       t[i] = IF items[i] = NoLink THEN t[i - 1] ELSE g[Call(items[i], Due(items, measure, offset, i), t[i - 1])]

\* The items before one of a sequence have a measure.
LEMMA DueTyped ==
  ASSUME NEW T, NEW items \in Seq(T), NEW measure, Measures(T, measure), NEW offset \in Nat
  PROVE  \A i \in 1..Len(items) : Due(items, measure, offset, i) \in Nat
<1> SUFFICES ASSUME NEW i \in 1..Len(items) PROVE Due(items, measure, offset, i) \in Nat
  OBVIOUS
<1>1. SubSeq(items, 1, i - 1) \in Seq(T)
  OBVIOUS
<1>2. MeasureItems(SubSeq(items, 1, i - 1), measure) \in Nat
  BY <1>1, MeasureConcat
<1> QED BY <1>2 DEF Due

\* What is inside a section, by its defining equation.
LEMMA InsideSolved ==
  ASSUME NEW T, NEW items \in Seq(T), NEW measure, Measures(T, measure), NEW g, Acts(items, g),
         NEW offset \in Nat, NEW rs \in Seq(RowsOf)
  PROVE  \E t : IsInside(items, measure, g, offset, rs, t)
                /\ SyncedInside(items, measure, g, offset, rs) = t[Len(items)]
<1> DEFINE S == 0..Len(items)
           V == Seq(RowsOf)
           rank == [k \in S |-> k]
           E(k, h) == IF k = 0 THEN rs ELSE IF items[k] = NoLink THEN h[k - 1]
                      ELSE g[Call(items[k], Due(items, measure, offset, k), h[k - 1])]
           D == [p \in S \X [S -> V] |-> E(p[1], p[2])]
           Eq(t) == t = [i \in 0..Len(items) |-> IF i = 0 THEN rs ELSE IF items[i] = NoLink THEN t[i - 1]
                      ELSE g[Call(items[i], offset + MeasureItems(SubSeq(items, 1, i - 1), measure), t[i - 1])]]
<1>1. rank \in [S -> Nat] /\ rs \in V /\ Len(items) \in Nat /\ DOMAIN items = 1..Len(items)
  OBVIOUS
<1>2. \A k \in S, h \in [S -> V] : D[<<k, h>>] = E(k, h)
  OBVIOUS
<1>3. ASSUME NEW k \in 1..Len(items), NEW h, h[k - 1] \in V PROVE E(k, h) \in V
  <2>1. Due(items, measure, offset, k) \in Nat
    BY DueTyped
  <2> HIDE DEF V
  <2>2. CASE items[k] = NoLink
    BY <1>3, <2>2
  <2>3. CASE items[k] # NoLink
    <3>1. g[Call(items[k], Due(items, measure, offset, k), h[k - 1])] \in V
      BY <1>1, <1>3, <2>1, <2>3 DEF Acts, V
    <3> QED BY <2>3, <3>1
  <2> QED BY <2>2, <2>3
<1>4. D \in [S \X [S -> V] -> V]
  <2>1. \A k \in S, h \in [S -> V] : E(k, h) \in V
    <3> SUFFICES ASSUME NEW k \in S, NEW h \in [S -> V] PROVE E(k, h) \in V
      OBVIOUS
    <3>1. CASE k = 0
      BY <1>1, <3>1
    <3>2. CASE k # 0
      <4>1. k \in 1..Len(items) /\ k - 1 \in S
        BY <1>1, <3>2
      <4>2. h[k - 1] \in V
        BY <4>1
      <4> HIDE DEF E, V, S
      <4> QED BY <1>3, <4>1, <4>2
    <3> QED BY <3>1, <3>2
  <2> HIDE DEF E
  <2> QED BY <2>1
<1>5. ASSUME NEW k \in S, NEW h \in [S -> V], NEW f \in [S -> V], \A j \in S : rank[j] < rank[k] => h[j] = f[j]
      PROVE  D[<<k, h>>] = D[<<k, f>>]
  <2>1. k # 0 => k - 1 \in S /\ rank[k - 1] < rank[k]
    BY <1>1
  <2>2. E(k, h) = E(k, f)
    <3> HIDE DEF rank, S
    <3>1. CASE k = 0
      BY <3>1
    <3>2. CASE k # 0
      <4>1. h[k - 1] = f[k - 1]
        BY <1>5, <2>1, <3>2
      <4> QED BY <3>2, <4>1
    <3> QED BY <3>1, <3>2
  <2> HIDE DEF E, D
  <2> QED BY <1>2, <2>2
<1>6. Recursive(S, V, rank, D)
  <2> HIDE DEF rank, D, S, V, E
  <2> QED BY <1>1, <1>4, <1>5 DEF Recursive
<1> HIDE DEF rank, D, S, V
<1>7. PICK f : Solves(f, S, V, D)
  BY <1>6, Recursion
<1>8. Eq(f)
  <2>1. f \in [S -> V] /\ \A k \in S : f[k] = E(k, f)
    <3> HIDE DEF E
    <3> QED BY <1>2, <1>7 DEF Solves
  <2> QED BY <2>1 DEF S, Due
<1> DEFINE t == CHOOSE t : Eq(t)
<1>9. Eq(t)
  <2> HIDE DEF Eq
  <2> QED BY <1>8
<1>10. SyncedInside(items, measure, g, offset, rs) = t[Len(items)]
  BY DEF SyncedInside
<1> HIDE DEF t
<1>11. t[0] = rs /\ \A k \in 1..Len(items) : t[k] = E(k, t)
  <2>1. \A k \in 0..Len(items) : t[k] = E(k, t)
    BY <1>9 DEF Due
  <2>2. 0 \in 0..Len(items) /\ \A k \in 1..Len(items) : k \in 0..Len(items)
    BY <1>1
  <2> QED BY <2>1, <2>2
<1>12. \A k \in S : t[k] \in V
  <2> DEFINE P == {k \in S : t[k] \in V}
  <2>1. 0 \in P
    BY <1>1, <1>11 DEF S
  <2>2. ASSUME NEW k \in 0..(Len(items) - 1), k \in P PROVE k + 1 \in P
    <3>1. k + 1 \in 1..Len(items) /\ (k + 1) - 1 = k /\ k + 1 \in S
      BY <1>1 DEF S
    <3>2. t[k + 1] = E(k + 1, t) /\ t[k] \in V
      BY <1>11, <2>2, <3>1
    <3> HIDE DEF E
    <3> QED BY <1>3, <3>1, <3>2
  <2> HIDE DEF P
  <2>3. \A k \in 0..Len(items) : k \in P
    BY <1>1, <2>1, <2>2, UpTo
  <2> QED BY <2>3 DEF P, S
<1>13. t \in [0..Len(items) -> Seq(RowsOf)]
  <2>1. t = [k \in 0..Len(items) |-> t[k]]
    BY <1>9
  <2> QED BY <1>12, <2>1 DEF S, V
<1>14. IsInside(items, measure, g, offset, rs, t)
  <2>1. \A k \in 1..Len(items) : k # 0
    BY <1>1
  <2> QED BY <1>11, <1>13, <2>1 DEF IsInside
<1> QED BY <1>10, <1>14

\* Two functions that act alike on the list items make the same of what is inside.
LEMMA InsideSame ==
  ASSUME NEW T, NEW items \in Seq(T), NEW measure, Measures(T, measure), NEW g, NEW h, Acts(items, g),
         NEW offset \in Nat, NEW rs \in Seq(RowsOf),
         \A i \in DOMAIN items : items[i] # NoLink =>
           \A o \in Nat, r \in Seq(RowsOf) : g[Call(items[i], o, r)] = h[Call(items[i], o, r)]
  PROVE  SyncedInside(items, measure, g, offset, rs) = SyncedInside(items, measure, h, offset, rs)
<1>1. Acts(items, h)
  BY DEF Acts
<1>2. PICK t : IsInside(items, measure, g, offset, rs, t)
               /\ SyncedInside(items, measure, g, offset, rs) = t[Len(items)]
  BY InsideSolved
<1>3. PICK u : IsInside(items, measure, h, offset, rs, u)
               /\ SyncedInside(items, measure, h, offset, rs) = u[Len(items)]
  BY <1>1, InsideSolved
<1> DEFINE P == {i \in 0..Len(items) : t[i] = u[i]}
<1>4. Len(items) \in Nat /\ DOMAIN items = 1..Len(items)
  OBVIOUS
<1>5. 0 \in P
  BY <1>2, <1>3, <1>4 DEF IsInside
<1>6. ASSUME NEW k \in 0..(Len(items) - 1), k \in P PROVE k + 1 \in P
  <2> DEFINE i == k + 1
             o == Due(items, measure, offset, i)
  <2>1. i \in 1..Len(items) /\ i - 1 = k /\ k \in 0..Len(items) /\ i \in 0..Len(items)
    BY <1>4
  <2>2. o \in Nat
    BY <2>1, DueTyped
  <2>3. t[k] \in Seq(RowsOf) /\ u[k] = t[k]
    BY <1>2, <1>6, <2>1 DEF IsInside
  <2>4. /\ t[i] = IF items[i] = NoLink THEN t[k] ELSE g[Call(items[i], o, t[k])]
        /\ u[i] = IF items[i] = NoLink THEN u[k] ELSE h[Call(items[i], o, u[k])]
    BY <1>2, <1>3, <2>1 DEF IsInside
  <2> HIDE DEF i, o
  <2>5. t[i] = u[i]
    BY <1>4, <2>1, <2>2, <2>3, <2>4
  <2> QED BY <2>1, <2>5 DEF i
<1> HIDE DEF P
<1>7. \A k \in 0..Len(items) : k \in P
  BY <1>4, <1>5, <1>6, UpTo
<1> QED BY <1>2, <1>3, <1>4, <1>7 DEF P

\* The parts of a call.
LEMMA CallParts ==
  ASSUME NEW secs, NEW c \in Calls(secs)
  PROVE  c.section \in DOMAIN secs /\ c.offset \in Nat /\ c.rows \in Seq(RowsOf)
<1> DEFINE D == DOMAIN secs
           V == Seq(RowsOf)
<1>1. c \in [section : D, offset : Nat, rows : V]
  BY DEF Calls
<1> HIDE DEF D, V
<1>2. c.section \in D /\ c.offset \in Nat /\ c.rows \in V
  BY <1>1
<1> QED BY <1>2 DEF D, V

\* A call has the parts it is made of.
LEMMA CallIs ==
  ASSUME NEW secs, NEW m \in DOMAIN secs, NEW o \in Nat, NEW r \in Seq(RowsOf)
  PROVE  /\ Call(m, o, r) \in Calls(secs) /\ Call(m, o, r).section = m
         /\ Call(m, o, r).offset = o /\ Call(m, o, r).rows = r
<1> DEFINE D == DOMAIN secs
           V == Seq(RowsOf)
<1>0. m \in D /\ r \in V
  OBVIOUS
<1> HIDE DEF D, V
<1>1. /\ [section |-> m, offset |-> o, rows |-> r] \in [section : D, offset : Nat, rows : V]
      /\ [section |-> m, offset |-> o, rows |-> r].section = m
      /\ [section |-> m, offset |-> o, rows |-> r].offset = o
      /\ [section |-> m, offset |-> o, rows |-> r].rows = r
  BY <1>0
<1> QED BY <1>1, Zenon DEF D, V, Calls, Call

CallsIn(secs) ==
  \A k \in DOMAIN secs, o \in Nat, r \in Seq(RowsOf) : Call(k, o, r) \in Calls(secs) /\ Call(k, o, r).section = k

\* All calls have their parts.
LEMMA CallsAre == ASSUME NEW secs PROVE CallsIn(secs)
BY CallIs DEF CallsIn

\* A separator that is due has the entry of its section.
LEMMA CouldEntry ==
  ASSUME NEW mu, NEW secs, MenuOK(mu), Tree(mu, secs), NEW m \in DOMAIN secs, CouldHaveSeparator(mu, secs, m)
  PROVE  LinkOf(m) \in Entries /\ m # Root
<1>1. PICK p \in DOMAIN secs : \E i \in DOMAIN secs[p].items : secs[p].items[i] = m
  BY DEF CouldHaveSeparator
<1>2. PICK i \in DOMAIN secs[p].items : secs[p].items[i] = m
  BY <1>1
<1>3. m \in Models /\ mu[p] \in Seq(Entries)
  BY TreeEntries
<1>4. secs[p].items = Items(mu[p])
  BY DEF Tree
<1>5. i \in DOMAIN mu[p] /\ SectionOf[mu[p][i]] = m
  BY <1>2, <1>3, <1>4, ItemsShape
<1>6. mu[p][i] \in Entries
  BY <1>3, <1>5
<1>7. m # NoLink
  BY <1>3, LinkAssumption
<1> QED BY <1>5, <1>6, <1>7, LinkOfSection

SeparatorOf(m) == <<Row(LinkOf(m), <<>>, TRUE)>>

\* A separator is one row.
LEMMA SeparatorTyped ==
  ASSUME NEW m, LinkOf(m) \in Entries
  PROVE  SeparatorOf(m) \in Seq(RowsOf) /\ Len(SeparatorOf(m)) = 1
<1> DEFINE e == LinkOf(m)
           W == Namespaces
<1>1. e \in Entries /\ <<>> \in W
  BY DEF Namespaces
<1> HIDE DEF e, W
<1>2. [entry |-> e, ns |-> <<>>, separator |-> TRUE] \in [entry : Entries, ns : W, separator : BOOLEAN]
  BY <1>1
<1>3. Row(e, <<>>, TRUE) \in RowsOf
  BY <1>2 DEF Row, RowsOf, W
<1> DEFINE row == Row(LinkOf(m), <<>>, TRUE)
<1>4. row \in RowsOf
  BY <1>3 DEF e
<1> HIDE DEF row
<1>5. <<row>> \in Seq(RowsOf) /\ Len(<<row>>) = 1
  BY <1>4
<1> QED BY <1>5 DEF SeparatorOf, row

\* Showing or hiding a separator leaves a list of rows.
LEMMA ShownTyped ==
  ASSUME NEW mu, NEW secs, MenuOK(mu), Tree(mu, secs), NEW m \in DOMAIN secs,
         NEW offset \in Nat, NEW rs \in Seq(RowsOf)
  PROVE  ShowSeparator(mu, secs, m, offset, rs) \in Seq(RowsOf)
<1> DEFINE should == ShouldHaveSeparator(mu, secs, m)
           r == ShowSeparator(mu, secs, m, offset, rs)
<1>1. r = (CASE should /\ ~secs[m].hasSep -> AddRows(rs, offset, SeparatorOf(m))
             [] ~should /\ secs[m].hasSep -> RemoveRows(rs, offset, 1)
             [] OTHER -> rs)
  BY Zenon DEF ShowSeparator, SeparatorOf
<1>2. should => SeparatorOf(m) \in Seq(RowsOf)
  BY CouldEntry, SeparatorTyped DEF ShouldHaveSeparator
<1>3. should => AddRows(rs, offset, SeparatorOf(m)) \in Seq(RowsOf)
  BY <1>2, AddRowsTyped
<1>4. RemoveRows(rs, offset, 1) \in Seq(RowsOf)
  BY RemoveRowsTyped
<1>5. secs[m].hasSep \in BOOLEAN
  BY DEF Tree, Section
<1> HIDE DEF should, r
<1> QED BY <1>1, <1>3, <1>4, <1>5 DEF r

IsSyncedRows(mu, secs, f) ==
  /\ f \in [Calls(secs) -> Seq(RowsOf)]
  /\ \A c \in Calls(secs) : f[c] =
       ShowSeparator(mu, secs, c.section, c.offset,
         SyncedInside(secs[c.section].items, SyncedMeasure(mu, secs), f, c.offset, c.rows))

\* The list items of a section and what they measure.
LEMMA SectionMeasured ==
  ASSUME NEW mu, NEW secs, MenuOK(mu), Tree(mu, secs), NEW m \in DOMAIN secs
  PROVE  /\ secs[m].items \in Seq(ListItems(secs)) /\ Measures(ListItems(secs), SyncedMeasure(mu, secs))
         /\ \A i \in DOMAIN secs[m].items : secs[m].items[i] # NoLink =>
              secs[m].items[i] \in DOMAIN secs /\ Height[secs[m].items[i]] < Height[m]
<1>1. Nested(secs)
  BY TreeNested
<1>2. SyncedMeasure(mu, secs) \in [DOMAIN secs -> Nat]
  BY <1>1, SyncedMeasureSolved DEF IsSyncedMeasure
<1> QED BY <1>1, <1>2, ItemsTyped, MeasuresListItems DEF Nested, NestedItems

\* What each call does, by its defining equation.
LEMMA SyncedRowsSolved ==
  ASSUME NEW mu, NEW secs, MenuOK(mu), Tree(mu, secs)
  PROVE  IsSyncedRows(mu, secs, SyncedRows(mu, secs))
<1> DEFINE S == Calls(secs)
           V == Seq(RowsOf)
           rank == [c \in Calls(secs) |-> Height[c.section]]
           E(m, g) == ShowSeparator(mu, secs, m.section, m.offset,
             SyncedInside(secs[m.section].items, SyncedMeasure(mu, secs), g, m.offset, m.rows))
           D == [p \in S \X [S -> V] |-> E(p[1], p[2])]
           Eq(t) == t = [m \in Calls(secs) |-> ShowSeparator(mu, secs, m.section, m.offset,
             SyncedInside(secs[m.section].items, SyncedMeasure(mu, secs), t, m.offset, m.rows))]
<1>1. rank \in [S -> Nat] /\ V # {} /\ \A k \in S : rank[k] = Height[k.section]
  <2>1. <<>> \in V
    OBVIOUS
  <2>2. \A k \in S : rank[k] = Height[k.section]
    OBVIOUS
  <2>3. \A k \in S : k.section \in Models
    BY CallParts, TreeHasShape DEF TreeShape
  <2> HIDE DEF S
  <2>4. rank \in [S -> Nat]
    <3>1. \A k \in S : Height[k.section] \in Nat
      BY <2>3, LinkAssumption
    <3> QED BY <3>1 DEF S
  <2> QED BY <2>1, <2>2, <2>4
<1>2. \A m \in S, g \in [S -> V] : D[<<m, g>>] = E(m, g)
  OBVIOUS
<1>3. ASSUME NEW m \in S, NEW g, \A k \in S : Height[k.section] < Height[m.section] => g[k] \in V
      PROVE  E(m, g) \in V
  <2>1. m.section \in DOMAIN secs /\ m.offset \in Nat /\ m.rows \in Seq(RowsOf)
    BY CallParts
  <2> DEFINE items == secs[m.section].items
             T == ListItems(secs)
             measure == SyncedMeasure(mu, secs)
  <2>2. /\ items \in Seq(T) /\ Measures(T, measure)
        /\ \A i \in DOMAIN items : items[i] # NoLink => items[i] \in DOMAIN secs /\ Height[items[i]] < Height[m.section]
    BY <2>1, SectionMeasured
  <2> HIDE DEF items, T, measure
  <2>22. \A k \in DOMAIN secs, o \in Nat, r \in Seq(RowsOf) : Call(k, o, r) \in S /\ Call(k, o, r).section = k
    <3>1. CallsIn(secs)
      BY CallsAre, Zenon
    <3> QED BY <3>1, Zenon DEF CallsIn
  <2> HIDE DEF S
  <2>3. \A i \in DOMAIN items : items[i] # NoLink =>
          \A o \in Nat, r \in Seq(RowsOf) :
            Call(items[i], o, r) \in S /\ Height[Call(items[i], o, r).section] < Height[m.section]
    BY <2>2, <2>22
  <2>4. Acts(items, g)
    BY <1>3, <2>3 DEF Acts
  <2> DEFINE r == SyncedInside(items, measure, g, m.offset, m.rows)
  <2>5. r \in Seq(RowsOf)
    <3>1. PICK t : IsInside(items, measure, g, m.offset, m.rows, t) /\ r = t[Len(items)]
      BY <2>1, <2>2, <2>4, InsideSolved
    <3>2. Len(items) \in 0..Len(items)
      BY <2>2
    <3> QED BY <3>1, <3>2 DEF IsInside
  <2> HIDE DEF r
  <2>6. ShowSeparator(mu, secs, m.section, m.offset, r) \in Seq(RowsOf)
    BY <2>1, <2>5, ShownTyped
  <2> QED BY <2>6 DEF r, items, measure
<1>4. D \in [S \X [S -> V] -> V]
  <2>1. \A m \in S, g \in [S -> V] : E(m, g) \in V
    <3> SUFFICES ASSUME NEW m \in S, NEW g \in [S -> V] PROVE E(m, g) \in V
      OBVIOUS
    <3> HIDE DEF E, V
    <3> QED BY <1>3
  <2> HIDE DEF E
  <2> QED BY <2>1
<1>5. ASSUME NEW m \in S, NEW g \in [S -> V], NEW h \in [S -> V], \A k \in S : rank[k] < rank[m] => g[k] = h[k]
      PROVE  E(m, g) = E(m, h)
  <2>1. m.section \in DOMAIN secs /\ m.offset \in Nat /\ m.rows \in Seq(RowsOf)
    BY CallParts
  <2> DEFINE items == secs[m.section].items
             T == ListItems(secs)
             measure == SyncedMeasure(mu, secs)
  <2>2. /\ items \in Seq(T) /\ Measures(T, measure)
        /\ \A i \in DOMAIN items : items[i] # NoLink => items[i] \in DOMAIN secs /\ Height[items[i]] < Height[m.section]
    BY <2>1, SectionMeasured
  <2> HIDE DEF items, T, measure
  <2>22. \A k \in DOMAIN secs, o \in Nat, r \in Seq(RowsOf) : Call(k, o, r) \in S /\ Call(k, o, r).section = k
    <3>1. CallsIn(secs)
      BY CallsAre, Zenon
    <3> QED BY <3>1, Zenon DEF CallsIn
  <2> HIDE DEF S
  <2>3. \A i \in DOMAIN items : items[i] # NoLink =>
          \A o \in Nat, r \in Seq(RowsOf) :
            Call(items[i], o, r) \in S /\ Height[Call(items[i], o, r).section] < Height[m.section]
    BY <2>2, <2>22
  <2>4. Acts(items, g)
    BY <2>3 DEF Acts
  <2>5. \A i \in DOMAIN items : items[i] # NoLink =>
          \A o \in Nat, r \in Seq(RowsOf) : g[Call(items[i], o, r)] = h[Call(items[i], o, r)]
    <3> SUFFICES ASSUME NEW i \in DOMAIN items, items[i] # NoLink, NEW o \in Nat, NEW r \in Seq(RowsOf)
                 PROVE  g[Call(items[i], o, r)] = h[Call(items[i], o, r)]
      OBVIOUS
    <3> DEFINE k == Call(items[i], o, r)
    <3>1. k \in S /\ Height[k.section] < Height[m.section] /\ m \in S
      BY <2>3
    <3> HIDE DEF k, rank
    <3>2. rank[k] < rank[m]
      BY <1>1, <3>1
    <3>3. g[k] = h[k]
      BY <1>5, <3>1, <3>2
    <3> QED BY <3>3 DEF k
  <2>6. SyncedInside(items, measure, g, m.offset, m.rows) = SyncedInside(items, measure, h, m.offset, m.rows)
    BY <2>1, <2>2, <2>4, <2>5, InsideSame
  <2> QED BY <2>6 DEF items, measure
<1>6. Recursive(S, V, rank, D)
  <2> HIDE DEF rank, D, S, V, E
  <2>1. ASSUME NEW m \in S, NEW g \in [S -> V], NEW h \in [S -> V], \A k \in S : rank[k] < rank[m] => g[k] = h[k]
        PROVE  D[<<m, g>>] = D[<<m, h>>]
    <3>1. E(m, g) = E(m, h)
      BY <1>5, <2>1
    <3> QED BY <1>2, <3>1
  <2> QED BY <1>1, <1>4, <2>1 DEF Recursive
<1> HIDE DEF rank, D, S, V, E
<1>7. PICK f : Solves(f, S, V, D)
  BY <1>6, Recursion
<1>8. Eq(f)
  BY <1>2, <1>7, Zenon DEF Solves, S, E
<1> DEFINE t == CHOOSE t : Eq(t)
<1>9. Eq(t)
  <2> HIDE DEF Eq
  <2> QED BY <1>8
<1>10. SyncedRows(mu, secs) = t
  BY DEF SyncedRows
<1> HIDE DEF t
<1>11. \A m \in S : t[m] = E(m, t)
  BY <1>9 DEF S, E
<1>12. \A m \in S : t[m] \in V
  <2> DEFINE P == {k \in S : t[k] \in V}
  <2>1. ASSUME NEW m \in S, \A k \in S : rank[k] < rank[m] => k \in P PROVE m \in P
    <3>1. \A k \in S : Height[k.section] < Height[m.section] => t[k] \in V
      BY <1>1, <2>1
    <3>2. E(m, t) \in V
      BY <1>3, <3>1
    <3> QED BY <1>11, <3>2
  <2> HIDE DEF P
  <2>2. \A m \in S : m \in P
    BY <1>1, <2>1, RankInduction
  <2> QED BY <2>2 DEF P
<1>13. t \in [Calls(secs) -> Seq(RowsOf)]
  <2>1. t = [m \in Calls(secs) |-> t[m]]
    BY <1>9
  <2> QED BY <1>12, <2>1 DEF S, V
<1> QED BY <1>10, <1>11, <1>13 DEF IsSyncedRows, E, S

-----------------------------------------------------------------------------
(* The rows of entries in order.                                           *)

\* The rows of entries are rows.
LEMMA ItemRowsTyped ==
  ASSUME NEW D, NEW ns, NEW flat, Flats(D, ns, flat), NEW es \in Seq(EntriesOf(D))
  PROVE  ItemRows(D, es, ns, flat) \in Seq(RowsOf)
BY PiecesTyped, JoinedTyped DEF ItemRows

\* The rows of a concatenation.
LEMMA ItemRowsConcat ==
  ASSUME NEW D, NEW ns, NEW flat, Flats(D, ns, flat), NEW s \in Seq(EntriesOf(D)), NEW t \in Seq(EntriesOf(D))
  PROVE  ItemRows(D, s \o t, ns, flat) = ItemRows(D, s, ns, flat) \o ItemRows(D, t, ns, flat)
<1> DEFINE G == RowPiece(D, ns, flat)
<1>1. G \in [EntriesOf(D) -> Seq(RowsOf)]
  BY PiecesTyped
<1> HIDE DEF G
<1>2. Joined(s \o t, G) = Joined(s, G) \o Joined(t, G)
  BY <1>1, JoinedConcat
<1> QED BY <1>2 DEF ItemRows, G

\* The rows of the entry of a section.
LEMMA ItemRowsSection ==
  ASSUME NEW D, NEW ns, NEW flat, Flats(D, ns, flat), NEW e \in EntriesOf(D), SectionOf[e] # NoLink
  PROVE  ItemRows(D, <<e>>, ns, flat) = flat[SectionOf[e]]
<1> DEFINE G == RowPiece(D, ns, flat)
<1>1. G \in [EntriesOf(D) -> Seq(RowsOf)] /\ G[e] = flat[SectionOf[e]]
  BY PiecesTyped DEF RowPiece
<1> HIDE DEF G
<1>2. Joined(<<e>>, G) = G[e]
  BY <1>1, JoinedOne
<1> QED BY <1>1, <1>2 DEF ItemRows, G

\* Only the rows of the sections that are linked matter.
LEMMA ItemRowsSame ==
  ASSUME NEW D, NEW C, NEW ns, NEW f, NEW h, NEW es \in Seq(EntriesOf(D)), es \in Seq(EntriesOf(C)),
         \A k \in LinksIn(es) : f[k] = h[k]
  PROVE  ItemRows(D, es, ns, f) = ItemRows(C, es, ns, h)
<1>0. es \in Seq(Entries)
  <2>1. EntriesOf(D) \subseteq Entries
    BY DEF EntriesOf
  <2> QED BY <2>1, SeqMonotonic
<1>1. ASSUME NEW i \in DOMAIN es PROVE RowPiece(D, ns, f)[es[i]] = RowPiece(C, ns, h)[es[i]]
  <2>1. es[i] \in EntriesOf(D) /\ es[i] \in EntriesOf(C) /\ es[i] \in ToSet(es) /\ es[i] \in Entries
    BY <1>0 DEF ToSet
  <2> DEFINE e == es[i]
  <2>2. SectionOf[e] # NoLink => f[SectionOf[e]] = h[SectionOf[e]]
    BY <1>0, <2>1, LinksInEntries
  <2>3. /\ RowPiece(D, ns, f)[e] = IF SectionOf[e] = NoLink THEN <<Row(e, ns, FALSE)>> ELSE f[SectionOf[e]]
        /\ RowPiece(C, ns, h)[e] = IF SectionOf[e] = NoLink THEN <<Row(e, ns, FALSE)>> ELSE h[SectionOf[e]]
    BY <2>1 DEF RowPiece
  <2> HIDE DEF e
  <2>4. RowPiece(D, ns, f)[e] = RowPiece(C, ns, h)[e]
    BY <2>2, <2>3
  <2> QED BY <2>4 DEF e
<1>2. Mapped(es, RowPiece(D, ns, f)) = Mapped(es, RowPiece(C, ns, h))
  BY <1>1 DEF Mapped
<1> QED BY <1>2 DEF ItemRows, Joined

\* A section's separator, if it has one.
HeadOf(secs, m) == IF secs[m].hasSep THEN SeparatorOf(m) ELSE <<>>

\* The rows of each section, as they should be with the separators there are.
IsFlat(mu, secs, f) ==
  /\ f \in [DOMAIN secs -> Seq(RowsOf)]
  /\ \A m \in DOMAIN secs : f[m] = HeadOf(secs, m) \o ItemRows(DOMAIN secs, mu[m], secs[m].ns, f)

\* A section is headed by as many rows as its separator counts.
LEMMA HeadTyped ==
  ASSUME NEW mu, NEW secs, MenuOK(mu), Tree(mu, secs), secs[Root].hasSep = FALSE, NEW m \in DOMAIN secs
  PROVE  HeadOf(secs, m) \in Seq(RowsOf) /\ Len(HeadOf(secs, m)) = Separator(secs[m])
<1>1. secs[m].hasSep \in BOOLEAN
  BY DEF Tree, Section
<1>2. CASE secs[m].hasSep = FALSE
  BY <1>2 DEF HeadOf, Separator
<1>3. CASE secs[m].hasSep = TRUE
  <2>1. TreeShape(mu, secs) /\ m # Root
    BY <1>3, TreeHasShape
  <2>2. PICK p \in DOMAIN secs : m \in LinksIn(mu[p])
    BY <2>1 DEF TreeShape
  <2>3. p \in Models
    BY <2>1 DEF TreeShape
  <2>4. LinkOf(m) \in Entries
    BY <2>2, <2>3, AroundIs
  <2>5. SeparatorOf(m) \in Seq(RowsOf) /\ Len(SeparatorOf(m)) = 1
    BY <2>4, SeparatorTyped
  <2> QED BY <1>3, <2>5 DEF HeadOf, Separator
<1> QED BY <1>1, <1>2, <1>3

\* The entries of a section, for what they bring.
LEMMA FlatsHere ==
  ASSUME NEW mu, NEW secs, MenuOK(mu), Tree(mu, secs), NEW f \in [DOMAIN secs -> Seq(RowsOf)], NEW m \in DOMAIN secs
  PROVE  Flats(DOMAIN secs, secs[m].ns, f) /\ mu[m] \in Seq(EntriesOf(DOMAIN secs))
BY TreeEntries, TreeHasShape DEF TreeShape, Flats

\* There are rows of each section that have its own separator and those of its
\* entries.
LEMMA FlatThere ==
  ASSUME NEW mu, NEW secs, MenuOK(mu), Tree(mu, secs), secs[Root].hasSep = FALSE
  PROVE  \E f : IsFlat(mu, secs, f)
<1> DEFINE S == DOMAIN secs
           V == Seq(RowsOf)
           rank == HeightOf(secs)
           E(m, g) == HeadOf(secs, m) \o ItemRows(S, mu[m], secs[m].ns, g)
           D == [p \in S \X [S -> V] |-> E(p[1], p[2])]
<1>1. rank \in [S -> Nat] /\ V # {} /\ \A k \in S : rank[k] = Height[k]
  <2>1. rank \in [S -> Nat]
    BY TreeNested, HeightTyped
  <2>2. \A k \in S : rank[k] = Height[k]
    BY DEF HeightOf
  <2>3. <<>> \in V
    OBVIOUS
  <2> QED BY <2>1, <2>2, <2>3
<1>2. \A m \in S, g \in [S -> V] : D[<<m, g>>] = E(m, g)
  OBVIOUS
<1>3. ASSUME NEW m \in S, NEW g \in [S -> V] PROVE E(m, g) \in V
  <2> DEFINE p == HeadOf(secs, m)
             q == ItemRows(S, mu[m], secs[m].ns, g)
  <2>1. p \in V
    BY HeadTyped
  <2>2. q \in V
    BY FlatsHere, ItemRowsTyped
  <2> HIDE DEF p, q
  <2>3. p \o q \in V
    BY <2>1, <2>2
  <2> QED BY <2>3 DEF p, q
<1>4. D \in [S \X [S -> V] -> V]
  <2> HIDE DEF E
  <2> QED BY <1>3
<1>5. ASSUME NEW m \in S, NEW g, NEW h, \A k \in S : rank[k] < rank[m] => g[k] = h[k]
      PROVE  E(m, g) = E(m, h)
  <2>1. mu[m] \in Seq(EntriesOf(S)) /\ \A k \in LinksIn(mu[m]) : k \in S /\ Height[k] < Height[m]
    BY TreeEntries
  <2>2. \A k \in LinksIn(mu[m]) : g[k] = h[k]
    BY <1>1, <1>5, <2>1
  <2>3. ItemRows(S, mu[m], secs[m].ns, g) = ItemRows(S, mu[m], secs[m].ns, h)
    <3> HIDE DEF S
    <3> QED BY <2>1, <2>2, ItemRowsSame
  <2> QED BY <2>3
<1>6. Recursive(S, V, rank, D)
  <2> HIDE DEF rank, D, S, V, E
  <2> QED BY <1>1, <1>2, <1>4, <1>5 DEF Recursive
<1> HIDE DEF rank, D, S, V, E
<1>7. PICK f : Solves(f, S, V, D)
  BY <1>6, Recursion
<1>8. f \in [S -> V] /\ \A m \in S : f[m] = E(m, f)
  BY <1>2, <1>7 DEF Solves
<1> QED BY <1>8 DEF IsFlat, S, V, E

\* There are as many as the section measures.
LEMMA FlatCount ==
  ASSUME NEW mu, NEW secs, MenuOK(mu), Tree(mu, secs), secs[Root].hasSep = FALSE, NEW f, IsFlat(mu, secs, f)
  PROVE  Counts(DOMAIN secs, f, Measure(secs))
<1> DEFINE measure == Measure(secs)
           D == DOMAIN secs
           rank == HeightOf(secs)
           P == {k \in D : Len(f[k]) = measure[k]}
<1>1. f \in [D -> Seq(RowsOf)] /\ \A m \in D : f[m] = HeadOf(secs, m) \o ItemRows(D, mu[m], secs[m].ns, f)
  BY DEF IsFlat
<1>2. measure \in [D -> Nat] /\ \A m \in D : measure[m] = Separator(secs[m]) + MeasureItems(secs[m].items, measure)
  BY TreeNested, MeasureSolved DEF IsMeasure
<1> HIDE DEF measure
<1>4. rank \in [D -> Nat] /\ \A k \in D : rank[k] = Height[k]
  BY TreeNested, HeightTyped DEF HeightOf
<1>5. ASSUME NEW m \in D, \A k \in D : rank[k] < rank[m] => k \in P PROVE m \in P
  <2> DEFINE count == [k \in D |-> Len(f[k])]
             es == mu[m]
  <2>1. es \in Seq(Entries) /\ es \in Seq(EntriesOf(D)) /\ \A k \in LinksIn(es) : k \in D /\ Height[k] < Height[m]
    BY TreeEntries
  <2>2. \A k \in LinksIn(es) : k \in P
    BY <1>4, <1>5, <2>1
  <2>3. Counts(D, f, count)
    BY <1>1 DEF Counts
  <2>4. secs[m].items = Items(es) /\ Separator(secs[m]) \in {0, 1}
    BY TreeNested, ItemsTyped DEF Tree
  <2>5. Flats(D, secs[m].ns, f)
    BY <1>1, FlatsHere
  <2>6. \A k \in LinksIn(es) : count[k] = measure[k]
    BY <2>1, <2>2
  <2> HIDE DEF count, es
  <2>7. Len(ItemRows(D, es, secs[m].ns, f)) = MeasureItems(Items(es), count)
    BY <2>1, <2>3, <2>5, ItemRowsCount
  <2>8. MeasureItems(Items(es), count) = MeasureItems(Items(es), measure)
    <3>1. \A i \in DOMAIN Items(es) : Items(es)[i] # NoLink => Items(es)[i] \in LinksIn(es)
      BY DEF LinksIn, SectionsIn, ToSet
    <3>2. \A i \in DOMAIN Items(es) : Items(es)[i] # NoLink => count[Items(es)[i]] = measure[Items(es)[i]]
      BY <2>6, <3>1
    <3> QED BY <3>2, MeasureSame
  <2>9. Len(f[m]) = Separator(secs[m]) + MeasureItems(Items(es), measure)
    <3> DEFINE p == HeadOf(secs, m)
               q == ItemRows(D, es, secs[m].ns, f)
    <3>1. p \in Seq(RowsOf) /\ Len(p) = Separator(secs[m])
      BY HeadTyped
    <3>2. q \in Seq(RowsOf) /\ Len(q) = MeasureItems(Items(es), measure)
      BY <2>1, <2>5, <2>7, <2>8, ItemRowsTyped
    <3>3. f[m] = p \o q
      BY <1>1 DEF es
    <3> HIDE DEF p, q
    <3>4. Len(p \o q) = Len(p) + Len(q)
      BY <3>1, <3>2, ConcatProperties
    <3> QED BY <3>1, <3>2, <3>3, <3>4
  <2>10. measure[m] = Separator(secs[m]) + MeasureItems(Items(es), measure)
    BY <1>2, <2>4
  <2>11. Len(f[m]) = measure[m]
    BY <2>9, <2>10
  <2> QED BY <2>11
<1> HIDE DEF P, rank
<1>6. \A k \in D : k \in P
  BY <1>4, <1>5, RankInduction
<1> QED BY <1>2, <1>6 DEF P, measure, Counts

-----------------------------------------------------------------------------
(* The search goes one way.                                                *)

FindParts(mu, secs, m, F) ==
  /\ F \in [DOMAIN secs -> Nat \cup {NotFound}] /\ F[m] = Separator(secs[m]) /\ F[m] # NotFound
  /\ \A s \in DOMAIN secs : F[s] = NotFound => s # m /\ \A k \in LinksIn(mu[s]) : F[k] = NotFound
  /\ \A s \in DOMAIN secs \ {m} : F[s] # NotFound =>
       /\ FirstHit(secs[s].items, F) \in Hits(secs[s].items, F)
       /\ F[s] = Separator(secs[s]) + Before(secs, s, FirstHit(secs[s].items, F))
                 + F[secs[s].items[FirstHit(secs[s].items, F)]]

\* A section is found if it is the one, or one of its list items is found.
LEMMA FindHas ==
  ASSUME NEW mu, NEW secs, MenuOK(mu), Tree(mu, secs), NEW m \in DOMAIN secs
  PROVE  FindParts(mu, secs, m, FindModel(secs, m))
<1> DEFINE f == FindModel(secs, m)
           D == DOMAIN secs
<1>0. Nested(secs) /\ TreeShape(mu, secs)
  BY TreeNested, TreeHasShape
<1>1. f \in [D -> Nat \cup {NotFound}]
  BY <1>0, FindSolved DEF IsFind
<1>2. \A s \in D : f[s] =
        IF s = m THEN Separator(secs[s])
        ELSE IF Hits(secs[s].items, f) = {} THEN NotFound
        ELSE Separator(secs[s]) + Before(secs, s, FirstHit(secs[s].items, f)) + f[secs[s].items[FirstHit(secs[s].items, f)]]
  BY <1>0, FindSolved DEF IsFind
<1> HIDE DEF f
<1>3. ASSUME NEW s \in D, s # m, Hits(secs[s].items, f) # {}
      PROVE  /\ FirstHit(secs[s].items, f) \in Hits(secs[s].items, f) /\ f[s] \in Nat
             /\ f[s] = Separator(secs[s]) + Before(secs, s, FirstHit(secs[s].items, f)) + f[secs[s].items[FirstHit(secs[s].items, f)]]
  <2> DEFINE items == secs[s].items
             i == FirstHit(items, f)
             q == Separator(secs[s])
             r == Before(secs, s, i)
             n == f[items[i]]
  <2>1. items \in Seq(ListItems(secs)) /\ q \in {0, 1}
    BY <1>0, ItemsTyped
  <2>2. i \in Hits(items, f)
    BY <1>3, <2>1, FirstHitLeast
  <2>3. i \in DOMAIN items /\ items[i] # NoLink /\ n # NotFound
    BY <2>2 DEF Hits
  <2>4. r \in Nat
    BY <1>0, <2>3, BeforeTyped
  <2>5. items[i] \in D
    BY <1>0, <2>3 DEF Nested, NestedItems
  <2>6. n \in Nat
    BY <1>1, <2>3, <2>5
  <2>7. f[s] = q + r + n
    BY <1>2, <1>3
  <2> HIDE DEF q, r, n
  <2>8. q + r + n \in Nat
    BY <2>1, <2>4, <2>6
  <2> QED BY <2>2, <2>7, <2>8 DEF q, r, n
<1>4. f[m] = Separator(secs[m]) /\ f[m] # NotFound
  <2>1. Separator(secs[m]) \in {0, 1}
    BY <1>0, ItemsTyped
  <2> QED BY <1>2, <2>1 DEF NotFound
<1>5. ASSUME NEW s \in D, f[s] = NotFound PROVE s # m /\ \A k \in LinksIn(mu[s]) : f[k] = NotFound
  <2>1. s # m
    BY <1>4, <1>5
  <2>2. Hits(secs[s].items, f) = {}
    BY <1>3, <1>5, <2>1 DEF NotFound
  <2>3. SectionsIn(secs[s].items) = LinksIn(mu[s])
    BY <1>0 DEF TreeShape
  <2>4. \A k \in SectionsIn(secs[s].items) : f[k] = NotFound
    BY <2>2 DEF Hits, SectionsIn, ToSet
  <2> QED BY <2>1, <2>3, <2>4
<1>6. ASSUME NEW s \in D \ {m}, f[s] # NotFound PROVE Hits(secs[s].items, f) # {}
  BY <1>2, <1>6
<1>7. FindParts(mu, secs, m, f)
  BY <1>1, <1>3, <1>4, <1>5, <1>6 DEF FindParts
<1> QED BY <1>7 DEF f

\* The models below k.
Under(mu, k) == Below(Links(mu), {k})

UnderIs(mu, k) ==
  /\ Under(mu, k) \subseteq Models /\ k \in Under(mu, k)
  /\ \A j \in Under(mu, k) : LinksIn(mu[j]) \subseteq Under(mu, k)
  /\ \A j \in Under(mu, k) \ {k} : \E p \in Under(mu, k) : j \in LinksIn(mu[p])
  /\ \A S \in SUBSET Models : k \in S /\ (\A j \in S : LinksIn(mu[j]) \subseteq S) => Under(mu, k) \subseteq S
  /\ \A j \in Under(mu, k) : j = k \/ Height[j] < Height[k]

\* What is under a model has it, and what is under the models it links.
LEMMA UnderHas ==
  ASSUME NEW mu, MenuOK(mu), NEW k \in Models
  PROVE  UnderIs(mu, k)
<1> DEFINE links == Links(mu)
           ms == {k}
           B == Below(links, ms)
<1>1. /\ DOMAIN links = Models /\ Whole(links) /\ ms \subseteq DOMAIN links
      /\ \A p \in Models : SectionsIn(links[p]) = LinksIn(mu[p])
  BY MenuLinks DEF LinksOK
<1>2. \A p \in Models : \A j \in LinksIn(mu[p]) : j \in Models /\ Height[j] < Height[p]
  BY MenuLinks DEF LinksOK
<1>3. k \in ms /\ \A j : j \in ms => j = k
  OBVIOUS
<1> HIDE DEF links, ms
<1>4. ms \subseteq B /\ B \subseteq Models /\ ClosedUnder(links, B)
  BY <1>1, BelowHas
<1>5. ASSUME NEW j \in B, j # k PROVE \E p \in B : j \in LinksIn(mu[p])
  <2>1. j \notin ms
    BY <1>3, <1>5
  <2>2. \E p \in B : j \in SectionsIn(links[p])
    BY <1>1, <2>1, BelowParent
  <2> QED BY <1>1, <1>4, <2>2
<1>6. ASSUME NEW S \in SUBSET Models, k \in S, \A j \in S : LinksIn(mu[j]) \subseteq S
      PROVE  B \subseteq S
  <2>1. ms \subseteq S /\ ClosedUnder(links, S) /\ S \in SUBSET DOMAIN links
    BY <1>1, <1>3, <1>6 DEF ClosedUnder
  <2> QED BY <2>1, BelowLeast
<1>7. \A j \in B : j = k \/ Height[j] < Height[k]
  <2> DEFINE S == {j \in Models : j = k \/ Height[j] < Height[k]}
  <2>1. ASSUME NEW j \in S PROVE LinksIn(mu[j]) \subseteq S
    <3>1. \A i \in LinksIn(mu[j]) : i \in Models /\ Height[i] < Height[j]
      BY <1>2
    <3>2. \A i \in LinksIn(mu[j]) : Height[i] \in Nat /\ Height[j] \in Nat /\ Height[k] \in Nat
      BY <3>1, LinkAssumption
    <3> QED BY <3>1, <3>2
  <2>2. k \in S /\ S \in SUBSET Models
    OBVIOUS
  <2> HIDE DEF S
  <2>3. B \subseteq S
    BY <1>6, <2>1, <2>2
  <2> QED BY <2>3 DEF S
<1>8. \A j \in B : LinksIn(mu[j]) \subseteq B
  BY <1>1, <1>4 DEF ClosedUnder
<1>9. B = Under(mu, k)
  BY DEF Under, links, ms
<1> HIDE DEF B
<1>10. k \in B /\ B \subseteq Models
  BY <1>3, <1>4
<1> QED BY <1>5, <1>6, <1>7, <1>8, <1>9, <1>10 DEF UnderIs

\* What is below two sections of the same model is below one of them only.
LEMMA UnderApart ==
  ASSUME NEW mu, MenuOK(mu), NEW s \in Models, NEW c \in LinksIn(mu[s]), NEW d \in LinksIn(mu[s]), c # d
  PROVE  Under(mu, c) \cap Under(mu, d) = {}
<1> DEFINE A == Under(mu, c)
           B == Under(mu, d)
           rank == [k \in Models |-> Height[Root] - Height[k]]
           P == {k \in Models : ~(k \in A /\ k \in B)}
<1>1. /\ \A p \in Models : \A j \in LinksIn(mu[p]) : j \in Models /\ Height[j] < Height[p]
      /\ \A p, q \in Models : \A j \in LinksIn(mu[p]) : j \in LinksIn(mu[q]) => p = q
  BY MenuLinks DEF LinksOK
<1>2. UnderIs(mu, c) /\ UnderIs(mu, d)
  BY <1>1, UnderHas
<1>3. /\ A \subseteq Models /\ B \subseteq Models
      /\ \A j \in A \ {c} : \E p \in A : j \in LinksIn(mu[p])
      /\ \A j \in B \ {d} : \E p \in B : j \in LinksIn(mu[p])
      /\ \A j \in A : j = c \/ Height[j] < Height[c]
      /\ \A j \in B : j = d \/ Height[j] < Height[d]
  BY <1>2 DEF UnderIs
<1> HIDE DEF A, B
<1>4. \A k \in Models : Height[k] \in Nat /\ Height[Root] \in Nat /\ Height[k] <= Height[Root]
  BY LinkAssumption
<1>5. rank \in [Models -> Nat]
  BY <1>4
<1>6. s \notin A /\ s \notin B
  <2>1. Height[c] < Height[s] /\ Height[d] < Height[s] /\ Height[s] \in Nat /\ Height[c] \in Nat /\ Height[d] \in Nat
    BY <1>1, <1>4
  <2> QED BY <1>3, <2>1
<1>7. ASSUME NEW k \in Models, \A j \in Models : rank[j] < rank[k] => j \in P PROVE k \in P
  <2> SUFFICES ASSUME k \in A, k \in B PROVE FALSE
    OBVIOUS
  <2>1. k # c
    <3> SUFFICES ASSUME k = c PROVE FALSE
      OBVIOUS
    <3>1. PICK p \in B : k \in LinksIn(mu[p])
      BY <1>3
    <3>2. p = s
      BY <1>1, <1>3, <3>1
    <3> QED BY <1>6, <3>2
  <2>2. k # d
    <3> SUFFICES ASSUME k = d PROVE FALSE
      OBVIOUS
    <3>1. PICK p \in A : k \in LinksIn(mu[p])
      BY <1>3
    <3>2. p = s
      BY <1>1, <1>3, <3>1
    <3> QED BY <1>6, <3>2
  <2>3. PICK p \in A : k \in LinksIn(mu[p])
    BY <1>3, <2>1
  <2>4. PICK q \in B : k \in LinksIn(mu[q])
    BY <1>3, <2>2
  <2>5. p = q /\ p \in Models /\ Height[k] < Height[p]
    BY <1>1, <1>3, <2>3, <2>4
  <2>6. rank[p] < rank[k]
    BY <1>4, <2>5
  <2> QED BY <1>7, <2>5, <2>6
<1> HIDE DEF rank, P
<1>8. \A k \in Models : k \in P
  BY <1>5, <1>7, RankInduction
<1> QED BY <1>3, <1>8 DEF P, A, B

\* The model that is looked for is below what is found.
LEMMA FoundUnder ==
  ASSUME NEW mu, NEW secs, MenuOK(mu), Tree(mu, secs), NEW m \in DOMAIN secs, NEW k \in DOMAIN secs,
         FindModel(secs, m)[k] # NotFound
  PROVE  m \in Under(mu, k)
<1> DEFINE F == FindModel(secs, m)
           A == Under(mu, k)
           D == DOMAIN secs
           rank == [j \in D |-> Height[j]]
           P == {j \in D : j \in A => F[j] = NotFound}
<1>1. FindParts(mu, secs, m, F)
  BY FindHas
<1>2. /\ D \subseteq Models /\ \A p \in D : LinksIn(mu[p]) \subseteq D
      /\ \A p \in D : SectionsIn(secs[p].items) = LinksIn(mu[p])
  BY TreeHasShape DEF TreeShape
<1>3. k \in A /\ \A j \in A : LinksIn(mu[j]) \subseteq A
  BY <1>2, UnderHas DEF UnderIs
<1> HIDE DEF F, A
<1> SUFFICES ASSUME m \notin A PROVE FALSE
  BY DEF A
<1>4. rank \in [D -> Nat]
  BY <1>2, LinkAssumption
<1>5. \A p \in D : \A j \in LinksIn(mu[p]) : Height[j] < Height[p]
  BY <1>2, MenuLinks DEF LinksOK
<1>6. ASSUME NEW s \in D, \A j \in D : rank[j] < rank[s] => j \in P PROVE s \in P
  <2> SUFFICES ASSUME s \in A, F[s] # NotFound PROVE FALSE
    OBVIOUS
  <2>1. s \in D \ {m}
    OBVIOUS
  <2> DEFINE items == secs[s].items
             i == FirstHit(items, F)
  <2>2. i \in Hits(items, F)
    BY <1>1, <2>1 DEF FindParts
  <2>3. items[i] \in SectionsIn(items) /\ F[items[i]] # NotFound
    BY <2>2 DEF Hits, SectionsIn, ToSet
  <2> HIDE DEF items, i
  <2>4. items[i] \in LinksIn(mu[s])
    BY <1>2, <2>3 DEF items
  <2>5. items[i] \in A /\ items[i] \in D /\ rank[items[i]] < rank[s]
    BY <1>2, <1>3, <1>5, <2>4
  <2> QED BY <1>6, <2>3, <2>5
<1> HIDE DEF rank, P
<1>7. \A j \in D : j \in P
  BY <1>4, <1>6, RankInduction
<1> QED BY <1>3, <1>7 DEF P, F

\* At most one list item of a section is found.
LEMMA OneHit ==
  ASSUME NEW mu, NEW secs, MenuOK(mu), Tree(mu, secs), NEW m \in DOMAIN secs, NEW s \in DOMAIN secs,
         NEW c \in LinksIn(mu[s]), NEW d \in LinksIn(mu[s]),
         FindModel(secs, m)[c] # NotFound, FindModel(secs, m)[d] # NotFound
  PROVE  c = d
<1>1. s \in Models /\ LinksIn(mu[s]) \subseteq DOMAIN secs
  BY TreeHasShape DEF TreeShape
<1>2. m \in Under(mu, c) /\ m \in Under(mu, d)
  BY <1>1, FoundUnder
<1> QED BY <1>1, <1>2, UnderApart

\* Nothing below the model that is looked for is found.
LEMMA NotFoundUnder ==
  ASSUME NEW mu, NEW secs, MenuOK(mu), Tree(mu, secs), NEW m \in DOMAIN secs, NEW k \in LinksIn(mu[m])
  PROVE  FindModel(secs, m)[k] = NotFound
<1>1. m \in Models /\ LinksIn(mu[m]) \subseteq DOMAIN secs /\ k \in Models
  BY TreeHasShape DEF TreeShape
<1>2. Height[k] < Height[m] /\ Height[k] \in Nat /\ Height[m] \in Nat
  BY <1>1, MenuLinks, LinkAssumption DEF LinksOK
<1>3. m \notin Under(mu, k)
  BY <1>1, <1>2, UnderHas DEF UnderIs
<1> QED BY <1>1, <1>3, FoundUnder

-----------------------------------------------------------------------------
(* Where a change is in the rows.                                          *)

Cat(s, t) == s \o t

\* A concatenation of sequences over A is one.
LEMMA CatTyped ==
  ASSUME NEW A, NEW s \in Seq(A), NEW t \in Seq(A)
  PROVE  Cat(s, t) \in Seq(A)
BY ConcatProperties DEF Cat

Associates(V) == \A s, t, u \in V : Cat(s, t) \in V /\ Cat(Cat(s, t), u) = Cat(s, Cat(t, u))

\* Concatenation is associative.
LEMMA CatAssociates ==
  ASSUME NEW A
  PROVE  Associates(Seq(A))
<1> SUFFICES ASSUME NEW s \in Seq(A), NEW t \in Seq(A), NEW u \in Seq(A)
             PROVE  Cat(s, t) \in Seq(A) /\ Cat(Cat(s, t), u) = Cat(s, Cat(t, u))
  BY DEF Associates
<1>1. Cat(Cat(s, t), u) = Cat(s, Cat(t, u))
  BY ConcatAssociative DEF Cat
<1> QED BY <1>1, CatTyped

\* Concatenations, grouped otherwise.
Regrouped(h, x, p, b, q, y) ==
  h \o ((x \o ((p \o b) \o q)) \o y) = (((h \o x) \o p) \o b) \o (q \o y)

\* The parts of a section around what is found, regrouped around the place.
LEMMA Regroup ==
  ASSUME NEW A, NEW h \in Seq(A), NEW x \in Seq(A), NEW p \in Seq(A), NEW b \in Seq(A), NEW q \in Seq(A), NEW y \in Seq(A)
  PROVE  Regrouped(h, x, p, b, q, y)
<1> DEFINE V == Seq(A)
<1>0. Associates(V) /\ h \in V /\ x \in V /\ p \in V /\ b \in V /\ q \in V /\ y \in V
  BY CatAssociates
<1> HIDE DEF V
<1> USE DEF Associates
<1> DEFINE c == Cat(p, b)
           e == Cat(q, y)
           i == Cat(h, x)
           d == Cat(c, q)
           k == Cat(c, e)
<1>1. c \in V /\ e \in V /\ i \in V
  BY <1>0
<1>2. d \in V /\ k \in V
  BY <1>0, <1>1
<1>3. Cat(Cat(i, p), b) = Cat(i, c)
  BY <1>0, <1>1
<1>4. Cat(d, y) = k
  BY <1>0, <1>1
<1>5. Cat(Cat(i, c), e) = Cat(i, k)
  BY <1>0, <1>1
<1>6. Cat(Cat(x, d), y) = Cat(x, k)
  BY <1>0, <1>2, <1>4
<1>7. Cat(h, Cat(x, k)) = Cat(i, k)
  BY <1>0, <1>2
<1>8. Cat(h, Cat(Cat(x, d), y)) = Cat(Cat(Cat(i, p), b), e)
  BY <1>3, <1>5, <1>6, <1>7
<1> QED BY <1>8, Zenon DEF Cat, Regrouped

\* A change of the section m, of which the sections K stay.
Regraft(mu, nu, secs, new, m, K) ==
  /\ MenuOK(mu) /\ MenuOK(nu) /\ Tree(mu, secs) /\ Tree(nu, new)
  /\ secs[Root].hasSep = FALSE /\ new[Root].hasSep = FALSE
  /\ m \in K /\ Root \in K /\ K \subseteq DOMAIN secs /\ K \subseteq DOMAIN new
  /\ \A k \in K \ {m} : nu[k] = mu[k] /\ new[k] = secs[k] /\ LinksIn(mu[k]) \subseteq K
  /\ new[m].ns = secs[m].ns /\ new[m].hasSep = secs[m].hasSep

\* The sections that do not lead to m bring the same rows.
LEMMA FlatUnchanged ==
  ASSUME NEW mu, NEW nu, NEW secs, NEW new, NEW m, NEW K, Regraft(mu, nu, secs, new, m, K),
         NEW f, IsFlat(mu, secs, f), NEW h, IsFlat(nu, new, h)
  PROVE  \A s \in K : FindModel(secs, m)[s] = NotFound => f[s] = h[s]
<1> DEFINE F == FindModel(secs, m)
           D == DOMAIN secs
           C == DOMAIN new
           rank == [k \in K |-> Height[k]]
           P == {s \in K : F[s] = NotFound => f[s] = h[s]}
<1>1. /\ MenuOK(mu) /\ MenuOK(nu) /\ Tree(mu, secs) /\ Tree(nu, new) /\ m \in K /\ K \subseteq D /\ K \subseteq C
      /\ \A k \in K \ {m} : nu[k] = mu[k] /\ new[k] = secs[k] /\ LinksIn(mu[k]) \subseteq K
  BY DEF Regraft
<1>2. FindParts(mu, secs, m, F)
  BY <1>1, FindHas
<1>3. D \subseteq Models
  BY <1>1, TreeHasShape DEF TreeShape
<1> HIDE DEF F
<1>4. rank \in [K -> Nat]
  BY <1>1, <1>3, LinkAssumption
<1>5. ASSUME NEW s \in K, \A k \in K : rank[k] < rank[s] => k \in P PROVE s \in P
  <2> SUFFICES ASSUME F[s] = NotFound PROVE f[s] = h[s]
    OBVIOUS
  <2>1. s # m /\ \A k \in LinksIn(mu[s]) : F[k] = NotFound
    BY <1>1, <1>2 DEF FindParts
  <2>2. /\ mu[s] \in Seq(EntriesOf(D)) /\ \A k \in LinksIn(mu[s]) : Height[k] < Height[s]
    BY <1>1, TreeEntries
  <2>3. nu[s] = mu[s] /\ new[s] = secs[s] /\ LinksIn(mu[s]) \subseteq K
    BY <1>1, <2>1
  <2>4. \A k \in LinksIn(mu[s]) : f[k] = h[k]
    BY <1>5, <2>1, <2>2, <2>3
  <2>5. mu[s] \in Seq(EntriesOf(C))
    BY <1>1, <2>3, TreeEntries
  <2>6. ItemRows(D, mu[s], secs[s].ns, f) = ItemRows(C, mu[s], secs[s].ns, h)
    <3> HIDE DEF D, C
    <3> QED BY <2>2, <2>4, <2>5, ItemRowsSame
  <2>7. f[s] = HeadOf(secs, s) \o ItemRows(D, mu[s], secs[s].ns, f)
    BY <1>1 DEF IsFlat
  <2>8. h[s] = HeadOf(new, s) \o ItemRows(C, nu[s], new[s].ns, h)
    BY <1>1 DEF IsFlat
  <2>9. HeadOf(new, s) = HeadOf(secs, s)
    BY <2>3 DEF HeadOf
  <2> QED BY <2>3, <2>6, <2>7, <2>8, <2>9
<1> HIDE DEF P, rank
<1>6. \A s \in K : s \in P
  BY <1>4, <1>5, RankInduction
<1> QED BY <1>6 DEF P, F

\* The links of the parts of a model's entries.
LEMMA LinksApart ==
  ASSUME NEW a \in Seq(Entries), NEW g \in Seq(Entries), NEW b \in Seq(Entries), Distinct((a \o g) \o b)
  PROVE  LinksIn(g) \cap (LinksIn(a) \cup LinksIn(b)) = {}
<1>1. ToSet(a) \cap ToSet(g) = {} /\ (ToSet(a) \cup ToSet(g)) \cap ToSet(b) = {}
  BY ThreeParts
<1>2. /\ \A k \in LinksIn(a) : LinkOf(k) \in ToSet(a)
      /\ \A k \in LinksIn(g) : LinkOf(k) \in ToSet(g)
      /\ \A k \in LinksIn(b) : LinkOf(k) \in ToSet(b)
  BY LinksInEntries
<1> QED BY <1>1, <1>2

\* A section's entry leads to it.
LEMMA LinkIn ==
  ASSUME NEW e \in Entries, NEW c, c = SectionOf[e], c # NoLink
  PROVE  c \in LinksIn(<<e>>)
<1> DEFINE g == <<e>>
<1>1. g \in Seq(Entries) /\ e \in ToSet(g)
  BY DEF ToSet
<1> HIDE DEF g
<1>2. c \in LinksIn(g)
  BY <1>1, LinksInEntries
<1> QED BY <1>2 DEF g

\* The entries of a section around the i-th.
Split(es, i, x, e, y) ==
  /\ x \in Seq(Entries) /\ y \in Seq(Entries) /\ e \in Entries /\ e = es[i]
  /\ es = (x \o <<e>>) \o y /\ Items(x) = SubSeq(Items(es), 1, i - 1)
  /\ LinksIn(es) = LinksIn(x) \cup LinksIn(<<e>>) \cup LinksIn(y)
  /\ LinksIn(<<e>>) \cap (LinksIn(x) \cup LinksIn(y)) = {}

\* Entries divide at one of them.
LEMMA SplitAt ==
  ASSUME NEW es \in Seq(Entries), Distinct(es), NEW i \in DOMAIN es
  PROVE  \E x, e, y : Split(es, i, x, e, y)
<1>1. i - 1 \in Nat /\ i \in 1..Len(es) /\ (i - 1) + 1 <= Len(es) /\ (i - 1) + 1 = i /\ 1 \in Nat
  OBVIOUS
<1> DEFINE pos == i - 1
           one == 1
<1>2. pos \in Nat /\ one \in Nat /\ pos + one <= Len(es)
  BY <1>1
<1> HIDE DEF pos, one
<1>3. PICK x, g, y : Parted(Entries, es, pos, one, x, g, y)
  BY <1>2, Parts
<1>4. /\ x \in Seq(Entries) /\ g \in Seq(Entries) /\ y \in Seq(Entries) /\ Len(x) = pos /\ Len(g) = one
      /\ es = (x \o g) \o y /\ g = SubSeq(es, pos + 1, pos + one)
  BY <1>3 DEF Parted
<1>5. Items(x) = SubSeq(Items(es), 1, pos)
  <2>1. Parted(Models \cup {NoLink}, Items(es), pos, one, Items(x), Items(g), Items(y))
    BY <1>2, <1>3, ItemsParted
  <2> QED BY <2>1 DEF Parted
<1>6. g = <<es[i]>> /\ es[i] \in Entries
  <2>1. g = SubSeq(es, i, i)
    BY <1>1, <1>4 DEF pos, one
  <2>2. SubSeq(es, i, i) \in Seq(Entries) /\ Len(SubSeq(es, i, i)) = 1 /\ SubSeq(es, i, i)[1] = es[i]
    BY <1>1
  <2> DEFINE e == es[i]
  <2>3. e \in Entries
    BY <1>1
  <2> HIDE DEF e
  <2>4. g \in Seq(Entries) /\ Len(g) = 1 /\ g[1] = e
    BY <2>1, <2>2 DEF e
  <2>5. g = <<e>>
    BY <2>3, <2>4, SeqEqual
  <2> QED BY <2>3, <2>5 DEF e
<1>7. LinksIn(es) = LinksIn(x) \cup LinksIn(g) \cup LinksIn(y)
  <2>1. LinksIn((x \o g) \o y) = LinksIn(x) \cup LinksIn(g) \cup LinksIn(y)
    <3>1. x \in Seq(Entries) /\ g \in Seq(Entries) /\ y \in Seq(Entries)
      BY <1>4
    <3> QED BY <3>1, LinksInParts
  <2>2. es = (x \o g) \o y
    BY <1>4
  <2> QED BY <2>1, <2>2, Zenon
<1>8. LinksIn(g) \cap (LinksIn(x) \cup LinksIn(y)) = {}
  BY <1>4, LinksApart
<1> DEFINE e == es[i]
<1>9. Split(es, i, x, e, y)
  BY <1>4, <1>5, <1>6, <1>7, <1>8, Zenon DEF Split, pos
<1> QED BY <1>9

\* The rows of entries around that of a section.
RowsAround(D, x, e, y, ns, f) ==
  ItemRows(D, (x \o <<e>>) \o y, ns, f) = (ItemRows(D, x, ns, f) \o f[SectionOf[e]]) \o ItemRows(D, y, ns, f)

\* The rows of entries around a section.
LEMMA ItemRowsAround ==
  ASSUME NEW D, NEW ns, NEW f, Flats(D, ns, f), NEW x \in Seq(EntriesOf(D)), NEW y \in Seq(EntriesOf(D)),
         NEW e \in EntriesOf(D), SectionOf[e] # NoLink
  PROVE  RowsAround(D, x, e, y, ns, f)
<1> DEFINE g == <<e>>
           xg == x \o g
<1>1. ItemRows(D, g, ns, f) = f[SectionOf[e]]
  BY ItemRowsSection
<1>2. g \in Seq(EntriesOf(D))
  OBVIOUS
<1> HIDE DEF g
<1>3. xg \in Seq(EntriesOf(D))
  BY <1>2
<1>4. ItemRows(D, xg, ns, f) = ItemRows(D, x, ns, f) \o ItemRows(D, g, ns, f)
  BY <1>2, ItemRowsConcat
<1> HIDE DEF xg
<1>5. ItemRows(D, xg \o y, ns, f) = ItemRows(D, xg, ns, f) \o ItemRows(D, y, ns, f)
  BY <1>3, ItemRowsConcat
<1> QED BY <1>1, <1>4, <1>5, Zenon DEF RowsAround, g, xg

\* Where the rows of the section m are in those of s, before and after m changes.
Located(mu, nu, secs, new, m, f, h, s) ==
  \E p, q \in Seq(RowsOf) :
    /\ Len(p) = FindModel(secs, m)[s]
    /\ f[s] = (p \o ItemRows(DOMAIN secs, mu[m], secs[m].ns, f)) \o q
    /\ h[s] = (p \o ItemRows(DOMAIN new, nu[m], secs[m].ns, h)) \o q

\* A change within what is found changes the rows at the offset the search
\* gives, and no others.
LEMMA FlatLocated ==
  ASSUME NEW mu, NEW nu, NEW secs, NEW new, NEW m, NEW K, Regraft(mu, nu, secs, new, m, K),
         NEW f, IsFlat(mu, secs, f), NEW h, IsFlat(nu, new, h)
  PROVE  \A s \in K : FindModel(secs, m)[s] # NotFound => Located(mu, nu, secs, new, m, f, h, s)
<1> DEFINE F == FindModel(secs, m)
           D == DOMAIN secs
           C == DOMAIN new
           V == Seq(RowsOf)
           ff == ItemRows(D, mu[m], secs[m].ns, f)
           hh == ItemRows(C, nu[m], secs[m].ns, h)
           rank == [k \in K |-> Height[k]]
           Lies(s) == \E p, q \in V : Len(p) = F[s] /\ f[s] = (p \o ff) \o q /\ h[s] = (p \o hh) \o q
           P == {s \in K : F[s] # NotFound => Lies(s)}
<1>1. /\ MenuOK(mu) /\ MenuOK(nu) /\ Tree(mu, secs) /\ Tree(nu, new) /\ m \in K /\ K \subseteq D /\ K \subseteq C
      /\ secs[Root].hasSep = FALSE /\ new[Root].hasSep = FALSE
      /\ \A k \in K \ {m} : nu[k] = mu[k] /\ new[k] = secs[k] /\ LinksIn(mu[k]) \subseteq K
      /\ new[m].ns = secs[m].ns /\ new[m].hasSep = secs[m].hasSep
  BY DEF Regraft
<1>2. FindParts(mu, secs, m, F)
  BY <1>1, FindHas
<1>3. D \subseteq Models /\ m \in D /\ m \in C
  BY <1>1, TreeHasShape DEF TreeShape
<1>4. f \in [D -> V] /\ h \in [C -> V]
  BY DEF IsFlat
<1>5. ff \in V /\ hh \in V
  <2>1. Flats(D, secs[m].ns, f) /\ mu[m] \in Seq(EntriesOf(D))
    BY <1>1, <1>3, <1>4, FlatsHere
  <2>2. Flats(C, secs[m].ns, h) /\ nu[m] \in Seq(EntriesOf(C))
    BY <1>1, <1>3, <1>4, FlatsHere
  <2> HIDE DEF D, C
  <2> QED BY <2>1, <2>2, ItemRowsTyped
<1>6. Lies(m)
  <2> DEFINE p == HeadOf(secs, m)
             q == <<>>
  <2>1. p \in V /\ q \in V /\ Len(p) = F[m]
    <3>1. F[m] = Separator(secs[m])
      BY <1>2 DEF FindParts
    <3>2. p \in V /\ Len(p) = Separator(secs[m])
      BY <1>1, <1>3, HeadTyped
    <3> QED BY <3>1, <3>2
  <2>2. f[m] = p \o ff
    BY <1>3 DEF IsFlat
  <2>3. h[m] = p \o hh
    <3>1. h[m] = HeadOf(new, m) \o hh
      BY <1>1, <1>3 DEF IsFlat
    <3>2. HeadOf(new, m) = p
      BY <1>1 DEF HeadOf
    <3> QED BY <3>1, <3>2
  <2> HIDE DEF p, ff, hh, F
  <2>4. p \o ff \in V /\ p \o hh \in V
    BY <1>5, <2>1
  <2>5. (p \o ff) \o q = p \o ff /\ (p \o hh) \o q = p \o hh
    BY <2>4, ConcatEmptySeq
  <2> QED BY <2>1, <2>2, <2>3, <2>5
<1>7. rank \in [K -> Nat]
  BY <1>1, <1>3, LinkAssumption
<1>8. ASSUME NEW s \in K, s # m, F[s] # NotFound, \A k \in K : rank[k] < rank[s] => k \in P
      PROVE  Lies(s)
  <2> DEFINE es == mu[s]
             items == secs[s].items
             i == FirstHit(items, F)
             ns == secs[s].ns
             measure == Measure(secs)
  <2>1. i \in Hits(items, F) /\ F[s] = Separator(secs[s]) + Before(secs, s, i) + F[items[i]]
    BY <1>1, <1>2, <1>8 DEF FindParts
  <2>2. /\ es \in Seq(Entries) /\ es \in Seq(EntriesOf(D)) /\ items = Items(es) /\ s \in D
        /\ \A k \in LinksIn(es) : Height[k] < Height[s]
    BY <1>1, TreeEntries DEF Tree
  <2>3. Distinct(es)
    BY <1>1, <1>3, <2>2, WellNestedParts DEF MenuOK
  <2>4. i \in DOMAIN es /\ items[i] = SectionOf[es[i]] /\ items[i] # NoLink /\ F[items[i]] # NotFound
    BY <2>1, <2>2, ItemsShape DEF Hits
  <2>5. Before(secs, s, i) = MeasureItems(SubSeq(Items(es), 1, i - 1), measure)
    BY <2>2 DEF Before
  <2>6. nu[s] = es /\ new[s] = secs[s] /\ LinksIn(es) \subseteq K
    BY <1>1, <1>8
  <2>7. f[s] = HeadOf(secs, s) \o ItemRows(D, es, ns, f)
    BY <2>2 DEF IsFlat
  <2>8. h[s] = HeadOf(secs, s) \o ItemRows(C, es, ns, h)
    <3>1. h[s] = HeadOf(new, s) \o ItemRows(C, nu[s], new[s].ns, h)
      BY <1>1 DEF IsFlat
    <3>2. HeadOf(new, s) = HeadOf(secs, s)
      BY <2>6 DEF HeadOf
    <3> QED BY <2>6, <3>1, <3>2
  <2>9. Flats(D, ns, f) /\ Flats(C, ns, h)
    BY <1>1, <1>4, <2>2, <2>6, FlatsHere
  <2>10. HeadOf(secs, s) \in V /\ Len(HeadOf(secs, s)) = Separator(secs[s]) /\ Separator(secs[s]) \in {0, 1}
    BY <1>1, <2>2, HeadTyped DEF Separator
  <2>11. Counts(D, f, measure)
    BY <1>1, FlatCount
  <2>12. PICK x, e, y : Split(es, i, x, e, y)
    BY <2>2, <2>3, <2>4, SplitAt
  <2> HIDE DEF es, items, i, ns, measure, F, P, rank, ff, hh, Lies, V, D, C
  <2>13. /\ x \in Seq(Entries) /\ y \in Seq(Entries) /\ e \in Entries /\ e = es[i]
         /\ es = (x \o <<e>>) \o y /\ Items(x) = SubSeq(Items(es), 1, i - 1)
         /\ LinksIn(es) = LinksIn(x) \cup LinksIn(<<e>>) \cup LinksIn(y)
         /\ LinksIn(<<e>>) \cap (LinksIn(x) \cup LinksIn(y)) = {}
    BY <2>12 DEF Split
  <2> DEFINE c == SectionOf[e]
  <2>14. c \in LinksIn(<<e>>) /\ c # NoLink /\ F[c] # NotFound /\ c = items[i]
    <3>1. c # NoLink /\ F[c] # NotFound /\ c = items[i]
      BY <2>4, <2>13
    <3>2. e \in Entries
      BY <2>13
    <3>3. c \in LinksIn(<<e>>)
      BY <3>1, <3>2, LinkIn DEF c
    <3> QED BY <3>1, <3>3
  <2> HIDE DEF c
  <2>15. \A k \in LinksIn(x) \cup LinksIn(y) : F[k] = NotFound
    <3> SUFFICES ASSUME NEW k \in LinksIn(x) \cup LinksIn(y), F[k] # NotFound PROVE FALSE
      OBVIOUS
    <3>1. k \in LinksIn(es) /\ c \in LinksIn(es) /\ k # c
      BY <2>13, <2>14
    <3>2. k = c
      BY <1>1, <1>3, <2>2, <2>14, <3>1, OneHit DEF es, F, D
    <3> QED BY <3>1, <3>2
  <2>16. \A k \in LinksIn(x) \cup LinksIn(y) : f[k] = h[k]
    BY <2>6, <2>13, <2>15, FlatUnchanged DEF F
  <2>17. /\ x \in Seq(EntriesOf(D)) /\ y \in Seq(EntriesOf(D)) /\ e \in EntriesOf(D)
         /\ x \in Seq(EntriesOf(C)) /\ y \in Seq(EntriesOf(C)) /\ e \in EntriesOf(C)
    <3>1. LinksIn(x) \subseteq D /\ LinksIn(y) \subseteq D /\ LinksIn(x) \subseteq C /\ LinksIn(y) \subseteq C /\ c \in D /\ c \in C
      BY <1>1, <2>6, <2>13, <2>14
    <3> QED BY <2>13, <3>1, EntriesIn DEF EntriesOf, c
  <2> DEFINE X == ItemRows(D, x, ns, f)
             Y == ItemRows(D, y, ns, f)
  <2>18. ItemRows(C, x, ns, h) = X /\ ItemRows(C, y, ns, h) = Y
    BY <2>16, <2>17, ItemRowsSame
  <2>19. ItemRows(D, es, ns, f) = (X \o f[c]) \o Y
    <3>1. RowsAround(D, x, e, y, ns, f)
      BY <2>9, <2>14, <2>17, ItemRowsAround DEF c
    <3> QED BY <2>13, <3>1, Zenon DEF RowsAround, c
  <2>20. ItemRows(C, es, ns, h) = (X \o h[c]) \o Y
    <3>1. RowsAround(C, x, e, y, ns, h)
      BY <2>9, <2>14, <2>17, ItemRowsAround DEF c
    <3> QED BY <2>13, <2>18, <3>1, Zenon DEF RowsAround, c
  <2>21. X \in V /\ Y \in V /\ Len(X) = MeasureItems(Items(x), measure)
    BY <2>9, <2>11, <2>17, ItemRowsTyped, ItemRowsCount DEF V
  <2>22. Lies(c)
    <3>1. c \in K /\ Height[c] < Height[s] /\ s \in K
      BY <2>2, <2>6, <2>13, <2>14, <1>8
    <3>2. rank[c] < rank[s]
      BY <3>1 DEF rank
    <3>3. c \in P
      BY <1>8, <3>1, <3>2
    <3> QED BY <2>14, <3>3 DEF P
  <2>23. PICK p \in V, q \in V : Len(p) = F[c] /\ f[c] = (p \o ff) \o q /\ h[c] = (p \o hh) \o q
    BY <2>22 DEF Lies
  <2> HIDE DEF X, Y
  <2> DEFINE H == HeadOf(secs, s)
             pp == (H \o X) \o p
             qq == q \o Y
  <2>24. H \in V /\ X \in V /\ Y \in V /\ p \in V /\ q \in V /\ ff \in V /\ hh \in V
    BY <1>5, <2>10, <2>21, <2>23
  <2>25. f[s] = H \o ((X \o ((p \o ff) \o q)) \o Y) /\ h[s] = H \o ((X \o ((p \o hh) \o q)) \o Y)
    BY <2>7, <2>8, <2>19, <2>20, <2>23, Zenon
  <2>26. Len(H) = Separator(secs[s]) /\ Len(X) = Before(secs, s, i) /\ Len(p) = F[c]
         /\ F[s] = Separator(secs[s]) + Before(secs, s, i) + F[c]
    BY <2>1, <2>5, <2>10, <2>13, <2>14, <2>21, <2>23
  <2> HIDE DEF H
  <2>27. f[s] = (pp \o ff) \o qq /\ h[s] = (pp \o hh) \o qq
    <3>1. Regrouped(H, X, p, ff, q, Y) /\ Regrouped(H, X, p, hh, q, Y)
      BY <2>24, Regroup DEF V
    <3> QED BY <2>25, <3>1, Zenon DEF Regrouped
  <2>28. pp \in V /\ qq \in V /\ Len(pp) = Len(H) + Len(X) + Len(p)
    BY <2>24 DEF V
  <2> HIDE DEF pp, qq
  <2>29. Len(pp) = F[s]
    BY <2>26, <2>28
  <2> QED BY <2>27, <2>28, <2>29 DEF Lies
<1>9. ASSUME NEW s \in K, \A k \in K : rank[k] < rank[s] => k \in P PROVE s \in P
  <2> HIDE DEF Lies
  <2>1. CASE s = m
    BY <1>6, <2>1
  <2>2. CASE s # m
    <3>1. F[s] # NotFound => Lies(s)
      BY <1>8, <1>9, <2>2
    <3> QED BY <3>1
  <2> QED BY <2>1, <2>2
<1> HIDE DEF P, rank
<1>10. \A s \in K : s \in P
  BY <1>7, <1>9, RankInduction
<1> QED BY <1>10 DEF P, Lies, F, D, C, V, ff, hh, Located

\* Concatenations, grouped otherwise.
RegroupedInside(x, p, b, q, y) == (x \o ((p \o b) \o q)) \o y = ((x \o p) \o b) \o (q \o y)

\* The parts of the changed section itself, regrouped around the place.
LEMMA RegroupInside ==
  ASSUME NEW A, NEW x \in Seq(A), NEW p \in Seq(A), NEW b \in Seq(A), NEW q \in Seq(A), NEW y \in Seq(A)
  PROVE  RegroupedInside(x, p, b, q, y)
<1> DEFINE V == Seq(A)
<1>0. Associates(V) /\ x \in V /\ p \in V /\ b \in V /\ q \in V /\ y \in V
  BY CatAssociates
<1> HIDE DEF V
<1> USE DEF Associates
<1> DEFINE c == Cat(p, b)
           e == Cat(q, y)
           d == Cat(c, q)
<1>1. c \in V /\ e \in V
  BY <1>0
<1>2. d \in V
  BY <1>0, <1>1
<1>3. Cat(Cat(x, p), b) = Cat(x, c)
  BY <1>0, <1>1
<1>4. Cat(d, y) = Cat(c, e)
  BY <1>0, <1>1
<1>5. Cat(Cat(x, c), e) = Cat(x, Cat(c, e))
  BY <1>0, <1>1
<1>6. Cat(Cat(x, d), y) = Cat(x, Cat(d, y))
  BY <1>0, <1>2
<1>7. Cat(Cat(x, d), y) = Cat(Cat(Cat(x, p), b), e)
  BY <1>3, <1>4, <1>5, <1>6
<1> QED BY <1>7, Zenon DEF Cat, RegroupedInside

\* The rows of entries in three parts.
RowsOfParts(D, a, g, b, ns, f) ==
  ItemRows(D, (a \o g) \o b, ns, f) = (ItemRows(D, a, ns, f) \o ItemRows(D, g, ns, f)) \o ItemRows(D, b, ns, f)

\* The rows of entries in three parts.
LEMMA ItemRowsParts ==
  ASSUME NEW D, NEW ns, NEW f, Flats(D, ns, f),
         NEW a \in Seq(EntriesOf(D)), NEW g \in Seq(EntriesOf(D)), NEW b \in Seq(EntriesOf(D))
  PROVE  RowsOfParts(D, a, g, b, ns, f)
<1> DEFINE ag == a \o g
<1>1. ag \in Seq(EntriesOf(D))
  OBVIOUS
<1>2. ItemRows(D, ag, ns, f) = ItemRows(D, a, ns, f) \o ItemRows(D, g, ns, f)
  BY ItemRowsConcat
<1> HIDE DEF ag
<1>3. ItemRows(D, ag \o b, ns, f) = ItemRows(D, ag, ns, f) \o ItemRows(D, b, ns, f)
  BY <1>1, ItemRowsConcat
<1> QED BY <1>2, <1>3, Zenon DEF RowsOfParts, ag

\* The rows before and after the section m's entries g become es: p is what is
\* before them, q what is after them.
Spliced(secs, new, m, a, g, es, f, h, p, q) ==
  /\ p \in Seq(RowsOf) /\ q \in Seq(RowsOf)
  /\ Len(p) = FindModel(secs, m)[Root] + MeasureItems(Items(a), Measure(secs))
  /\ f[Root] = (p \o ItemRows(DOMAIN secs, g, secs[m].ns, f)) \o q
  /\ h[Root] = (p \o ItemRows(DOMAIN new, es, secs[m].ns, h)) \o q
  /\ g \in Seq(EntriesOf(DOMAIN secs)) /\ es \in Seq(EntriesOf(DOMAIN new))
  /\ Flats(DOMAIN secs, secs[m].ns, f) /\ Flats(DOMAIN new, secs[m].ns, h)

\* The rows of Root before and after a change are the same but for those of
\* the items that go and come, at the offset of the handler.
LEMMA FlatSpliced ==
  ASSUME NEW mu, NEW nu, NEW secs, NEW new, NEW m, NEW K, Regraft(mu, nu, secs, new, m, K),
         NEW f, IsFlat(mu, secs, f), NEW h, IsFlat(nu, new, h),
         NEW a \in Seq(Entries), NEW g \in Seq(Entries), NEW b \in Seq(Entries), NEW es \in Seq(Entries),
         mu[m] = (a \o g) \o b, nu[m] = (a \o es) \o b, LinksIn(a) \cup LinksIn(b) \subseteq K
  PROVE  \E p, q : Spliced(secs, new, m, a, g, es, f, h, p, q)
<1> DEFINE D == DOMAIN secs
           C == DOMAIN new
           V == Seq(RowsOf)
           ns == secs[m].ns
           measure == Measure(secs)
           n == FindModel(secs, m)[Root]
           A == ItemRows(D, a, ns, f)
           B == ItemRows(D, b, ns, f)
           G == ItemRows(D, g, ns, f)
           E == ItemRows(C, es, ns, h)
<1>1. /\ MenuOK(mu) /\ MenuOK(nu) /\ Tree(mu, secs) /\ Tree(nu, new) /\ m \in K /\ Root \in K /\ K \subseteq D /\ K \subseteq C
      /\ secs[Root].hasSep = FALSE /\ new[m].ns = ns
  BY DEF Regraft
<1>2. m \in D /\ m \in C
  BY <1>1
<1>3. n \in Nat /\ n # NotFound
  BY <1>1, <1>2, Found DEF NotFound
<1>4. PICK x \in V, y \in V :
        /\ Len(x) = n
        /\ f[Root] = (x \o ItemRows(D, mu[m], ns, f)) \o y
        /\ h[Root] = (x \o ItemRows(C, nu[m], ns, h)) \o y
  <2>1. Located(mu, nu, secs, new, m, f, h, Root)
    BY <1>1, <1>3, FlatLocated
  <2> QED BY <2>1, Zenon DEF Located
<1>5. f \in [D -> V] /\ h \in [C -> V]
  BY DEF IsFlat
<1>6. Flats(D, ns, f) /\ Flats(C, ns, h)
  BY <1>1, <1>2, <1>5, FlatsHere
<1>7. /\ LinksIn((a \o g) \o b) = LinksIn(a) \cup LinksIn(g) \cup LinksIn(b)
      /\ LinksIn((a \o es) \o b) = LinksIn(a) \cup LinksIn(es) \cup LinksIn(b)
  BY LinksInParts
<1>8. LinksIn(mu[m]) \subseteq D /\ LinksIn(nu[m]) \subseteq C
  BY <1>1, <1>2, TreeEntries
<1>9. /\ a \in Seq(EntriesOf(D)) /\ g \in Seq(EntriesOf(D)) /\ b \in Seq(EntriesOf(D))
      /\ a \in Seq(EntriesOf(C)) /\ es \in Seq(EntriesOf(C)) /\ b \in Seq(EntriesOf(C))
  <2>1. /\ LinksIn(a) \subseteq D /\ LinksIn(g) \subseteq D /\ LinksIn(b) \subseteq D
        /\ LinksIn(a) \subseteq C /\ LinksIn(es) \subseteq C /\ LinksIn(b) \subseteq C
    BY <1>7, <1>8
  <2> HIDE DEF D, C
  <2> QED BY <2>1, EntriesIn
<1>10. \A k \in LinksIn(a) \cup LinksIn(b) : f[k] = h[k]
  <2>1. \A k \in LinksIn(a) \cup LinksIn(b) : k \in K /\ k \in LinksIn(mu[m])
    BY <1>7
  <2>2. \A k \in LinksIn(a) \cup LinksIn(b) : FindModel(secs, m)[k] = NotFound
    BY <1>1, <1>2, <2>1, NotFoundUnder
  <2> QED BY <2>1, <2>2, FlatUnchanged
<1>11. Len(A) = MeasureItems(Items(a), measure)
  <2>1. Counts(D, f, measure)
    BY <1>1, FlatCount
  <2> HIDE DEF D, ns, measure
  <2> QED BY <1>6, <1>9, <2>1, ItemRowsCount
<1> HIDE DEF D, C, ns, measure, n
<1>12. ItemRows(C, a, ns, h) = A /\ ItemRows(C, b, ns, h) = B
  BY <1>9, <1>10, ItemRowsSame
<1>13. A \in V /\ B \in V /\ G \in V /\ E \in V
  BY <1>6, <1>9, ItemRowsTyped
<1>14. ItemRows(D, mu[m], ns, f) = (A \o G) \o B
  <2>1. RowsOfParts(D, a, g, b, ns, f)
    BY <1>6, <1>9, ItemRowsParts
  <2> QED BY <2>1, Zenon DEF RowsOfParts
<1>15. ItemRows(C, nu[m], ns, h) = (A \o E) \o B
  <2>1. RowsOfParts(C, a, es, b, ns, h)
    BY <1>6, <1>9, ItemRowsParts
  <2> QED BY <1>12, <2>1, Zenon DEF RowsOfParts
<1> HIDE DEF A, B, G, E
<1>16. RegroupedInside(x, A, G, B, y) /\ RegroupedInside(x, A, E, B, y)
  BY <1>13, RegroupInside
<1> DEFINE p == x \o A
           q == B \o y
<1>17. f[Root] = (p \o G) \o q /\ h[Root] = (p \o E) \o q
  BY <1>4, <1>14, <1>15, <1>16, Zenon DEF RegroupedInside
<1>18. p \in V /\ q \in V /\ Len(p) = Len(x) + Len(A)
  <2>1. x \in V /\ y \in V
    BY <1>4
  <2> QED BY <1>13, <2>1
<1>19. Len(p) = n + MeasureItems(Items(a), measure)
  BY <1>4, <1>11, <1>18 DEF A
<1> HIDE DEF p, q
<1>20. Spliced(secs, new, m, a, g, es, f, h, p, q)
  BY <1>6, <1>9, <1>17, <1>18, <1>19, Zenon DEF Spliced, D, C, ns, measure, n, V, G, E
<1> QED BY <1>20

-----------------------------------------------------------------------------
(* The rows when a section changes.                                        *)

\* The new sections N that entries bring have no separators yet.
Fresh(nu, new, es, N) ==
  /\ LinksIn(es) \subseteq N /\ N \subseteq DOMAIN new
  /\ \A k \in N : new[k].hasSep = FALSE /\ LinksIn(nu[k]) \subseteq N

\* The rest of a tree whose section m changes stays as it is.
Replanted(mu, nu, secs, new, m, a, b, es) ==
  \E K, N : Regraft(mu, nu, secs, new, m, K) /\ LinksIn(a) \cup LinksIn(b) \subseteq K /\ Fresh(nu, new, es, N)

\* A change is such a replanting: the lemmas on the rows apply.
LEMMA ChangeReplants ==
  ASSUME NEW mu, NEW nu, NEW secs, NEW m, NEW pos, NEW removed, NEW es, NEW a, NEW g, NEW b, NEW new,
         MenuOK(mu), MenuOK(nu), Tree(mu, secs), SeparatorsDue(mu, secs), m \in DOMAIN secs,
         Change(mu, nu, m, pos, removed, es), Changed(mu, nu, m, pos, removed, es, a, g, b),
         new = SectionsChanged(nu, secs, m, pos, removed, es)
  PROVE  Replanted(mu, nu, secs, new, m, a, b, es)
<1> DEFINE F == FreedBelow(secs, Items(g))
           K == DOMAIN secs \ F
           N == NewBelow(nu, es)
<1>1. Graft(mu, nu, secs, m, a, g, b, es, F, K, N)
  BY Grafted
<1>2. F = FreedBelow(secs, Items(g)) /\ N = NewBelow(nu, es) /\ K = DOMAIN secs \ F
  OBVIOUS
<1> HIDE DEF F, K, N
<1>3. Regrown(nu, secs, new, m, K, N) /\ Tree(nu, new)
  BY <1>1, <1>2, RegrownTree DEF SectionsChanged
<1>4. /\ m \in K /\ Root \in K /\ K \subseteq DOMAIN secs /\ LinksIn(a) \cup LinksIn(b) \subseteq K
      /\ LinksIn(es) \subseteq N /\ \A k \in N : LinksIn(nu[k]) \subseteq N
      /\ \A k \in K \ {m} : LinksIn(nu[k]) \subseteq K
  BY <1>1, <1>2 DEF Graft
<1>5. /\ DOMAIN new = K \cup N
      /\ \A k \in K \ {m} : new[k] = secs[k]
      /\ \A k \in K : new[k].ns = secs[k].ns /\ new[k].hasSep = secs[k].hasSep
      /\ \A k \in N : new[k].hasSep = FALSE
  BY <1>3 DEF Regrown
<1>6. secs[Root].hasSep = FALSE
  <2>1. Root \in DOMAIN secs /\ secs[Root] \in Section
    BY <1>4 DEF Tree
  <2>2. ~CouldHaveSeparator(mu, secs, Root)
    BY <2>1, CouldEntry
  <2>3. secs[Root].hasSep \in BOOLEAN
    BY <2>1 DEF Section
  <2> QED BY <2>1, <2>2, <2>3 DEF SeparatorsDue
<1>7. \A k \in K \ {m} : nu[k] = mu[k] /\ LinksIn(mu[k]) \subseteq K
  <2>1. DOMAIN secs \subseteq Models
    BY TreeHasShape DEF TreeShape
  <2> QED BY <1>4, <2>1 DEF Changed
<1>8. Regraft(mu, nu, secs, new, m, K)
  BY <1>3, <1>4, <1>5, <1>6, <1>7 DEF Regraft
<1>9. Fresh(nu, new, es, N)
  BY <1>4, <1>5 DEF Fresh
<1> QED BY <1>4, <1>8, <1>9 DEF Replanted

\* What a change makes of the rows, before they are synced.
Offset(secs, m, pos) == FindModel(secs, m)[Root] + MeasureItems(SubSeq(secs[m].items, 1, pos), Measure(secs))
Gone(secs, m, pos, removed) == MeasureItems(SubSeq(secs[m].items, pos + 1, pos + removed), Measure(secs))
Exchange(rs, offset, n, more) == AddRows(RemoveRows(rs, offset, n), offset, more)
RowsChanged(nu, secs, new, rs, m, pos, removed, es) ==
  Exchange(rs, Offset(secs, m, pos), Gone(secs, m, pos, removed), AddedRows(es, secs[m].ns, MadeRows(nu, new)))

\* The rows of the new sections are as many as they measure.
LEMMA AddedCount ==
  ASSUME NEW nu, NEW new, NEW N, NEW ns, NEW h, NEW es \in Seq(Entries), MenuOK(nu), Tree(nu, new),
         new[Root].hasSep = FALSE, IsFlat(nu, new, h), Flats(DOMAIN new, ns, h), Fresh(nu, new, es, N)
  PROVE  /\ AddedRows(es, ns, MadeRows(nu, new)) \in Seq(RowsOf)
         /\ Len(AddedRows(es, ns, MadeRows(nu, new))) = MeasureItems(Items(es), Measure(new))
<1> DEFINE made == MadeRows(nu, new)
           D == DOMAIN new
           measure == Measure(new)
           flat == [k \in D |-> IF k \in N THEN made[k] ELSE h[k]]
<1>0. /\ LinksIn(es) \subseteq N /\ N \subseteq D
      /\ \A k \in N : new[k].hasSep = FALSE /\ LinksIn(nu[k]) \subseteq N
  BY DEF Fresh
<1>1. \A k \in N : Len(made[k]) = measure[k]
  BY <1>0, MadeCount
<1>2. Counts(D, h, measure)
  BY FlatCount
<1>3. made \in [D -> Seq(RowsOf)]
  BY MadeSolved DEF IsMade
<1>4. D \subseteq Models /\ ns \in Namespaces /\ h \in [D -> Seq(RowsOf)]
  BY DEF Flats
<1>5. es \in Seq(EntriesOf(D))
  BY <1>0, EntriesIn
<1> HIDE DEF made, measure
<1>6. flat \in [D -> Seq(RowsOf)] /\ \A k \in N : flat[k] = made[k]
  BY <1>0, <1>3, <1>4
<1>7. Counts(D, flat, measure)
  BY <1>0, <1>1, <1>2 DEF Counts
<1> HIDE DEF flat, D
<1>8. Flats(D, ns, flat)
  BY <1>4, <1>6 DEF Flats
<1>9. AddedRows(es, ns, made) = AddedRows(es, ns, flat)
  BY <1>0, <1>6, AddedRowsSame
<1>10. AddedRows(es, ns, flat) \in Seq(RowsOf) /\ Len(AddedRows(es, ns, flat)) = MeasureItems(Items(es), measure)
  BY <1>5, <1>7, <1>8, AddedRowsTyped, AddedRowsCount
<1> QED BY <1>9, <1>10 DEF made, measure

\* Rows that go, and others that come where they were.
Exchanges(rs, offset, n, more) ==
  /\ Exchange(rs, offset, n, more) \in Seq(RowsOf)
  /\ offset + n <= Len(rs) => Len(Exchange(rs, offset, n, more)) = (Len(rs) - n) + Len(more)

\* Removing rows and adding others, by their numbers.
LEMMA Exchanged ==
  ASSUME NEW rs \in Seq(RowsOf), NEW more \in Seq(RowsOf), NEW offset \in Nat, NEW n \in Nat
  PROVE  Exchanges(rs, offset, n, more)
<1> DEFINE r == RemoveRows(rs, offset, n)
<1>1. r \in Seq(RowsOf) /\ (offset + n <= Len(rs) => Len(r) = Len(rs) - n)
  BY RemoveRowsTyped
<1> HIDE DEF r
<1>2. AddRows(r, offset, more) \in Seq(RowsOf) /\ Len(AddRows(r, offset, more)) = Len(r) + Len(more)
  BY <1>1, AddRowsTyped
<1> QED BY <1>1, <1>2 DEF Exchange, Exchanges, r

\* The number of rows in three parts.
Long(p, g, q) == Len((p \o g) \o q) = Len(p) + Len(g) + Len(q)

\* The length of three parts.
LEMMA ThreeLong ==
  ASSUME NEW A, NEW p \in Seq(A), NEW g \in Seq(A), NEW q \in Seq(A)
  PROVE  Long(p, g, q)
BY DEF Long

\* When there are as many rows as the sections measure, there are so many afterwards.
LEMMA RowsChangedCount ==
  ASSUME NEW mu, NEW nu, NEW secs, NEW m, NEW pos, NEW removed, NEW es, NEW new, NEW rs \in Seq(RowsOf),
         MenuOK(mu), MenuOK(nu), Tree(mu, secs), SeparatorsDue(mu, secs), m \in DOMAIN secs,
         Change(mu, nu, m, pos, removed, es), new = SectionsChanged(nu, secs, m, pos, removed, es)
  PROVE  /\ RowsChanged(nu, secs, new, rs, m, pos, removed, es) \in Seq(RowsOf)
         /\ Len(rs) = Measure(secs)[Root] =>
              Len(RowsChanged(nu, secs, new, rs, m, pos, removed, es)) = Measure(new)[Root]
<1> DEFINE D == DOMAIN secs
           C == DOMAIN new
           ns == secs[m].ns
           offset == Offset(secs, m, pos)
           n == Gone(secs, m, pos, removed)
           added == AddedRows(es, ns, MadeRows(nu, new))
           V == Seq(RowsOf)
<1>1. PICK a, g, b : Changed(mu, nu, m, pos, removed, es, a, g, b)
  BY ChangeParts
<1>2. PICK K, N : Regraft(mu, nu, secs, new, m, K) /\ LinksIn(a) \cup LinksIn(b) \subseteq K /\ Fresh(nu, new, es, N)
  <2>1. Replanted(mu, nu, secs, new, m, a, b, es)
    BY <1>1, ChangeReplants
  <2> QED BY <2>1 DEF Replanted
<1>3. /\ a \in Seq(Entries) /\ g \in Seq(Entries) /\ b \in Seq(Entries) /\ es \in Seq(Entries)
      /\ mu[m] = (a \o g) \o b /\ nu[m] = (a \o es) \o b /\ Parted(Entries, mu[m], pos, removed, a, g, b)
  BY <1>1 DEF Changed
<1>4. /\ Tree(nu, new) /\ secs[Root].hasSep = FALSE /\ new[Root].hasSep = FALSE
      /\ Root \in DOMAIN secs /\ Root \in DOMAIN new
  BY <1>2 DEF Regraft
<1>5. PICK f : IsFlat(mu, secs, f)
  BY <1>4, FlatThere
<1>6. PICK h : IsFlat(nu, new, h)
  BY <1>4, FlatThere
<1>7. PICK p, q : Spliced(secs, new, m, a, g, es, f, h, p, q)
  BY <1>2, <1>3, <1>5, <1>6, FlatSpliced
<1> DEFINE G == ItemRows(D, g, ns, f)
           E == ItemRows(C, es, ns, h)
<1>8. /\ p \in V /\ q \in V
      /\ Len(p) = FindModel(secs, m)[Root] + MeasureItems(Items(a), Measure(secs))
      /\ f[Root] = (p \o G) \o q /\ h[Root] = (p \o E) \o q
      /\ g \in Seq(EntriesOf(D)) /\ es \in Seq(EntriesOf(C)) /\ Flats(D, ns, f) /\ Flats(C, ns, h)
  BY <1>7 DEF Spliced
<1>9. Counts(D, f, Measure(secs)) /\ Counts(C, h, Measure(new))
  BY <1>4, <1>5, <1>6, FlatCount
<1>10. offset = Len(p) /\ n = MeasureItems(Items(g), Measure(secs))
  <2>1. m \in Models /\ secs[m].items = Items(mu[m]) /\ mu[m] \in Seq(Entries)
    BY TreeEntries DEF Tree
  <2>2. pos \in Nat /\ removed \in Nat /\ pos + removed <= Len(mu[m])
    BY DEF Change
  <2>3. Parted(Models \cup {NoLink}, Items(mu[m]), pos, removed, Items(a), Items(g), Items(b))
    BY <1>3, <2>1, <2>2, ItemsParted
  <2>4. Items(a) = SubSeq(secs[m].items, 1, pos) /\ Items(g) = SubSeq(secs[m].items, pos + 1, pos + removed)
    BY <2>1, <2>3 DEF Parted
  <2> QED BY <1>8, <2>4 DEF Offset, Gone
<1>11. added \in V /\ Len(added) = MeasureItems(Items(es), Measure(new))
  BY <1>2, <1>3, <1>4, <1>6, <1>8, AddedCount
<1>12. Len(f[Root]) = Measure(secs)[Root] /\ Len(h[Root]) = Measure(new)[Root]
  BY <1>4, <1>9 DEF Counts
<1> HIDE DEF D, C, ns, offset, n, added
<1>13. G \in V /\ E \in V /\ Len(G) = n /\ Len(E) = Len(added)
  BY <1>8, <1>9, <1>10, <1>11, ItemRowsTyped, ItemRowsCount
<1> HIDE DEF G, E
<1>14. Len(f[Root]) = Len(p) + Len(G) + Len(q) /\ Len(h[Root]) = Len(p) + Len(E) + Len(q)
  <2>1. p \in V /\ q \in V
    BY <1>8
  <2>2. Long(p, G, q) /\ Long(p, E, q)
    BY <1>13, <2>1, ThreeLong
  <2>3. f[Root] = (p \o G) \o q /\ h[Root] = (p \o E) \o q
    BY <1>8 DEF G, E
  <2> QED BY <2>2, <2>3, Zenon DEF Long
<1>15. offset \in Nat /\ n \in Nat /\ Len(q) \in Nat /\ Len(added) \in Nat
  BY <1>8, <1>10, <1>11, <1>13
<1> DEFINE r == Exchange(rs, offset, n, added)
<1>16. r \in V /\ (offset + n <= Len(rs) => Len(r) = (Len(rs) - n) + Len(added))
  <2>1. rs \in V /\ added \in V /\ offset \in Nat /\ n \in Nat
    BY <1>11, <1>15
  <2>2. Exchanges(rs, offset, n, added)
    BY <2>1, Exchanged
  <2> QED BY <2>2, Zenon DEF Exchanges
<1>17. r = RowsChanged(nu, secs, new, rs, m, pos, removed, es)
  BY Zenon DEF RowsChanged, offset, n, added, ns
<1> HIDE DEF r
<1>18. Len(rs) = Measure(secs)[Root] => Len(r) = Measure(new)[Root]
  <2> DEFINE i == Measure(secs)[Root]
             j == Measure(new)[Root]
             l == Len(rs)
             c == Len(added)
             u == Len(p)
             v == Len(q)
  <2>1. i = u + n + v /\ j = u + c + v
    BY <1>12, <1>13, <1>14
  <2>2. offset = u /\ (offset + n <= l => Len(r) = (l - n) + c)
    BY <1>10, <1>16
  <2>3. u \in Nat /\ n \in Nat /\ v \in Nat /\ c \in Nat
    BY <1>10, <1>15
  <2> HIDE DEF i, j, l, c, u, v
  <2>4. l = i => Len(r) = j
    BY <2>1, <2>2, <2>3
  <2> QED BY <2>4 DEF i, j, l
<1> QED BY <1>16, <1>17, <1>18

-----------------------------------------------------------------------------
(* The number of rows that a sync leaves.                                  *)

\* The measure of the first k list items.
Prefix(items, f, k) == MeasureItems(SubSeq(items, 1, k), f)
Unit(x, f) == IF x = NoLink THEN 1 ELSE f[x]

\* The measure of the items before one grows item by item.
LEMMA PrefixGrows ==
  ASSUME NEW T, NEW f, Measures(T, f), NEW items \in Seq(T)
  PROVE  /\ Prefix(items, f, 0) = 0 /\ Prefix(items, f, Len(items)) = MeasureItems(items, f)
         /\ \A k \in 0..Len(items) : Prefix(items, f, k) \in Nat /\ Prefix(items, f, k) <= MeasureItems(items, f)
         /\ \A k \in 0..(Len(items) - 1) : Prefix(items, f, k + 1) = Prefix(items, f, k) + Unit(items[k + 1], f)
<1>0. Len(items) \in Nat
  OBVIOUS
<1>1. Prefix(items, f, 0) = 0
  <2>1. SubSeq(items, 1, 0) = <<>>
    OBVIOUS
  <2> QED BY <2>1, MeasureNone DEF Prefix
<1>2. Prefix(items, f, Len(items)) = MeasureItems(items, f)
  <2>1. SubSeq(items, 1, Len(items)) = items
    OBVIOUS
  <2> QED BY <2>1 DEF Prefix
<1>3. ASSUME NEW k \in 0..Len(items)
      PROVE  Prefix(items, f, k) \in Nat /\ Prefix(items, f, k) <= MeasureItems(items, f)
  <2> DEFINE s == SubSeq(items, 1, k)
             t == SubSeq(items, k + 1, Len(items))
  <2>1. s \in Seq(T) /\ t \in Seq(T)
    BY <1>0
  <2>2. s \o t = items
    <3>1. 1 \in 1..(Len(items) + 1) /\ k \in (1 - 1)..Len(items) /\ Len(items) \in k..Len(items)
      BY <1>0
    <3>2. s \o t = SubSeq(items, 1, Len(items))
      BY <3>1, ConcatAdjacentSubSeq
    <3>3. SubSeq(items, 1, Len(items)) = items
      OBVIOUS
    <3> QED BY <3>2, <3>3
  <2> HIDE DEF s, t
  <2>3. MeasureItems(s, f) \in Nat /\ MeasureItems(t, f) \in Nat
        /\ MeasureItems(items, f) = MeasureItems(s, f) + MeasureItems(t, f)
    BY <2>1, <2>2, MeasureConcat
  <2>4. MeasureItems(s, f) <= MeasureItems(items, f)
    BY <2>3
  <2> QED BY <2>3, <2>4 DEF Prefix, s
<1>4. ASSUME NEW k \in 0..(Len(items) - 1)
      PROVE  Prefix(items, f, k + 1) = Prefix(items, f, k) + Unit(items[k + 1], f)
  <2> DEFINE s == SubSeq(items, 1, k)
             x == items[k + 1]
  <2>1. s \in Seq(T) /\ x \in T
    BY <1>0
  <2>2. SubSeq(items, 1, k + 1) = s \o <<x>>
    <3>1. SubSeq(items, 1, k + 1) \in Seq(T) /\ s \o <<x>> \in Seq(T)
          /\ Len(SubSeq(items, 1, k + 1)) = k + 1 /\ Len(s \o <<x>>) = k + 1
      BY <1>0, <2>1
    <3>2. \A i \in 1..(k + 1) : SubSeq(items, 1, k + 1)[i] = (s \o <<x>>)[i]
      BY <1>0, <2>1
    <3> QED BY <3>1, <3>2, SeqEqual
  <2> HIDE DEF s, x
  <2>3. <<x>> \in Seq(T)
    BY <2>1
  <2> DEFINE y == <<x>>
  <2>4. MeasureItems(y, f) = Unit(x, f)
    BY <2>1, MeasureOne DEF Unit
  <2> HIDE DEF y
  <2>5. MeasureItems(s \o y, f) = MeasureItems(s, f) + MeasureItems(y, f)
    BY <2>1, <2>3, MeasureConcat DEF y
  <2> QED BY <2>2, <2>4, <2>5 DEF Prefix, s, x, y
<1> QED BY <1>1, <1>2, <1>3, <1>4

\* A call changes the number of rows of x from the one measure to the other.
Shifts(x, f, h, g) ==
  \A o \in Nat, r \in Seq(RowsOf) :
    o + f[x] <= Len(r) => Len(g[Call(x, o, r)]) + f[x] = Len(r) + h[x]

\* So all calls for list items do.
LEMMA InsideCount ==
  ASSUME NEW T, NEW items \in Seq(T), NEW f, Measures(T, f), NEW h, Measures(T, h), NEW g, Acts(items, g),
         \A i \in DOMAIN items : items[i] # NoLink => Shifts(items[i], f, h, g),
         NEW offset \in Nat, NEW rs \in Seq(RowsOf), offset + MeasureItems(items, f) <= Len(rs)
  PROVE  LET r == SyncedInside(items, h, g, offset, rs)
         IN  r \in Seq(RowsOf) /\ Len(r) + MeasureItems(items, f) = Len(rs) + MeasureItems(items, h)
<1>1. PICK t : IsInside(items, h, g, offset, rs, t) /\ SyncedInside(items, h, g, offset, rs) = t[Len(items)]
  BY InsideSolved
<1>2. /\ t \in [0..Len(items) -> Seq(RowsOf)] /\ t[0] = rs
      /\ \A i \in 1..Len(items) :
           t[i] = IF items[i] = NoLink THEN t[i - 1] ELSE g[Call(items[i], Due(items, h, offset, i), t[i - 1])]
  BY <1>1 DEF IsInside
<1>3. Len(items) \in Nat /\ DOMAIN items = 1..Len(items) /\ Len(rs) \in Nat
  OBVIOUS
<1>4. /\ Prefix(items, f, 0) = 0 /\ Prefix(items, f, Len(items)) = MeasureItems(items, f)
      /\ \A k \in 0..Len(items) : Prefix(items, f, k) \in Nat /\ Prefix(items, f, k) <= MeasureItems(items, f)
      /\ \A k \in 0..(Len(items) - 1) : Prefix(items, f, k + 1) = Prefix(items, f, k) + Unit(items[k + 1], f)
  BY PrefixGrows
<1>5. /\ Prefix(items, h, 0) = 0 /\ Prefix(items, h, Len(items)) = MeasureItems(items, h)
      /\ \A k \in 0..Len(items) : Prefix(items, h, k) \in Nat
      /\ \A k \in 0..(Len(items) - 1) : Prefix(items, h, k + 1) = Prefix(items, h, k) + Unit(items[k + 1], h)
  BY PrefixGrows
<1> DEFINE P == {k \in 0..Len(items) : Len(t[k]) + Prefix(items, f, k) = Len(rs) + Prefix(items, h, k)}
<1>6. 0 \in P
  BY <1>2, <1>3, <1>4, <1>5
<1>7. ASSUME NEW k \in 0..(Len(items) - 1), k \in P PROVE k + 1 \in P
  <2> DEFINE x == items[k + 1]
             l == Len(t[k])
             d == offset + Prefix(items, h, k)
             pf == Prefix(items, f, k)
             ph == Prefix(items, h, k)
             m == MeasureItems(items, f)
             n == Len(t[k + 1])
             lr == Len(rs)
             uf == Unit(x, f)
             uh == Unit(x, h)
  <2>1. k \in 0..Len(items) /\ k + 1 \in 1..Len(items) /\ k + 1 \in 0..Len(items) /\ (k + 1) - 1 = k
    BY <1>3
  <2>2. t[k] \in Seq(RowsOf) /\ l \in Nat /\ x \in T
    BY <1>2, <2>1
  <2>3. t[k + 1] = IF x = NoLink THEN t[k] ELSE g[Call(x, d, t[k])]
    BY <1>2, <2>1 DEF Due, Prefix
  <2>4. l + pf = Len(rs) + ph /\ pf \in Nat /\ ph \in Nat /\ offset + m <= Len(rs) /\ m \in Nat /\ offset \in Nat
    <3>1. m \in Nat
      BY <1>3, <1>4
    <3> QED BY <1>4, <1>5, <1>7, <2>1, <3>1
  <2>5. /\ Prefix(items, f, k + 1) = pf + Unit(x, f) /\ Prefix(items, h, k + 1) = ph + Unit(x, h)
        /\ pf + Unit(x, f) <= m
    <3>1. Prefix(items, f, k + 1) <= m
      BY <1>4, <2>1
    <3> QED BY <1>4, <1>5, <3>1
  <2>6. n + (pf + uf) = lr + (ph + uh)
    <3>1. CASE x = NoLink
      <4>1. n = l /\ uf = 1 /\ uh = 1
        BY <2>3, <3>1 DEF Unit
      <4>2. l + pf = lr + ph /\ pf \in Nat /\ ph \in Nat /\ l \in Nat /\ lr \in Nat
        BY <1>3, <2>2, <2>4
      <4> HIDE DEF n, l, pf, ph, lr, uf, uh
      <4> QED BY <4>1, <4>2
    <3>2. CASE x # NoLink
      <4>1. Unit(x, f) = f[x] /\ Unit(x, h) = h[x] /\ f[x] \in Nat /\ h[x] \in Nat
        BY <2>2, <3>2 DEF Unit, Measures
      <4>2. Shifts(x, f, h, g)
        BY <1>3, <2>1, <3>2
      <4>3. d \in Nat
        BY <2>4
      <4>4. d + f[x] <= l
        <5> HIDE DEF l, pf, m, x
        <5>1. pf + f[x] <= m
          BY <2>5, <4>1
        <5>2. d = offset + ph
          OBVIOUS
        <5> HIDE DEF ph, d
        <5> QED BY <1>3, <2>2, <2>4, <4>1, <4>3, <5>1, <5>2
      <4>5. Len(g[Call(x, d, t[k])]) + f[x] = l + h[x]
        <5> HIDE DEF d, x
        <5> QED BY <2>2, <4>2, <4>3, <4>4 DEF Shifts
      <4>6. n + f[x] = l + h[x]
        BY <2>3, <3>2, <4>5
      <4>7. n \in Nat
        BY <1>2, <2>1
      <4> DEFINE a == f[x]
                 b == h[x]
      <4>8. uf = a /\ uh = b /\ a \in Nat /\ b \in Nat /\ n + a = l + b /\ n \in Nat
        BY <4>1, <4>6, <4>7
      <4>9. l + pf = lr + ph /\ pf \in Nat /\ ph \in Nat /\ l \in Nat /\ lr \in Nat
        BY <1>3, <2>2, <2>4
      <4> HIDE DEF n, l, pf, ph, lr, uf, uh, a, b
      <4> QED BY <4>8, <4>9
    <3> QED BY <3>1, <3>2
  <2>7. n + Prefix(items, f, k + 1) = Len(rs) + Prefix(items, h, k + 1)
    BY <2>5, <2>6
  <2> QED BY <2>1, <2>7
<1> HIDE DEF P
<1>8. \A k \in 0..Len(items) : k \in P
  BY <1>3, <1>6, <1>7, UpTo
<1>9. Len(items) \in P /\ Len(items) \in 0..Len(items)
  BY <1>3, <1>8
<1> QED BY <1>1, <1>2, <1>4, <1>5, <1>9 DEF P

\* Showing or hiding a section's separator.
LEMMA ShownCount ==
  ASSUME NEW mu, NEW secs, MenuOK(mu), Tree(mu, secs), NEW m \in DOMAIN secs,
         NEW offset \in Nat, NEW r \in Seq(RowsOf),
         secs[m].hasSep => offset + 1 <= Len(r)
  PROVE  Len(ShowSeparator(mu, secs, m, offset, r)) + Separator(secs[m])
         = Len(r) + (IF ShouldHaveSeparator(mu, secs, m) THEN 1 ELSE 0)
<1> DEFINE should == ShouldHaveSeparator(mu, secs, m)
           has == secs[m].hasSep
           s == ShowSeparator(mu, secs, m, offset, r)
<1>1. s = (CASE should /\ ~has -> AddRows(r, offset, SeparatorOf(m))
             [] ~should /\ has -> RemoveRows(r, offset, 1)
             [] OTHER -> r)
  BY Zenon DEF ShowSeparator, SeparatorOf
<1>2. should => Len(AddRows(r, offset, SeparatorOf(m))) = Len(r) + 1
  <2> SUFFICES ASSUME should PROVE Len(AddRows(r, offset, SeparatorOf(m))) = Len(r) + 1
    OBVIOUS
  <2>1. SeparatorOf(m) \in Seq(RowsOf) /\ Len(SeparatorOf(m)) = 1
    BY CouldEntry, SeparatorTyped DEF ShouldHaveSeparator
  <2>2. Len(AddRows(r, offset, SeparatorOf(m))) = Len(r) + Len(SeparatorOf(m))
    BY <2>1, AddRowsTyped
  <2> QED BY <2>1, <2>2
<1>3. has => Len(RemoveRows(r, offset, 1)) = Len(r) - 1
  <2>1. 1 \in Nat
    OBVIOUS
  <2> QED BY <2>1, RemoveRowsTyped
<1>4. has \in BOOLEAN /\ should \in BOOLEAN /\ Len(r) \in Nat /\ Separator(secs[m]) = IF has THEN 1 ELSE 0
  <2>1. has \in BOOLEAN
    BY TreeNested, ItemsTyped
  <2>2. should \in BOOLEAN
    BY DEF ShouldHaveSeparator
  <2>3. Separator(secs[m]) = IF has THEN 1 ELSE 0
    BY DEF Separator
  <2> QED BY <2>1, <2>2, <2>3
<1> HIDE DEF should, has, s
<1>5. CASE should /\ ~has
  BY <1>1, <1>2, <1>4, <1>5 DEF should, s
<1>6. CASE ~should /\ has
  BY <1>1, <1>3, <1>4, <1>6 DEF should, s
<1>7. CASE should <=> has
  <2>1. s = r
    BY <1>1, <1>7
  <2> QED BY <1>4, <1>7, <2>1 DEF should, s
<1> QED BY <1>4, <1>5, <1>6, <1>7

\* A sync changes the number of rows of a section from what it measures to what it
\* should measure.
LEMMA SyncCount ==
  ASSUME NEW mu, NEW secs, MenuOK(mu), Tree(mu, secs)
  PROVE  \A m \in DOMAIN secs : Shifts(m, Measure(secs), SyncedMeasure(mu, secs), SyncedRows(mu, secs))
<1> DEFINE D == DOMAIN secs
           T == ListItems(secs)
           f == Measure(secs)
           h == SyncedMeasure(mu, secs)
           g == SyncedRows(mu, secs)
           rank == HeightOf(secs)
           P == {m \in D : Shifts(m, f, h, g)}
<1>0. Nested(secs)
  BY TreeNested
<1>1. f \in [D -> Nat] /\ \A m \in D : f[m] = Separator(secs[m]) + MeasureItems(secs[m].items, f)
  BY <1>0, MeasureSolved DEF IsMeasure
<1>2. /\ h \in [D -> Nat]
      /\ \A m \in D : h[m] = MeasureItems(secs[m].items, h)
           + (IF CouldHaveSeparator(mu, secs, m) /\ MeasureItems(secs[m].items, h) # 0 THEN 1 ELSE 0)
  BY <1>0, SyncedMeasureSolved DEF IsSyncedMeasure
<1>3. /\ g \in [Calls(secs) -> Seq(RowsOf)]
      /\ \A c \in Calls(secs) : g[c] = ShowSeparator(mu, secs, c.section, c.offset,
                                         SyncedInside(secs[c.section].items, h, g, c.offset, c.rows))
  BY SyncedRowsSolved DEF IsSyncedRows
<1>4. \A m \in D : ShouldHaveSeparator(mu, secs, m) <=> CouldHaveSeparator(mu, secs, m) /\ h[m] # 0
  BY DEF ShouldHaveSeparator
<1>5. rank \in [D -> Nat] /\ \A m \in D : rank[m] = Height[m]
  BY <1>0, HeightTyped DEF HeightOf
<1>6. Measures(T, f) /\ Measures(T, h)
  BY <1>1, <1>2, MeasuresListItems
<1>7. CallsIn(secs)
  BY CallsAre, Zenon
<1> HIDE DEF f, h, g, rank, T
<1>8. ASSUME NEW m \in D, \A k \in D : rank[k] < rank[m] => k \in P PROVE m \in P
  <2> DEFINE items == secs[m].items
             A == MeasureItems(items, f)
             B == MeasureItems(items, h)
             sep == Separator(secs[m])
  <2>1. /\ items \in Seq(T)
        /\ \A i \in DOMAIN items : items[i] # NoLink => items[i] \in D /\ Height[items[i]] < Height[m]
    BY SectionMeasured DEF T
  <2>2. A \in Nat /\ B \in Nat
    BY <1>6, <2>1, MeasureConcat
  <2>3. \A i \in DOMAIN items : items[i] # NoLink => Shifts(items[i], f, h, g)
    <3>1. \A i \in DOMAIN items : items[i] # NoLink => items[i] \in P
      BY <1>5, <1>8, <2>1
    <3> QED BY <3>1
  <2>4. Acts(items, g)
    <3>1. \A k \in D, o \in Nat, r \in Seq(RowsOf) : Call(k, o, r) \in Calls(secs)
      BY <1>7, Zenon DEF CallsIn
    <3>2. \A k \in D, o \in Nat, r \in Seq(RowsOf) : g[Call(k, o, r)] \in Seq(RowsOf)
      BY <1>3, <3>1
    <3> QED BY <2>1, <3>2 DEF Acts
  <2>5. sep \in {0, 1} /\ (secs[m].hasSep => sep = 1)
    BY DEF Separator
  <2>6. f[m] = sep + A /\ h[m] = B + (IF CouldHaveSeparator(mu, secs, m) /\ B # 0 THEN 1 ELSE 0)
    BY <1>1, <1>2
  <2>7. h[m] = B + (IF ShouldHaveSeparator(mu, secs, m) THEN 1 ELSE 0)
    <3> DEFINE could == CouldHaveSeparator(mu, secs, m)
               should == ShouldHaveSeparator(mu, secs, m)
    <3>1. (should <=> could /\ h[m] # 0) /\ h[m] = B + (IF could /\ B # 0 THEN 1 ELSE 0)
      BY <1>4, <2>6
    <3> HIDE DEF could, should, B
    <3>2. should <=> could /\ B # 0
      BY <2>2, <3>1
    <3>3. h[m] = B + (IF should THEN 1 ELSE 0)
      BY <3>1, <3>2
    <3> QED BY <3>3 DEF should
  <2>8. ASSUME NEW o \in Nat, NEW rs \in Seq(RowsOf), o + f[m] <= Len(rs)
        PROVE  Len(g[Call(m, o, rs)]) + f[m] = Len(rs) + h[m]
    <3> DEFINE c == Call(m, o, rs)
               r == SyncedInside(items, h, g, o, rs)
    <3>1. c \in Calls(secs) /\ c.section = m /\ c.offset = o /\ c.rows = rs
      BY CallIs
    <3>2. g[c] = ShowSeparator(mu, secs, m, o, r)
      BY <1>3, <3>1
    <3>3. o + A <= Len(rs) /\ Len(rs) \in Nat
      <4> HIDE DEF A, sep
      <4> QED BY <2>2, <2>5, <2>6, <2>8
    <3> HIDE DEF c, items
    <3>4. r \in Seq(RowsOf) /\ Len(r) + A = Len(rs) + B
      BY <1>6, <2>1, <2>3, <2>4, <3>3, InsideCount
    <3> HIDE DEF r
    <3>5. secs[m].hasSep => o + 1 <= Len(r)
      <4>1. Len(r) \in Nat
        BY <3>4
      <4>2. secs[m].hasSep => o + (1 + A) <= Len(rs)
        BY <2>5, <2>6, <2>8
      <4> HIDE DEF A, B
      <4> QED BY <2>2, <3>3, <3>4, <4>1, <4>2
    <3>6. Len(g[c]) + sep = Len(r) + (IF ShouldHaveSeparator(mu, secs, m) THEN 1 ELSE 0)
      BY <3>2, <3>4, <3>5, ShownCount
    <3>7. Len(g[c]) \in Nat /\ Len(r) \in Nat
      BY <1>3, <3>1, <3>4
    <3>8. Len(g[c]) + f[m] = Len(rs) + h[m]
      <4> DEFINE n == Len(g[c])
                 l == Len(r)
                 u == IF ShouldHaveSeparator(mu, secs, m) THEN 1 ELSE 0
                 v == Len(rs)
                 x == f[m]
                 y == h[m]
      <4>1. x = sep + A /\ y = B + u /\ n + sep = l + u /\ l + A = v + B
        BY <2>6, <2>7, <3>4, <3>6
      <4>2. n \in Nat /\ l \in Nat /\ u \in Nat /\ v \in Nat /\ A \in Nat /\ B \in Nat /\ sep \in Nat
        BY <2>2, <2>5, <3>3, <3>7
      <4>3. n + x = v + y
        <5> HIDE DEF n, l, u, v, x, y, A, B, sep
        <5> QED BY <4>1, <4>2
      <4> QED BY <4>3
    <3> QED BY <3>8 DEF c
  <2>9. Shifts(m, f, h, g)
    BY <2>8 DEF Shifts
  <2> QED BY <2>9
<1> HIDE DEF P
<1>9. \A m \in D : m \in P
  BY <1>5, <1>8, RankInduction
<1> QED BY <1>9 DEF P, f, h, g

\* The rows that a sync leaves of as many as are measured are as many as are then
\* measured.
LEMMA SyncKeepsCount ==
  ASSUME NEW mu, NEW secs, MenuOK(mu), Tree(mu, secs), NEW rs \in Seq(RowsOf)
  PROVE  LET t == SyncSeparators(mu, secs, rs)
         IN  t.rows \in Seq(RowsOf) /\ (Len(rs) = Measure(secs)[Root] => Len(t.rows) = Measure(t.sections)[Root])
<1> DEFINE g == SyncedRows(mu, secs)
           c == Call(Root, 0, rs)
           f == Measure(secs)
           h == SyncedMeasure(mu, secs)
           t == SyncSeparators(mu, secs, rs)
<1>1. Root \in DOMAIN secs /\ 0 \in Nat
  BY TreeHasShape DEF TreeShape
<1>2. c \in Calls(secs)
  BY <1>1, CallIs
<1>3. g \in [Calls(secs) -> Seq(RowsOf)]
  BY SyncedRowsSolved DEF IsSyncedRows
<1>4. t.rows = g[c] /\ t.sections = SectionsSynced(mu, secs)
  BY DEF SyncSeparators
<1>5. Measure(t.sections) = h
  BY <1>4, SyncedTree
<1>6. f \in [DOMAIN secs -> Nat] /\ h \in [DOMAIN secs -> Nat]
  BY TreeNested, MeasureSolved, SyncedMeasureSolved DEF IsMeasure, IsSyncedMeasure
<1>7. Shifts(Root, f, h, g)
  BY <1>1, SyncCount
<1>8. ASSUME Len(rs) = f[Root] PROVE Len(g[c]) = h[Root]
  <2>1. f[Root] \in Nat /\ h[Root] \in Nat /\ g[c] \in Seq(RowsOf)
    BY <1>1, <1>2, <1>3, <1>6
  <2>2. Len(g[c]) \in Nat
    BY <2>1
  <2> HIDE DEF f, h, g
  <2>3. 0 + f[Root] <= Len(rs)
    BY <1>8, <2>1
  <2>4. Len(g[c]) + f[Root] = Len(rs) + h[Root]
    BY <1>7, <2>3 DEF Shifts
  <2> HIDE DEF c
  <2> QED BY <1>8, <2>1, <2>2, <2>4
<1>9. g[c] \in Seq(RowsOf)
  BY <1>2, <1>3
<1> HIDE DEF g, c, f, h, t
<1> QED BY <1>4, <1>5, <1>8, <1>9 DEF f, t

-----------------------------------------------------------------------------
(* The measure is that of the rows.                                        *)

\* The rows that go in when the first sections are made are as many as they measure.
LEMMA StartCount ==
  ASSUME NEW mu, MenuOK(mu)
  PROVE  LET t == TrackerNew(mu)
         IN  t.rows \in Seq(RowsOf) /\ Len(t.rows) = Measure(t.sections)[Root]
<1> DEFINE none == <<>>
           new == SectionsNew(mu, none, {Root})
           rs == MadeRows(mu, new)[Root]
           N == DOMAIN new
<1>1. Tree(mu, new) /\ \A k \in N : new[k].hasSep = FALSE
  BY StartTree
<1>2. TrackerNew(mu) = SyncSeparators(mu, new, rs)
  BY DEF TrackerNew
<1> HIDE DEF new
<1>3. Root \in N /\ \A k \in N : LinksIn(mu[k]) \subseteq N
  BY <1>1, TreeHasShape DEF TreeShape
<1>4. \A k \in N : Len(MadeRows(mu, new)[k]) = Measure(new)[k]
  BY <1>1, <1>3, MadeCount
<1>5. rs \in Seq(RowsOf)
  BY <1>1, <1>3, MadeSolved DEF IsMade
<1> HIDE DEF rs
<1>6. Len(rs) = Measure(new)[Root]
  BY <1>3, <1>4 DEF rs
<1> QED BY <1>1, <1>2, <1>5, <1>6, SyncKeepsCount

\* The inductive invariant: the tree mirrors the menu, and measures the rows.
Counted == Mirrors /\ rows \in Seq(RowsOf) /\ Len(rows) = Measure(sections)[Root]

\* There are as many rows as the first sections measure.
LEMMA CountedInit == Init => Counted
<1> SUFFICES ASSUME Init PROVE Counted
  OBVIOUS
<1>1. MenuOK(menu) /\ sections = TrackerNew(menu).sections /\ rows = TrackerNew(menu).rows
  BY InitialMenuOK DEF Init
<1>2. rows \in Seq(RowsOf) /\ Len(rows) = Measure(sections)[Root]
  BY <1>1, StartCount
<1> QED BY <1>2, MirrorsInit DEF Counted

\* A step of the peer that the tracker handles, in the terms of the lemmas.
LEMMA HandledStep ==
  ASSUME Mirrors, NEW m \in DOMAIN sections, NEW pos, NEW removed, NEW es,
         Change(menu, menu', m, pos, removed, es), ItemsChanged(m, pos, removed, es)
  PROVE  LET new == SectionsChanged(menu', sections, m, pos, removed, es)
             t == SyncSeparators(menu', new, RowsChanged(menu', sections, new, rows, m, pos, removed, es))
         IN  sections' = t.sections /\ rows' = t.rows
<1>1. CanChange(sections, m, pos, removed)
  BY FoundToChange DEF Mirrors, Change
<1>2. /\ sections' = ModelChanged(menu', sections, rows, m, pos, removed, es).sections
      /\ rows' = ModelChanged(menu', sections, rows, m, pos, removed, es).rows
  BY <1>1 DEF ItemsChanged, Connected
<1> DEFINE new == SectionsChanged(menu', sections, m, pos, removed, es)
           kept == SectionsKept(sections, m, pos, removed, es)
           offset == Offset(sections, m, pos)
           r == RemoveRows(rows, offset, Gone(sections, m, pos, removed))
           added == AddItems(menu', kept, sections[m].ns, r, offset, es)
<1>3. ModelChanged(menu', sections, rows, m, pos, removed, es) = SyncSeparators(menu', added.sections, added.rows)
  BY Zenon DEF ModelChanged, Offset, Gone
<1>4. added.sections = new /\ added.rows = AddRows(r, offset, AddedRows(es, sections[m].ns, MadeRows(menu', new)))
  <2> HIDE DEF kept, r, offset
  <2> QED BY DEF AddItems, SectionsChanged, kept
<1>5. added.rows = RowsChanged(menu', sections, new, rows, m, pos, removed, es)
  BY <1>4, Zenon DEF RowsChanged, Exchange
<1> HIDE DEF new, added
<1> QED BY <1>2, <1>3, <1>4, <1>5 DEF new

\* Every step keeps the number of rows to the measure.
LEMMA CountedNext == Counted /\ [Next]_vars => Counted'
<1> SUFFICES ASSUME Counted, [Next]_vars PROVE Counted'
  OBVIOUS
<1>1. Mirrors /\ Mirrors' /\ rows \in Seq(RowsOf) /\ Len(rows) = Measure(sections)[Root]
  BY MirrorsNext DEF Counted
<1>2. MenuOK(menu) /\ Tree(menu, sections) /\ SeparatorsDue(menu, sections)
  BY <1>1 DEF Mirrors
<1>3. CASE UNCHANGED vars
  BY <1>1, <1>3 DEF Counted, vars
<1>4. CASE Next
  <2>1. PICK m \in Models : \E pos \in 0..Len(menu[m]), removed \in 0..MaxRemoved, es \in Batches[m] \cup {<<>>} :
          ItemsChanged(m, pos, removed, es)
    BY <1>4 DEF Next
  <2>2. PICK pos \in 0..Len(menu[m]), removed \in 0..MaxRemoved, es \in Batches[m] \cup {<<>>} :
          ItemsChanged(m, pos, removed, es)
    BY <2>1
  <2>3. Change(menu, menu', m, pos, removed, es) /\ MenuOK(menu')
    BY <1>2, <2>2, StepChanges
  <2>4. CASE m \notin DOMAIN sections
    <3>1. UNCHANGED <<sections, rows>>
      BY <2>2, <2>4 DEF ItemsChanged, Connected
    <3> QED BY <1>1, <3>1 DEF Counted
  <2>5. CASE m \in DOMAIN sections
    <3> DEFINE new == SectionsChanged(menu', sections, m, pos, removed, es)
               rs == RowsChanged(menu', sections, new, rows, m, pos, removed, es)
               t == SyncSeparators(menu', new, rs)
    <3>1. sections' = t.sections /\ rows' = t.rows
      BY <1>1, <2>2, <2>3, <2>5, HandledStep
    <3>2. Tree(menu', new)
      BY <1>2, <2>3, <2>5, ChangedTree
    <3>3. rs \in Seq(RowsOf) /\ Len(rs) = Measure(new)[Root]
      BY <1>1, <1>2, <2>3, <2>5, RowsChangedCount
    <3> HIDE DEF new, rs
    <3>4. t.rows \in Seq(RowsOf) /\ Len(t.rows) = Measure(t.sections)[Root]
      BY <2>3, <3>2, <3>3, SyncKeepsCount
    <3> HIDE DEF t
    <3> QED BY <1>1, <3>1, <3>4 DEF Counted
  <2> QED BY <2>4, <2>5
<1> QED BY <1>3, <1>4

\* There are always as many rows as the sections measure.
LEMMA CountedAlways == Spec => []Counted
<1> QED BY CountedInit, CountedNext, PTL DEF Spec

\* The structures keep their shape.
THEOREM TypeCorrect == Spec => []TypeOK
<1>1. Init => orderly \in BOOLEAN
  BY DEF Init, Orderly
<1>2. orderly \in BOOLEAN /\ [Next]_vars => (orderly \in BOOLEAN)'
  BY DEF Next, ItemsChanged, Orderly, vars
<1>3. Counted /\ orderly \in BOOLEAN => TypeOK
  <2> SUFFICES ASSUME Counted, orderly \in BOOLEAN PROVE TypeOK
    OBVIOUS
  <2>1. menu \in [Models -> Seq(Entries)] /\ Tree(menu, sections) /\ rows \in Seq(RowsOf) /\ fault = FALSE
    BY DEF Counted, Mirrors, MenuOK
  <2>2. Root \in DOMAIN sections /\ DOMAIN sections \subseteq Models
    BY TreeHasShape DEF Counted, Mirrors, TreeShape
  <2>3. sections \in [DOMAIN sections -> Section]
    BY <2>1 DEF Tree
  <2> QED BY <2>1, <2>2, <2>3 DEF TypeOK
<1> QED BY <1>1, <1>2, <1>3, CountedAlways, PTL DEF Spec

\* The sections measure exactly as many rows as the model holds, after any batch: the
\* offsets are about the list that is there.
THEOREM MeasuresRows == Spec => []TreeMeasuresRows
<1>1. Counted => TreeMeasuresRows
  BY DEF Counted, TreeMeasuresRows
<1> QED BY <1>1, CountedAlways, PTL

-----------------------------------------------------------------------------
(* Entries whose plain items come before their sections.                   *)

AllPlain(es) == \A i \in DOMAIN es : SectionOf[es[i]] = NoLink

\* What a sequence with its plain items first is without its last entry.
LEMMA PlainAppend ==
  ASSUME NEW T, NEW u \in Seq(T), NEW e \in T
  PROVE  /\ AllPlain(Append(u, e)) => AllPlain(u) /\ SectionOf[e] = NoLink
         /\ PlainFirst(Append(u, e)) => PlainFirst(u) /\ (SectionOf[e] = NoLink => AllPlain(u))
<1> DEFINE s == Append(u, e)
           n == Len(u)
<1>1. n \in Nat /\ DOMAIN u = 1..n /\ DOMAIN s = 1..(n + 1) /\ s[n + 1] = e /\ \A i \in 1..n : s[i] = u[i]
  OBVIOUS
<1> HIDE DEF s, n
<1>2. n + 1 \in DOMAIN s /\ \A i \in 1..n : i \in DOMAIN s /\ i < n + 1
  BY <1>1
<1>3. AllPlain(s) => AllPlain(u) /\ SectionOf[e] = NoLink
  BY <1>1, <1>2 DEF AllPlain
<1>4. PlainFirst(s) => PlainFirst(u)
  BY <1>1, <1>2 DEF PlainFirst
<1>5. PlainFirst(s) /\ SectionOf[e] = NoLink => AllPlain(u)
  BY <1>1, <1>2 DEF PlainFirst, AllPlain
<1> QED BY <1>3, <1>4, <1>5 DEF s

\* Plain items bring no rows of sections.
LEMMA PlainJoined ==
  ASSUME NEW D, NEW ns, NEW flat, Flats(D, ns, flat), NEW es \in Seq(EntriesOf(D)), AllPlain(es)
  PROVE  Joined(es, SectionPiece(D, flat)) = <<>>
<1> DEFINE H == SectionPiece(D, flat)
           T == EntriesOf(D)
           P == {u \in Seq(T) : AllPlain(u) => Joined(u, H) = <<>>}
<1>1. H \in [T -> Seq(RowsOf)] /\ \A e \in T : SectionOf[e] = NoLink => H[e] = <<>>
  BY PiecesTyped DEF SectionPiece
<1>2. <<>> \in P
  BY JoinedEmpty
<1> HIDE DEF H, T
<1>3. ASSUME NEW u \in Seq(T), NEW e \in T, u \in P PROVE Append(u, e) \in P
  <2> SUFFICES ASSUME AllPlain(Append(u, e)) PROVE Joined(Append(u, e), H) = <<>>
    OBVIOUS
  <2>1. AllPlain(u) /\ SectionOf[e] = NoLink
    BY PlainAppend
  <2>2. Joined(u, H) = <<>> /\ H[e] = <<>>
    BY <1>1, <1>3, <2>1
  <2>3. Joined(Append(u, e), H) = Joined(u, H) \o H[e]
    BY <1>1, JoinedAppend
  <2>4. <<>> \o <<>> = <<>>
    OBVIOUS
  <2> QED BY <2>2, <2>3, <2>4, Zenon
<1> HIDE DEF P
<1>4. \A u \in Seq(T) : u \in P
  BY <1>2, <1>3, SeqInduction
<1> QED BY <1>4 DEF P, T, H

\* Concatenations with nothing, and grouped otherwise.
CatRules(V) ==
  /\ <<>> \in V /\ \A s \in V : Cat(s, <<>>) = s /\ Cat(<<>>, s) = s
  /\ \A s, t \in V : Cat(s, t) \in V
  /\ \A s, t, u \in V : Cat(Cat(s, t), u) = Cat(s, Cat(t, u))

\* The rules of concatenation.
LEMMA CatHasRules == ASSUME NEW A PROVE CatRules(Seq(A))
<1>1. \A s, t \in Seq(A) : Cat(s, t) \in Seq(A)
  BY CatTyped
<1>2. \A s, t, u \in Seq(A) : Cat(Cat(s, t), u) = Cat(s, Cat(t, u))
  BY CatAssociates DEF Associates
<1>3. <<>> \in Seq(A) /\ \A s \in Seq(A) : s \o <<>> = s /\ <<>> \o s = s
  OBVIOUS
<1> QED BY <1>1, <1>2, <1>3 DEF CatRules, Cat

\* Plain items that come first are added where they belong.
LEMMA OrderedRows ==
  ASSUME NEW D, NEW ns, NEW flat, Flats(D, ns, flat), NEW es \in Seq(EntriesOf(D)), PlainFirst(es)
  PROVE  AddedRows(es, ns, flat) = ItemRows(D, es, ns, flat)
<1> DEFINE G == PlainPiece(D, ns)
           H == SectionPiece(D, flat)
           R == RowPiece(D, ns, flat)
           T == EntriesOf(D)
           V == Seq(RowsOf)
           Same(u) == Cat(Joined(u, G), Joined(u, H)) = Joined(u, R)
           P == {u \in Seq(T) : PlainFirst(u) => Same(u)}
<1>1. G \in [T -> V] /\ H \in [T -> V] /\ R \in [T -> V]
  BY PiecesTyped
<1>2. \A e \in T : IF SectionOf[e] = NoLink THEN R[e] = G[e] /\ H[e] = <<>> ELSE R[e] = H[e] /\ G[e] = <<>>
  BY DEF PlainPiece, SectionPiece, RowPiece
<1>3. ASSUME NEW u \in Seq(T), AllPlain(u) PROVE Joined(u, H) = <<>>
  BY <1>3, PlainJoined
<1>4. CatRules(V)
  BY CatHasRules
<1>5. <<>> \in P
  <2>1. Joined(<<>>, G) = <<>> /\ Joined(<<>>, H) = <<>> /\ Joined(<<>>, R) = <<>>
    BY JoinedEmpty
  <2>2. Cat(<<>>, <<>>) = <<>>
    BY <1>4 DEF CatRules
  <2>3. <<>> \in Seq(T)
    OBVIOUS
  <2> QED BY <2>1, <2>2, <2>3
<1> HIDE DEF G, H, R, T
<1>6. ASSUME NEW u \in Seq(T), NEW e \in T, u \in P PROVE Append(u, e) \in P
  <2> SUFFICES ASSUME PlainFirst(Append(u, e)) PROVE Same(Append(u, e))
    OBVIOUS
  <2>1. PlainFirst(u) /\ (SectionOf[e] = NoLink => AllPlain(u))
    BY PlainAppend
  <2> DEFINE x == Joined(u, G)
             y == Joined(u, H)
             z == Joined(u, R)
  <2>2. x \in V /\ y \in V /\ z \in V /\ G[e] \in V /\ H[e] \in V /\ R[e] \in V
    BY <1>1, JoinedTyped
  <2>3. Cat(x, y) = z
    BY <1>6, <2>1
  <2>4. /\ Joined(Append(u, e), G) = Cat(x, G[e])
        /\ Joined(Append(u, e), H) = Cat(y, H[e])
        /\ Joined(Append(u, e), R) = Cat(z, R[e])
    BY <1>1, JoinedAppend DEF Cat
  <2>5. SectionOf[e] = NoLink => y = <<>>
    BY <1>3, <2>1
  <2> HIDE DEF x, y, z, V
  <2>6. Cat(Cat(x, G[e]), Cat(y, H[e])) = Cat(z, R[e])
    <3>1. CASE SectionOf[e] = NoLink
      <4>1. R[e] = G[e] /\ H[e] = <<>> /\ y = <<>>
        BY <1>2, <2>5, <3>1
      <4>2. z = x /\ Cat(y, H[e]) = <<>> /\ Cat(x, G[e]) \in V
        BY <1>4, <2>2, <2>3, <4>1 DEF CatRules
      <4> QED BY <1>4, <4>1, <4>2 DEF CatRules
    <3>2. CASE SectionOf[e] # NoLink
      <4>1. R[e] = H[e] /\ G[e] = <<>>
        BY <1>2, <3>2
      <4>2. Cat(x, G[e]) = x
        BY <1>4, <2>2, <4>1 DEF CatRules
      <4>3. Cat(Cat(x, y), H[e]) = Cat(x, Cat(y, H[e]))
        <5> DEFINE c == H[e]
        <5>1. c \in V /\ x \in V /\ y \in V
          BY <2>2
        <5>2. \A s, t, v \in V : Cat(Cat(s, t), v) = Cat(s, Cat(t, v))
          BY <1>4, Zenon DEF CatRules
        <5> HIDE DEF c
        <5>3. Cat(Cat(x, y), c) = Cat(x, Cat(y, c))
          BY <5>1, <5>2
        <5> QED BY <5>3 DEF c
      <4> QED BY <2>3, <4>1, <4>2, <4>3
    <3> QED BY <3>1, <3>2
  <2> QED BY <2>4, <2>6
<1> HIDE DEF P
<1>7. \A u \in Seq(T) : u \in P
  BY <1>5, <1>6, SeqInduction
<1>8. Cat(Joined(es, G), Joined(es, H)) = Joined(es, R)
  BY <1>7 DEF P, T
<1>9. AddedRows(es, ns, flat) = Joined(es, G) \o Joined(es, H)
  BY AddedJoined DEF G, H
<1> QED BY <1>8, <1>9, Zenon DEF Cat, ItemRows, R

-----------------------------------------------------------------------------
(* The rows that an orderly change brings.                                 *)

\* Below Root, plain items come first and no section is labelled.
OrderlyMenu(mu) == \A m \in Models \ {Root} : PlainFirst(mu[m]) /\ ToSet(mu[m]) \cap Labelled = {}

\* The sections N, and below, have no separators, and their plain items first.
Unmarked(mu, secs, N) ==
  \A k \in N : secs[k].hasSep = FALSE /\ LinksIn(mu[k]) \subseteq N /\ PlainFirst(mu[k])

\* New sections bring the rows they should have, when their plain items come first.
LEMMA MadeFlat ==
  ASSUME NEW mu, NEW secs, NEW N, MenuOK(mu), Tree(mu, secs), N \subseteq DOMAIN secs,
         Unmarked(mu, secs, N), NEW f, IsFlat(mu, secs, f)
  PROVE  \A k \in N : MadeRows(mu, secs)[k] = f[k]
<1> DEFINE made == MadeRows(mu, secs)
           D == DOMAIN secs
           rank == [k \in N |-> Height[k]]
           P == {k \in N : made[k] = f[k]}
<1>1. made \in [D -> Seq(RowsOf)] /\ \A m \in D : made[m] = AddedRows(mu[m], secs[m].ns, made)
  BY MadeSolved DEF IsMade
<1>2. f \in [D -> Seq(RowsOf)] /\ \A m \in D : f[m] = HeadOf(secs, m) \o ItemRows(D, mu[m], secs[m].ns, f)
  BY DEF IsFlat
<1> HIDE DEF made
<1>21. \A k \in N : secs[k].hasSep = FALSE /\ LinksIn(mu[k]) \subseteq N /\ PlainFirst(mu[k])
  BY DEF Unmarked
<1>3. N \subseteq Models
  BY TreeHasShape DEF TreeShape
<1>4. rank \in [N -> Nat]
  BY <1>3, LinkAssumption
<1>5. ASSUME NEW m \in N, \A k \in N : rank[k] < rank[m] => k \in P PROVE m \in P
  <2> DEFINE es == mu[m]
             ns == secs[m].ns
             r == ItemRows(D, es, ns, f)
  <2>1. m \in D /\ es \in Seq(Entries) /\ es \in Seq(EntriesOf(D)) /\ LinksIn(es) \subseteq N /\ PlainFirst(es)
        /\ \A k \in LinksIn(es) : Height[k] < Height[m]
    BY <1>21, TreeEntries
  <2>2. \A k \in LinksIn(es) : made[k] = f[k]
    BY <1>5, <2>1
  <2>3. Flats(D, ns, f)
    BY <1>2, <2>1, FlatsHere
  <2>4. made[m] = AddedRows(es, ns, made) /\ f[m] = HeadOf(secs, m) \o r
    BY <1>1, <1>2, <2>1
  <2>5. HeadOf(secs, m) = <<>>
    BY <1>21 DEF HeadOf
  <2> HIDE DEF es, ns, D
  <2>6. AddedRows(es, ns, made) = AddedRows(es, ns, f)
    BY <2>1, <2>2, AddedRowsSame
  <2>7. AddedRows(es, ns, f) = r /\ r \in Seq(RowsOf)
    BY <2>1, <2>3, OrderedRows, ItemRowsTyped
  <2> HIDE DEF r
  <2>8. <<>> \o r = r
    BY <2>7
  <2>9. made[m] = f[m]
    BY <2>4, <2>5, <2>6, <2>7, <2>8
  <2> QED BY <2>9
<1> HIDE DEF P, rank
<1>6. \A k \in N : k \in P
  BY <1>4, <1>5, RankInduction
<1> QED BY <1>6 DEF P, made

\* Rows that go from where p ends, and others that come there.
ExchangedAt(p, g, q, more) == Exchange((p \o g) \o q, Len(p), Len(g), more) = (p \o more) \o q

\* Exchanging the middle of three parts.
LEMMA ExchangedInside ==
  ASSUME NEW A, NEW p \in Seq(A), NEW g \in Seq(A), NEW q \in Seq(A), NEW more \in Seq(A)
  PROVE  ExchangedAt(p, g, q, more)
<1>1. RemoveRows((p \o g) \o q, Len(p), Len(g)) = p \o q
  BY RemoveRowsAt
<1>2. AddRows(p \o q, Len(p), more) = (p \o more) \o q
  BY AddRowsAt
<1> QED BY <1>1, <1>2, Zenon DEF ExchangedAt, Exchange

\* The rows that new sections bring into a changed one.
LEMMA AddedFlat ==
  ASSUME NEW nu, NEW new, NEW N, NEW ns, NEW h, NEW es \in Seq(Entries), MenuOK(nu), Tree(nu, new),
         IsFlat(nu, new, h), Flats(DOMAIN new, ns, h), Fresh(nu, new, es, N), PlainFirst(es), OrderlyMenu(nu)
  PROVE  AddedRows(es, ns, MadeRows(nu, new)) = ItemRows(DOMAIN new, es, ns, h)
<1> DEFINE M == N \ {Root}
           made == MadeRows(nu, new)
           D == DOMAIN new
<1>1. LinksOK(nu) /\ TreeShape(nu, new)
  BY MenuLinks, TreeHasShape
<1>2. N \subseteq D /\ D \subseteq Models /\ LinksIn(es) \subseteq N /\ \A k \in N : new[k].hasSep = FALSE /\ LinksIn(nu[k]) \subseteq N
  BY <1>1 DEF Fresh, TreeShape
<1>3. Unmarked(nu, new, M)
  <2>1. \A k \in M : new[k].hasSep = FALSE /\ LinksIn(nu[k]) \subseteq M /\ PlainFirst(nu[k])
    BY <1>1, <1>2 DEF LinksOK, OrderlyMenu
  <2> HIDE DEF M
  <2> QED BY <2>1 DEF Unmarked
<1>4. M \subseteq D
  BY <1>2
<1>5. LinksIn(es) \subseteq M
  BY <1>2, LinksInEntries
<1> HIDE DEF M
<1>6. \A k \in M : made[k] = h[k]
  BY <1>3, <1>4, MadeFlat
<1>7. es \in Seq(EntriesOf(D))
  BY <1>4, <1>5, EntriesIn
<1> HIDE DEF made, D
<1>8. AddedRows(es, ns, made) = AddedRows(es, ns, h)
  BY <1>5, <1>6, AddedRowsSame
<1>9. AddedRows(es, ns, h) = ItemRows(D, es, ns, h)
  BY <1>7, OrderedRows DEF D
<1> QED BY <1>8, <1>9 DEF made, D

\* An orderly change makes the rows that should be there, with the separators
\* there are, of those that should have been.
LEMMA RowsChangedFlat ==
  ASSUME NEW mu, NEW nu, NEW secs, NEW m, NEW pos, NEW removed, NEW es, NEW new,
         MenuOK(mu), MenuOK(nu), Tree(mu, secs), SeparatorsDue(mu, secs), m \in DOMAIN secs,
         Change(mu, nu, m, pos, removed, es), new = SectionsChanged(nu, secs, m, pos, removed, es),
         PlainFirst(es), OrderlyMenu(nu), NEW f, IsFlat(mu, secs, f), NEW h, IsFlat(nu, new, h)
  PROVE  RowsChanged(nu, secs, new, f[Root], m, pos, removed, es) = h[Root]
<1> DEFINE D == DOMAIN secs
           C == DOMAIN new
           ns == secs[m].ns
           offset == Offset(secs, m, pos)
           n == Gone(secs, m, pos, removed)
           added == AddedRows(es, ns, MadeRows(nu, new))
           V == Seq(RowsOf)
<1>1. PICK a, g, b : Changed(mu, nu, m, pos, removed, es, a, g, b)
  BY ChangeParts
<1>2. PICK K, N : Regraft(mu, nu, secs, new, m, K) /\ LinksIn(a) \cup LinksIn(b) \subseteq K /\ Fresh(nu, new, es, N)
  <2>1. Replanted(mu, nu, secs, new, m, a, b, es)
    BY <1>1, ChangeReplants
  <2> QED BY <2>1 DEF Replanted
<1>3. /\ a \in Seq(Entries) /\ g \in Seq(Entries) /\ b \in Seq(Entries) /\ es \in Seq(Entries)
      /\ mu[m] = (a \o g) \o b /\ nu[m] = (a \o es) \o b /\ Parted(Entries, mu[m], pos, removed, a, g, b)
  BY <1>1 DEF Changed
<1>4. Tree(nu, new) /\ secs[Root].hasSep = FALSE
  BY <1>2 DEF Regraft
<1>7. PICK p, q : Spliced(secs, new, m, a, g, es, f, h, p, q)
  BY <1>2, <1>3, FlatSpliced
<1> DEFINE G == ItemRows(D, g, ns, f)
           E == ItemRows(C, es, ns, h)
<1>8. /\ p \in V /\ q \in V
      /\ Len(p) = FindModel(secs, m)[Root] + MeasureItems(Items(a), Measure(secs))
      /\ f[Root] = (p \o G) \o q /\ h[Root] = (p \o E) \o q
      /\ g \in Seq(EntriesOf(D)) /\ es \in Seq(EntriesOf(C)) /\ Flats(D, ns, f) /\ Flats(C, ns, h)
  BY <1>7 DEF Spliced
<1>9. Counts(D, f, Measure(secs))
  BY <1>4, FlatCount
<1>10. offset = Len(p) /\ n = MeasureItems(Items(g), Measure(secs))
  <2>1. m \in Models /\ secs[m].items = Items(mu[m]) /\ mu[m] \in Seq(Entries)
    BY TreeEntries DEF Tree
  <2>2. pos \in Nat /\ removed \in Nat /\ pos + removed <= Len(mu[m])
    BY DEF Change
  <2>3. Parted(Models \cup {NoLink}, Items(mu[m]), pos, removed, Items(a), Items(g), Items(b))
    BY <1>3, <2>1, <2>2, ItemsParted
  <2>4. Items(a) = SubSeq(secs[m].items, 1, pos) /\ Items(g) = SubSeq(secs[m].items, pos + 1, pos + removed)
    BY <2>1, <2>3 DEF Parted
  <2> QED BY <1>8, <2>4 DEF Offset, Gone
<1>11. added = E
  BY <1>2, <1>3, <1>4, <1>8, AddedFlat
<1> HIDE DEF D, C, ns, offset, n, added
<1>12. G \in V /\ E \in V /\ Len(G) = n
  BY <1>8, <1>9, <1>10, ItemRowsTyped, ItemRowsCount
<1> HIDE DEF G, E
<1>13. ExchangedAt(p, G, q, E)
  BY <1>8, <1>12, ExchangedInside
<1>14. Exchange(f[Root], offset, n, added) = h[Root]
  <2>1. f[Root] = (p \o G) \o q /\ h[Root] = (p \o E) \o q
    BY <1>8 DEF G, E
  <2> QED BY <1>10, <1>11, <1>12, <1>13, <2>1, Zenon DEF ExchangedAt
<1> QED BY <1>14, Zenon DEF RowsChanged, offset, n, added, ns

-----------------------------------------------------------------------------
(* The rows that a sync leaves, when Root's sections have all the separators. *)

\* The only separators are those of Root's sections.
TopOnly(mu, secs) == \A k \in DOMAIN secs : secs[k].hasSep => k \in LinksIn(mu[Root])

\* The sections inside Root's sections.
Deep(mu, secs) == DOMAIN secs \ ({Root} \cup LinksIn(mu[Root]))

\* An orderly tree with separators at the top only.
Topped(mu, secs) == MenuOK(mu) /\ Tree(mu, secs) /\ OrderlyMenu(mu) /\ TopOnly(mu, secs)

\* What Root does not link has no separator, and the sections below Root are deep.
DeepParts(mu, secs) ==
  /\ \A p \in DOMAIN secs \ {Root} : LinksIn(mu[p]) \subseteq Deep(mu, secs)
  /\ \A k \in Deep(mu, secs) \cup {Root} :
       ~ShouldHaveSeparator(mu, secs, k) /\ secs[k].hasSep = FALSE /\ k \in DOMAIN secs

\* In an orderly menu only Root's sections could have a separator.
LEMMA CouldTop ==
  ASSUME NEW mu, NEW secs, MenuOK(mu), Tree(mu, secs), OrderlyMenu(mu),
         NEW m \in DOMAIN secs, CouldHaveSeparator(mu, secs, m)
  PROVE  m \in LinksIn(mu[Root])
<1>1. TreeShape(mu, secs)
  BY TreeHasShape
<1>2. PICK p \in DOMAIN secs : \E i \in DOMAIN secs[p].items :
         secs[p].items[i] = m /\ ((p = Root /\ i > 1) \/ mu[p][i] \in Labelled)
  BY DEF CouldHaveSeparator
<1>3. PICK i \in DOMAIN secs[p].items : secs[p].items[i] = m /\ (p = Root \/ mu[p][i] \in Labelled)
  BY <1>2
<1>4. p \in Models /\ mu[p] \in Seq(Entries) /\ m \in Models /\ secs[p].items = Items(mu[p])
  BY TreeEntries DEF Tree
<1>5. i \in DOMAIN mu[p]
  BY <1>3, <1>4, ItemsShape
<1>6. mu[p][i] \in ToSet(mu[p])
  BY <1>5 DEF ToSet
<1>7. p = Root
  BY <1>3, <1>4, <1>6 DEF OrderlyMenu
<1>8. m \in SectionsIn(secs[p].items)
  <2>1. m # NoLink
    BY <1>4, LinkAssumption
  <2> QED BY <1>3, <2>1 DEF SectionsIn, ToSet
<1> QED BY <1>1, <1>7, <1>8 DEF TreeShape

\* Deep sections lead to deep ones, and have no separators.
LEMMA DeepHas ==
  ASSUME NEW mu, NEW secs, Topped(mu, secs)
  PROVE  DeepParts(mu, secs)
<1>1. TreeShape(mu, secs) /\ LinksOK(mu) /\ MenuOK(mu) /\ Tree(mu, secs)
  BY TreeHasShape, MenuLinks DEF Topped
<1>2. ASSUME NEW p \in DOMAIN secs \ {Root} PROVE LinksIn(mu[p]) \subseteq Deep(mu, secs)
  <2>1. p \in Models /\ Root \in Models /\ LinksIn(mu[p]) \subseteq DOMAIN secs
    BY <1>1 DEF TreeShape
  <2>2. \A k \in LinksIn(mu[p]) : k # Root /\ k \notin LinksIn(mu[Root])
    BY <1>1, <2>1 DEF LinksOK
  <2> QED BY <2>1, <2>2 DEF Deep
<1>3. Root \notin LinksIn(mu[Root]) /\ Root \in DOMAIN secs
  BY <1>1, LinkAssumption DEF LinksOK, TreeShape
<1>4. ASSUME NEW k \in Deep(mu, secs) \cup {Root}
      PROVE  ~ShouldHaveSeparator(mu, secs, k) /\ secs[k].hasSep = FALSE /\ k \in DOMAIN secs
  <2>1. k \in DOMAIN secs /\ k \notin LinksIn(mu[Root])
    BY <1>3 DEF Deep
  <2>2. ~CouldHaveSeparator(mu, secs, k)
    BY <1>1, <2>1, CouldTop DEF Topped
  <2>3. secs[k].hasSep \in BOOLEAN
    BY <1>1, <2>1 DEF Tree, Section
  <2>4. ~secs[k].hasSep
    BY <2>1 DEF Topped, TopOnly
  <2> QED BY <2>1, <2>2, <2>3, <2>4 DEF ShouldHaveSeparator
<1> QED BY <1>2, <1>4 DEF DeepParts

\* A call for x changes nothing.
Still(x, g) == \A o \in Nat, r \in Seq(RowsOf) : g[Call(x, o, r)] = r

\* Nor do the calls for such items.
LEMMA InsideStill ==
  ASSUME NEW T, NEW items \in Seq(T), NEW measure, Measures(T, measure), NEW g, Acts(items, g),
         \A i \in DOMAIN items : items[i] # NoLink => Still(items[i], g),
         NEW offset \in Nat, NEW rs \in Seq(RowsOf)
  PROVE  SyncedInside(items, measure, g, offset, rs) = rs
<1>1. PICK t : IsInside(items, measure, g, offset, rs, t)
               /\ SyncedInside(items, measure, g, offset, rs) = t[Len(items)]
  BY InsideSolved
<1> DEFINE P == {i \in 0..Len(items) : t[i] = rs}
<1>2. Len(items) \in Nat /\ DOMAIN items = 1..Len(items)
  OBVIOUS
<1>3. 0 \in P
  BY <1>1, <1>2 DEF IsInside
<1>4. ASSUME NEW k \in 0..(Len(items) - 1), k \in P PROVE k + 1 \in P
  <2> DEFINE i == k + 1
             o == Due(items, measure, offset, i)
  <2>1. i \in 1..Len(items) /\ i - 1 = k /\ k \in 0..Len(items) /\ i \in 0..Len(items)
    BY <1>2
  <2>2. o \in Nat
    BY <2>1, DueTyped
  <2>3. t[k] = rs
    BY <1>4
  <2>4. t[i] = IF items[i] = NoLink THEN t[k] ELSE g[Call(items[i], o, t[k])]
    BY <1>1, <2>1 DEF IsInside
  <2> HIDE DEF i, o
  <2>5. items[i] # NoLink => Still(items[i], g)
    BY <1>2, <2>1
  <2>6. t[i] = rs
    BY <2>2, <2>3, <2>4, <2>5 DEF Still
  <2> QED BY <2>1, <2>6 DEF i
<1> HIDE DEF P
<1>5. \A k \in 0..Len(items) : k \in P
  BY <1>2, <1>3, <1>4, UpTo
<1> QED BY <1>1, <1>2, <1>5 DEF P

\* What a section does when nothing inside it changes.
StillInside(mu, secs, m, g) ==
  \A o \in Nat, r \in Seq(RowsOf) : g[Call(m, o, r)] = ShowSeparator(mu, secs, m, o, r)

\* When what a section links changes nothing, only its own separator does.
LEMMA InsideOnly ==
  ASSUME NEW mu, NEW secs, MenuOK(mu), Tree(mu, secs), NEW m \in DOMAIN secs,
         \A k \in LinksIn(mu[m]) : Still(k, SyncedRows(mu, secs))
  PROVE  StillInside(mu, secs, m, SyncedRows(mu, secs))
<1> DEFINE g == SyncedRows(mu, secs)
           h == SyncedMeasure(mu, secs)
           items == secs[m].items
           T == ListItems(secs)
<1>1. /\ g \in [Calls(secs) -> Seq(RowsOf)]
      /\ \A c \in Calls(secs) : g[c] = ShowSeparator(mu, secs, c.section, c.offset,
                                         SyncedInside(secs[c.section].items, h, g, c.offset, c.rows))
  BY SyncedRowsSolved DEF IsSyncedRows
<1>2. /\ items \in Seq(T) /\ Measures(T, h)
      /\ \A i \in DOMAIN items : items[i] # NoLink => items[i] \in DOMAIN secs
  BY SectionMeasured
<1>3. SectionsIn(items) = LinksIn(mu[m])
  BY TreeHasShape DEF TreeShape
<1> HIDE DEF g, h, T
<1>4. CallsIn(secs)
  BY CallsAre, Zenon
<1>5. Acts(items, g)
  <2>1. \A k \in DOMAIN secs, o \in Nat, r \in Seq(RowsOf) : Call(k, o, r) \in Calls(secs)
    BY <1>4, Zenon DEF CallsIn
  <2>2. \A k \in DOMAIN secs, o \in Nat, r \in Seq(RowsOf) : g[Call(k, o, r)] \in Seq(RowsOf)
    BY <1>1, <2>1
  <2> QED BY <1>2, <2>2 DEF Acts
<1>6. \A i \in DOMAIN items : items[i] # NoLink => Still(items[i], g)
  <2>1. \A i \in DOMAIN items : items[i] # NoLink => items[i] \in SectionsIn(items)
    BY DEF SectionsIn, ToSet
  <2> QED BY <1>3, <2>1 DEF g
<1>7. ASSUME NEW o \in Nat, NEW rs \in Seq(RowsOf) PROVE g[Call(m, o, rs)] = ShowSeparator(mu, secs, m, o, rs)
  <2> DEFINE c == Call(m, o, rs)
  <2>1. c \in Calls(secs) /\ c.section = m /\ c.offset = o /\ c.rows = rs
    BY CallIs
  <2>2. g[c] = ShowSeparator(mu, secs, m, o, SyncedInside(items, h, g, o, rs))
    BY <1>1, <2>1
  <2> HIDE DEF c, items
  <2>3. SyncedInside(items, h, g, o, rs) = rs
    BY <1>2, <1>5, <1>6, InsideStill
  <2> QED BY <2>2, <2>3 DEF c
<1> QED BY <1>7, Zenon DEF StillInside, g

\* Nothing changes inside Root's sections.
LEMMA DeepStill ==
  ASSUME NEW mu, NEW secs, Topped(mu, secs)
  PROVE  \A k \in Deep(mu, secs) : Still(k, SyncedRows(mu, secs))
<1> DEFINE g == SyncedRows(mu, secs)
           S == Deep(mu, secs)
           rank == [k \in S |-> Height[k]]
           P == {k \in S : Still(k, g)}
<1>1. MenuOK(mu) /\ Tree(mu, secs) /\ DeepParts(mu, secs)
  BY DeepHas DEF Topped
<1>2. /\ \A p \in DOMAIN secs \ {Root} : LinksIn(mu[p]) \subseteq S
      /\ \A k \in S : ~ShouldHaveSeparator(mu, secs, k) /\ secs[k].hasSep = FALSE
      /\ S \subseteq DOMAIN secs \ {Root}
  BY <1>1 DEF DeepParts, Deep
<1>3. S \subseteq Models
  BY <1>1, <1>2, TreeHasShape DEF TreeShape
<1> HIDE DEF S, g
<1>4. rank \in [S -> Nat]
  BY <1>3, LinkAssumption
<1>5. ASSUME NEW m \in S, \A k \in S : rank[k] < rank[m] => k \in P PROVE m \in P
  <2>1. m \in DOMAIN secs /\ \A k \in LinksIn(mu[m]) : k \in S /\ Height[k] < Height[m]
    BY <1>1, <1>2, TreeEntries
  <2>2. \A k \in LinksIn(mu[m]) : Still(k, SyncedRows(mu, secs))
    BY <1>5, <2>1 DEF g
  <2>3. StillInside(mu, secs, m, SyncedRows(mu, secs))
    BY <1>1, <2>1, <2>2, InsideOnly
  <2>4. Still(m, g)
    <3>1. ~ShouldHaveSeparator(mu, secs, m) /\ secs[m].hasSep = FALSE
      BY <1>2
    <3>2. \A o \in Nat, r \in Seq(RowsOf) : ShowSeparator(mu, secs, m, o, r) = r
      BY <3>1 DEF ShowSeparator
    <3>3. \A o \in Nat, r \in Seq(RowsOf) : g[Call(m, o, r)] = ShowSeparator(mu, secs, m, o, r)
      BY <2>3, Zenon DEF StillInside, g
    <3>4. \A o \in Nat, r \in Seq(RowsOf) : g[Call(m, o, r)] = r
      BY <3>2, <3>3, Zenon
    <3> QED BY <3>4, Zenon DEF Still
  <2> QED BY <2>4
<1> HIDE DEF P, rank
<1>6. \A k \in S : k \in P
  BY <1>4, <1>5, RankInduction
<1> QED BY <1>6 DEF P, S, g

\* Root's sections only show or hide their own separators.
LEMMA TopCalls ==
  ASSUME NEW mu, NEW secs, Topped(mu, secs)
  PROVE  \A k \in LinksIn(mu[Root]) : StillInside(mu, secs, k, SyncedRows(mu, secs))
<1>1. MenuOK(mu) /\ Tree(mu, secs) /\ DeepParts(mu, secs) /\ TreeShape(mu, secs) /\ LinksOK(mu)
  BY DeepHas, TreeHasShape, MenuLinks DEF Topped
<1>2. ASSUME NEW k \in LinksIn(mu[Root]) PROVE StillInside(mu, secs, k, SyncedRows(mu, secs))
  <2>1. k \in DOMAIN secs \ {Root}
    BY <1>1, LinkAssumption DEF TreeShape, LinksOK
  <2>2. LinksIn(mu[k]) \subseteq Deep(mu, secs)
    BY <1>1, <2>1 DEF DeepParts
  <2>3. \A j \in LinksIn(mu[k]) : Still(j, SyncedRows(mu, secs))
    BY <2>2, DeepStill
  <2> QED BY <1>1, <2>1, <2>3, InsideOnly
<1> QED BY <1>2

\* The rows before and after a sync.
SyncFlats(mu, secs, f, h) ==
  Topped(mu, secs) /\ IsFlat(mu, secs, f) /\ IsFlat(mu, SectionsSynced(mu, secs), h)

SyncFlatsParts(mu, secs, f, h) ==
  /\ f \in [DOMAIN secs -> Seq(RowsOf)] /\ h \in [DOMAIN secs -> Seq(RowsOf)]
  /\ \A m \in DOMAIN secs :
       /\ f[m] = HeadOf(secs, m) \o ItemRows(DOMAIN secs, mu[m], secs[m].ns, f)
       /\ h[m] = HeadOf(SectionsSynced(mu, secs), m) \o ItemRows(DOMAIN secs, mu[m], secs[m].ns, h)
       /\ SectionsSynced(mu, secs)[m].hasSep = ShouldHaveSeparator(mu, secs, m)

\* They differ in the separators.
LEMMA SyncFlatsHave ==
  ASSUME NEW mu, NEW secs, NEW f, NEW h, SyncFlats(mu, secs, f, h)
  PROVE  SyncFlatsParts(mu, secs, f, h)
<1> DEFINE t == SectionsSynced(mu, secs)
<1>1. MenuOK(mu) /\ Tree(mu, secs) /\ IsFlat(mu, secs, f) /\ IsFlat(mu, t, h)
  BY DEF SyncFlats, Topped
<1>2. IsSynced(mu, secs, t)
  BY <1>1, TreeNested, SyncedIs
<1> HIDE DEF t
<1>3. /\ DOMAIN t = DOMAIN secs
      /\ \A m \in DOMAIN secs : t[m].ns = secs[m].ns /\ t[m].hasSep = ShouldHaveSeparator(mu, secs, m)
  BY <1>2 DEF IsSynced
<1>4. /\ f \in [DOMAIN secs -> Seq(RowsOf)]
      /\ \A m \in DOMAIN secs : f[m] = HeadOf(secs, m) \o ItemRows(DOMAIN secs, mu[m], secs[m].ns, f)
  BY <1>1 DEF IsFlat
<1>5. /\ h \in [DOMAIN secs -> Seq(RowsOf)]
      /\ \A m \in DOMAIN secs : h[m] = HeadOf(t, m) \o ItemRows(DOMAIN secs, mu[m], secs[m].ns, h)
  BY <1>1, <1>3 DEF IsFlat
<1> QED BY <1>3, <1>4, <1>5, Zenon DEF SyncFlatsParts, t

\* Deep sections have the same rows as before.
LEMMA DeepSame ==
  ASSUME NEW mu, NEW secs, NEW f, NEW h, SyncFlats(mu, secs, f, h)
  PROVE  \A k \in Deep(mu, secs) : f[k] = h[k]
<1> DEFINE S == Deep(mu, secs)
           D == DOMAIN secs
           rank == [k \in S |-> Height[k]]
           P == {k \in S : f[k] = h[k]}
           t == SectionsSynced(mu, secs)
<1>0. Topped(mu, secs)
  BY DEF SyncFlats
<1>1. MenuOK(mu) /\ Tree(mu, secs) /\ DeepParts(mu, secs) /\ SyncFlatsParts(mu, secs, f, h)
  BY <1>0, DeepHas, SyncFlatsHave DEF Topped
<1>2. /\ \A p \in D \ {Root} : LinksIn(mu[p]) \subseteq S
      /\ \A k \in S : ~ShouldHaveSeparator(mu, secs, k) /\ secs[k].hasSep = FALSE
      /\ S \subseteq D \ {Root}
  BY <1>1 DEF DeepParts, Deep
<1>3. S \subseteq Models
  BY <1>1, <1>2, TreeHasShape DEF TreeShape
<1>4. \A m \in D :
       /\ f[m] = HeadOf(secs, m) \o ItemRows(D, mu[m], secs[m].ns, f)
       /\ h[m] = HeadOf(t, m) \o ItemRows(D, mu[m], secs[m].ns, h)
       /\ t[m].hasSep = ShouldHaveSeparator(mu, secs, m)
  BY <1>1, Zenon DEF SyncFlatsParts
<1> HIDE DEF S, t
<1>5. rank \in [S -> Nat]
  BY <1>3, LinkAssumption
<1>6. ASSUME NEW m \in S, \A k \in S : rank[k] < rank[m] => k \in P PROVE m \in P
  <2>1. m \in D /\ mu[m] \in Seq(EntriesOf(D)) /\ \A k \in LinksIn(mu[m]) : k \in S /\ Height[k] < Height[m]
    BY <1>1, <1>2, TreeEntries
  <2>2. \A k \in LinksIn(mu[m]) : f[k] = h[k]
    BY <1>6, <2>1
  <2>3. HeadOf(secs, m) = <<>> /\ HeadOf(t, m) = <<>>
    <3>1. ~ShouldHaveSeparator(mu, secs, m) /\ secs[m].hasSep = FALSE /\ t[m].hasSep = ShouldHaveSeparator(mu, secs, m)
      BY <1>2, <1>4, <2>1
    <3> QED BY <3>1 DEF HeadOf
  <2>4. ItemRows(D, mu[m], secs[m].ns, f) = ItemRows(D, mu[m], secs[m].ns, h)
    <3> HIDE DEF D
    <3> QED BY <2>1, <2>2, ItemRowsSame
  <2>5. f[m] = h[m]
    BY <1>4, <2>1, <2>3, <2>4
  <2> QED BY <2>5
<1> HIDE DEF P, rank
<1>7. \A k \in S : k \in P
  BY <1>5, <1>6, RankInduction
<1> QED BY <1>7 DEF P, S

\* What showing or hiding a separator at a place makes of the rows.
ShownThere(mu, secs, k, p, q, f, h) ==
  ShowSeparator(mu, secs, k, Len(p), (p \o f[k]) \o q) = (p \o h[k]) \o q

\* Concatenations of four parts, grouped otherwise.
RegroupedHead(p, s, i, q) == (p \o (s \o i)) \o q = (p \o s) \o (i \o q) /\ (p \o i) \o q = p \o (i \o q)

\* A head in a concatenation, regrouped.
LEMMA RegroupHead ==
  ASSUME NEW A, NEW p \in Seq(A), NEW s \in Seq(A), NEW i \in Seq(A), NEW q \in Seq(A)
  PROVE  RegroupedHead(p, s, i, q)
<1> DEFINE V == Seq(A)
<1>0. Associates(V) /\ p \in V /\ s \in V /\ i \in V /\ q \in V
  BY CatAssociates
<1> HIDE DEF V
<1> USE DEF Associates
<1> DEFINE si == Cat(s, i)
           iq == Cat(i, q)
<1>1. si \in V /\ iq \in V
  BY <1>0
<1>2. Cat(Cat(p, si), q) = Cat(p, Cat(si, q))
  BY <1>0, <1>1
<1>3. Cat(si, q) = Cat(s, iq)
  BY <1>0
<1>4. Cat(p, Cat(s, iq)) = Cat(Cat(p, s), iq)
  BY <1>0, <1>1
<1>5. Cat(Cat(p, i), q) = Cat(p, iq)
  BY <1>0
<1>6. Cat(Cat(p, si), q) = Cat(Cat(p, s), iq)
  BY <1>2, <1>3, <1>4
<1> QED BY <1>5, <1>6, Zenon DEF Cat, RegroupedHead

\* A separator that comes and one that goes, in front of the rows i.
Headed(p, s, i, q) ==
  /\ AddRows((p \o i) \o q, Len(p), s) = (p \o (s \o i)) \o q
  /\ RemoveRows((p \o (s \o i)) \o q, Len(p), Len(s)) = (p \o i) \o q

\* A separator that comes and one that goes, in front of the rows i.
LEMMA HeadChanges ==
  ASSUME NEW A, NEW p \in Seq(A), NEW s \in Seq(A), NEW i \in Seq(A), NEW q \in Seq(A)
  PROVE  Headed(p, s, i, q)
<1> DEFINE r == i \o q
<1>1. r \in Seq(A)
  OBVIOUS
<1>2. RegroupedHead(p, s, i, q)
  BY RegroupHead
<1>3. (p \o (s \o i)) \o q = (p \o s) \o r /\ (p \o i) \o q = p \o r
  BY <1>2, Zenon DEF RegroupedHead
<1> HIDE DEF r
<1>4. AddRows(p \o r, Len(p), s) = (p \o s) \o r
  BY <1>1, AddRowsAt
<1>5. RemoveRows((p \o s) \o r, Len(p), Len(s)) = p \o r
  BY <1>1, RemoveRowsAt
<1> QED BY <1>3, <1>4, <1>5, Zenon DEF Headed

\* A call for a section of Root makes the rows that it should have.
LEMMA TopShown ==
  ASSUME NEW mu, NEW secs, NEW f, NEW h, SyncFlats(mu, secs, f, h), NEW k \in LinksIn(mu[Root]),
         NEW p \in Seq(RowsOf), NEW q \in Seq(RowsOf)
  PROVE  ShownThere(mu, secs, k, p, q, f, h)
<1> DEFINE D == DOMAIN secs
           V == Seq(RowsOf)
           ns == secs[k].ns
           i == ItemRows(D, mu[k], ns, f)
           j == ItemRows(D, mu[k], ns, h)
           s == SeparatorOf(k)
           t == SectionsSynced(mu, secs)
           should == ShouldHaveSeparator(mu, secs, k)
           has == secs[k].hasSep
           rs == (p \o f[k]) \o q
<1>0. Topped(mu, secs)
  BY DEF SyncFlats
<1>1. MenuOK(mu) /\ Tree(mu, secs) /\ DeepParts(mu, secs) /\ SyncFlatsParts(mu, secs, f, h) /\ TreeShape(mu, secs) /\ LinksOK(mu)
  BY <1>0, DeepHas, SyncFlatsHave, TreeHasShape, MenuLinks DEF Topped
<1>2. k \in D \ {Root} /\ LinkOf(k) \in ToSet(mu[Root])
  BY <1>1, LinkAssumption DEF TreeShape, LinksOK
<1>3. \A x \in LinksIn(mu[k]) : f[x] = h[x]
  <2>1. LinksIn(mu[k]) \subseteq Deep(mu, secs)
    BY <1>1, <1>2 DEF DeepParts
  <2> QED BY <2>1, DeepSame
<1>4. mu[k] \in Seq(EntriesOf(D)) /\ Flats(D, ns, f)
  BY <1>1, <1>2, FlatsHere DEF SyncFlatsParts
<1>5. i = j
  <2> HIDE DEF D, ns
  <2> QED BY <1>3, <1>4, ItemRowsSame
<1>6. i \in V
  BY <1>4, ItemRowsTyped
<1>7. f[k] = HeadOf(secs, k) \o i /\ h[k] = HeadOf(t, k) \o i /\ t[k].hasSep = should
  <2>1. f[k] = HeadOf(secs, k) \o i /\ h[k] = HeadOf(t, k) \o j /\ t[k].hasSep = should
    BY <1>1, <1>2, Zenon DEF SyncFlatsParts
  <2> QED BY <1>5, <2>1
<1>8. s \in V /\ Len(s) = 1
  <2>1. LinkOf(k) \in Entries
    BY <1>1, <1>2, LinkAssumption, AroundIs
  <2> QED BY <2>1, SeparatorTyped
<1>9. has \in BOOLEAN /\ should \in BOOLEAN
  BY <1>1, <1>2 DEF Tree, Section, ShouldHaveSeparator
<1>10. HeadOf(secs, k) = (IF has THEN s ELSE <<>>) /\ HeadOf(t, k) = (IF should THEN s ELSE <<>>)
  <2>1. t[k].hasSep = should
    BY <1>7
  <2> QED BY <2>1, Zenon DEF HeadOf
<1>11. ShowSeparator(mu, secs, k, Len(p), rs)
       = (CASE should /\ ~has -> AddRows(rs, Len(p), s)
            [] ~should /\ has -> RemoveRows(rs, Len(p), 1)
            [] OTHER -> rs)
  BY Zenon DEF ShowSeparator, SeparatorOf
<1>12. Headed(p, s, i, q)
  BY <1>6, <1>8, HeadChanges
<1>13. <<>> \o i = i
  BY <1>6
<1> HIDE DEF D, V, ns, i, j, s, t, should, has
<1>14. CASE should /\ ~has
  <2>1. f[k] = i /\ h[k] = s \o i
    BY <1>7, <1>10, <1>13, <1>14
  <2>2. ShowSeparator(mu, secs, k, Len(p), rs) = AddRows(rs, Len(p), s)
    BY <1>11, <1>14
  <2> QED BY <1>12, <2>1, <2>2, Zenon DEF Headed, ShownThere
<1>15. CASE ~should /\ has
  <2>1. f[k] = s \o i /\ h[k] = i
    BY <1>7, <1>10, <1>13, <1>15
  <2>2. ShowSeparator(mu, secs, k, Len(p), rs) = RemoveRows(rs, Len(p), Len(s))
    BY <1>8, <1>11, <1>15
  <2> QED BY <1>12, <2>1, <2>2, Zenon DEF Headed, ShownThere
<1>16. CASE should <=> has
  <2>1. f[k] = h[k]
    BY <1>7, <1>9, <1>10, <1>16
  <2>2. ShowSeparator(mu, secs, k, Len(p), rs) = rs
    BY <1>11, <1>16
  <2> QED BY <2>1, <2>2, Zenon DEF ShownThere
<1> QED BY <1>9, <1>14, <1>15, <1>16

\* A sequence around its element after the first k.
Divided(es, k) ==
  /\ SubSeq(es, 1, k + 1) = SubSeq(es, 1, k) \o <<es[k + 1]>>
  /\ SubSeq(es, k + 1, Len(es)) = <<es[k + 1]>> \o SubSeq(es, k + 2, Len(es))

\* A sequence around one of its elements.
LEMMA Divides ==
  ASSUME NEW T, NEW es \in Seq(T), NEW k \in 0..(Len(es) - 1)
  PROVE  Divided(es, k)
<1> DEFINE n == Len(es)
           x == SubSeq(es, 1, k)
           y == SubSeq(es, k + 2, n)
           z == SubSeq(es, k + 1, n)
           w == SubSeq(es, 1, k + 1)
           e == es[k + 1]
<1>1. n \in Nat /\ k \in Nat /\ k + 1 <= n /\ e \in T
  OBVIOUS
<1>2. x \in Seq(T) /\ Len(x) = k /\ \A i \in 1..k : x[i] = es[i]
  BY <1>1
<1>3. w \in Seq(T) /\ Len(w) = k + 1 /\ \A i \in 1..(k + 1) : w[i] = es[i]
  BY <1>1
<1>4. y \in Seq(T) /\ Len(y) = n - (k + 1) /\ \A i \in 1..(n - (k + 1)) : y[i] = es[i + (k + 1)]
  BY <1>1
<1>5. z \in Seq(T) /\ Len(z) = n - k /\ \A i \in 1..(n - k) : z[i] = es[i + k]
  BY <1>1
<1>6. w = x \o <<e>>
  <2> DEFINE v == x \o <<e>>
  <2>1. v \in Seq(T) /\ Len(v) = k + 1 /\ \A i \in 1..(k + 1) : v[i] = IF i <= k THEN x[i] ELSE e
    <3> HIDE DEF x, e
    <3> QED BY <1>1, <1>2
  <2> HIDE DEF v, x, w
  <2>2. \A i \in 1..(k + 1) : v[i] = w[i]
    <3> SUFFICES ASSUME NEW i \in 1..(k + 1) PROVE v[i] = w[i]
      OBVIOUS
    <3>1. CASE i <= k
      <4>1. i \in 1..k
        BY <1>1, <3>1
      <4> QED BY <1>2, <1>3, <2>1, <3>1, <4>1
    <3>2. CASE ~(i <= k)
      <4>1. i = k + 1
        BY <1>1, <3>2
      <4> QED BY <1>3, <2>1, <3>2, <4>1
    <3> QED BY <3>1, <3>2
  <2>3. v = w
    BY <1>3, <2>1, <2>2, SeqEqual
  <2> QED BY <2>3 DEF v
<1>7. z = <<e>> \o y
  <2> DEFINE v == <<e>> \o y
  <2>1. v \in Seq(T) /\ Len(v) = n - k /\ \A i \in 1..(n - k) : v[i] = IF i = 1 THEN e ELSE y[i - 1]
    <3> HIDE DEF y, e
    <3> QED BY <1>1, <1>4
  <2> HIDE DEF v, y, z
  <2>2. \A i \in 1..(n - k) : v[i] = z[i]
    <3> SUFFICES ASSUME NEW i \in 1..(n - k) PROVE v[i] = z[i]
      OBVIOUS
    <3>1. CASE i = 1
      BY <1>1, <1>5, <2>1, <3>1
    <3>2. CASE i # 1
      <4>1. i - 1 \in 1..(n - (k + 1)) /\ (i - 1) + (k + 1) = i + k
        BY <1>1, <3>2
      <4> QED BY <1>4, <1>5, <2>1, <3>2, <4>1
    <3> QED BY <3>1, <3>2
  <2>3. v = z
    BY <1>5, <2>1, <2>2, SeqEqual
  <2> QED BY <2>3 DEF v
<1> QED BY <1>6, <1>7 DEF Divided

\* The rows of Root's entries when the first k of them are synced.
SyncedUpTo(D, es, ns, f, h, k) ==
  ItemRows(D, SubSeq(es, 1, k), ns, h) \o ItemRows(D, SubSeq(es, k + 1, Len(es)), ns, f)

\* The rows before and after one more is.
SyncedOne(D, es, ns, f, h, k, p, q) ==
  /\ p = ItemRows(D, SubSeq(es, 1, k), ns, h) /\ p \in Seq(RowsOf) /\ q \in Seq(RowsOf)
  /\ SyncedUpTo(D, es, ns, f, h, k) = (p \o ItemRows(D, <<es[k + 1]>>, ns, f)) \o q
  /\ SyncedUpTo(D, es, ns, f, h, k + 1) = (p \o ItemRows(D, <<es[k + 1]>>, ns, h)) \o q

RowsOfTwo(D, s, t, ns, f) == ItemRows(D, s \o t, ns, f) = ItemRows(D, s, ns, f) \o ItemRows(D, t, ns, f)

\* The rows of entries in two parts.
LEMMA ItemRowsTwo ==
  ASSUME NEW D, NEW ns, NEW f, Flats(D, ns, f), NEW s \in Seq(EntriesOf(D)), NEW t \in Seq(EntriesOf(D))
  PROVE  RowsOfTwo(D, s, t, ns, f)
BY ItemRowsConcat DEF RowsOfTwo

\* The rows around those of one entry.
LEMMA SyncedAround ==
  ASSUME NEW D, NEW ns, NEW f, NEW h, Flats(D, ns, f), Flats(D, ns, h), NEW es \in Seq(EntriesOf(D)),
         NEW k \in 0..(Len(es) - 1)
  PROVE  \E p, q : SyncedOne(D, es, ns, f, h, k, p, q)
<1> DEFINE T == EntriesOf(D)
           V == Seq(RowsOf)
           x == SubSeq(es, 1, k)
           y == SubSeq(es, k + 2, Len(es))
           g == <<es[k + 1]>>
           p == ItemRows(D, x, ns, h)
           q == ItemRows(D, y, ns, f)
           F == ItemRows(D, g, ns, f)
           H == ItemRows(D, g, ns, h)
<1>1. Divided(es, k)
  BY Divides
<1>2. SubSeq(es, 1, k + 1) = x \o g /\ SubSeq(es, k + 1, Len(es)) = g \o y
  BY <1>1 DEF Divided
<1>3. x \in Seq(T) /\ y \in Seq(T) /\ g \in Seq(T)
  <2>1. es[k + 1] \in T
    OBVIOUS
  <2>2. x \in Seq(T) /\ y \in Seq(T)
    OBVIOUS
  <2> QED BY <2>1, <2>2
<1>31. (k + 1) + 1 = k + 2
  OBVIOUS
<1> HIDE DEF x, y, g
<1>4. p \in V /\ q \in V /\ F \in V /\ H \in V
  BY <1>3, ItemRowsTyped DEF T
<1>5. ItemRows(D, x \o g, ns, h) = p \o H /\ ItemRows(D, g \o y, ns, f) = F \o q
  <2>1. x \in Seq(EntriesOf(D)) /\ y \in Seq(EntriesOf(D)) /\ g \in Seq(EntriesOf(D))
    BY <1>3 DEF T
  <2>2. RowsOfTwo(D, x, g, ns, h) /\ RowsOfTwo(D, g, y, ns, f)
    BY <2>1, ItemRowsTwo
  <2> QED BY <2>2, Zenon DEF RowsOfTwo, p, q, F, H
<1>6. SyncedUpTo(D, es, ns, f, h, k) = p \o (F \o q)
  BY <1>2, <1>5 DEF SyncedUpTo, x
<1>7. SyncedUpTo(D, es, ns, f, h, k + 1) = (p \o H) \o q
  <2>1. SyncedUpTo(D, es, ns, f, h, k + 1)
        = ItemRows(D, SubSeq(es, 1, k + 1), ns, h) \o ItemRows(D, SubSeq(es, (k + 1) + 1, Len(es)), ns, f)
    BY DEF SyncedUpTo
  <2>2. SubSeq(es, (k + 1) + 1, Len(es)) = y
    BY <1>31 DEF y
  <2> QED BY <1>2, <1>5, <2>1, <2>2
<1> HIDE DEF p, q, F, H
<1>8. p \o (F \o q) = (p \o F) \o q
  <2>1. RegroupedHead(p, <<>>, F, q)
    <3>1. <<>> \in V
      OBVIOUS
    <3> QED BY <1>4, <3>1, RegroupHead
  <2> QED BY <2>1, Zenon DEF RegroupedHead
<1>9. SyncedOne(D, es, ns, f, h, k, p, q)
  <2>1. SyncedUpTo(D, es, ns, f, h, k) = (p \o F) \o q
    BY <1>6, <1>8, Zenon
  <2> QED BY <1>4, <1>7, <2>1, Zenon DEF SyncedOne, p, x, F, H, g
<1> QED BY <1>9

\* The rows of an entry, of Root's.
EntryRows(D, e, ns, f) == IF SectionOf[e] = NoLink THEN <<Row(e, ns, FALSE)>> ELSE f[SectionOf[e]]

\* A single entry brings its piece.
LEMMA ItemRowsOne ==
  ASSUME NEW D, NEW ns, NEW f, Flats(D, ns, f), NEW e \in EntriesOf(D)
  PROVE  ItemRows(D, <<e>>, ns, f) = EntryRows(D, e, ns, f)
<1> DEFINE G == RowPiece(D, ns, f)
<1>1. G \in [EntriesOf(D) -> Seq(RowsOf)] /\ G[e] = EntryRows(D, e, ns, f)
  BY PiecesTyped DEF RowPiece, EntryRows
<1> HIDE DEF G
<1>2. Joined(<<e>>, G) = G[e]
  BY <1>1, JoinedOne
<1> QED BY <1>1, <1>2 DEF ItemRows, G

\* What a sync of the rows of Root leaves.
SyncedTop(mu, secs, f, h) ==
  SyncedInside(secs[Root].items, SyncedMeasure(mu, secs), SyncedRows(mu, secs), 0, ItemRows(DOMAIN secs, mu[Root], secs[Root].ns, f))
  = ItemRows(DOMAIN secs, mu[Root], secs[Root].ns, h)

\* A sync goes through Root's sections one after the other.
LEMMA InsideRoot ==
  ASSUME NEW mu, NEW secs, NEW f, NEW h, SyncFlats(mu, secs, f, h)
  PROVE  SyncedTop(mu, secs, f, h)
<1> DEFINE D == DOMAIN secs
           V == Seq(RowsOf)
           T == ListItems(secs)
           es == mu[Root]
           ns == secs[Root].ns
           items == secs[Root].items
           measure == SyncedMeasure(mu, secs)
           g == SyncedRows(mu, secs)
           rs == ItemRows(D, es, ns, f)
           n == Len(es)
           t == SectionsSynced(mu, secs)
<1>0. Topped(mu, secs) /\ IsFlat(mu, t, h)
  BY DEF SyncFlats
<1>1. MenuOK(mu) /\ Tree(mu, secs) /\ SyncFlatsParts(mu, secs, f, h) /\ TreeShape(mu, secs) /\ DeepParts(mu, secs)
  BY <1>0, SyncFlatsHave, TreeHasShape, DeepHas DEF Topped
<1>2. Root \in D
  BY <1>1 DEF TreeShape
<1>3. es \in Seq(Entries) /\ es \in Seq(EntriesOf(D)) /\ Flats(D, ns, f) /\ Flats(D, ns, h)
  BY <1>1, <1>2, FlatsHere, TreeEntries DEF SyncFlatsParts
<1>4. items \in Seq(T) /\ Measures(T, measure) /\ items = Items(es) /\ SectionsIn(items) = LinksIn(es)
  BY <1>1, <1>2, SectionMeasured DEF Tree, TreeShape
<1>5. n \in Nat /\ Len(items) = n /\ DOMAIN items = 1..n /\ DOMAIN es = 1..n /\ \A i \in 1..n : items[i] = SectionOf[es[i]] /\ es[i] \in EntriesOf(D)
  <2>1. Len(Items(es)) = n /\ DOMAIN Items(es) = DOMAIN es /\ \A i \in DOMAIN es : Items(es)[i] = SectionOf[es[i]]
    BY <1>3, ItemsShape
  <2>2. n \in Nat /\ DOMAIN es = 1..n /\ \A i \in 1..n : es[i] \in EntriesOf(D)
    BY <1>3
  <2> QED BY <1>4, <2>1, <2>2
<1>6. Counts(D, h, measure)
  <2>1. Tree(mu, t) /\ Measure(t) = measure
    BY <1>1, SyncedTree
  <2>2. DOMAIN t = D
    BY DEF SectionsSynced
  <2>3. t[Root].hasSep = FALSE
    <3>1. t[Root].hasSep = ShouldHaveSeparator(mu, secs, Root) /\ ~ShouldHaveSeparator(mu, secs, Root)
      BY <1>1, <1>2 DEF SyncFlatsParts, DeepParts
    <3> QED BY <3>1 DEF ShouldHaveSeparator
  <2> HIDE DEF t, measure
  <2>4. Counts(DOMAIN t, h, Measure(t))
    BY <1>0, <1>1, <2>1, <2>3, FlatCount
  <2> QED BY <2>1, <2>2, <2>4
<1>7. \A k \in LinksIn(es) : StillInside(mu, secs, k, g) /\ k \in D
  BY <1>0, <1>1, <1>2, TopCalls DEF TreeShape
<1>8. rs \in V /\ 0 \in Nat
  BY <1>3, ItemRowsTyped
<1>9. Acts(items, g)
  <2>1. \A i \in DOMAIN items : items[i] # NoLink => items[i] \in D
    BY <1>1, <1>2, SectionMeasured
  <2>2. g \in [Calls(secs) -> V]
    BY <1>1, SyncedRowsSolved DEF IsSyncedRows
  <2>3. CallsIn(secs)
    BY CallsAre, Zenon
  <2> HIDE DEF g
  <2>4. \A k \in D, o \in Nat, r \in V : g[Call(k, o, r)] \in V
    BY <2>2, <2>3 DEF CallsIn
  <2> QED BY <2>1, <2>4 DEF Acts
<1>10. PICK u : IsInside(items, measure, g, 0, rs, u) /\ SyncedInside(items, measure, g, 0, rs) = u[Len(items)]
  <2> HIDE DEF items, measure, g, rs, T
  <2> QED BY <1>4, <1>8, <1>9, InsideSolved
<1>11. /\ u[0] = rs
       /\ \A i \in 1..n : u[i] = IF items[i] = NoLink THEN u[i - 1] ELSE g[Call(items[i], Due(items, measure, 0, i), u[i - 1])]
  BY <1>5, <1>10 DEF IsInside
<1> HIDE DEF t, measure, g, rs, n, items, T
<1> DEFINE P == {k \in 0..n : u[k] = SyncedUpTo(D, es, ns, f, h, k)}
<1>12. 0 \in P
  <2>1. SubSeq(es, 1, 0) = <<>> /\ SubSeq(es, 0 + 1, Len(es)) = es
    BY <1>3
  <2>2. ItemRows(D, <<>>, ns, h) = <<>>
    BY JoinedEmpty DEF ItemRows
  <2>3. <<>> \o rs = rs
    BY <1>8
  <2>4. SyncedUpTo(D, es, ns, f, h, 0) = rs
    BY <2>1, <2>2, <2>3, Zenon DEF SyncedUpTo, rs
  <2> QED BY <1>5, <1>11, <2>4
<1>13. ASSUME NEW k \in 0..(n - 1), k \in P PROVE k + 1 \in P
  <2> DEFINE e == es[k + 1]
             y == SectionOf[e]
  <2>1. k + 1 \in 1..n /\ k + 1 \in 0..n /\ (k + 1) - 1 = k /\ k \in 0..n /\ k \in Nat /\ k <= n /\ 1 \in Nat \ {0}
    BY <1>5
  <2>2. e \in EntriesOf(D) /\ e \in Entries /\ items[k + 1] = y /\ k \in 0..(Len(es) - 1)
    BY <1>5, <2>1 DEF EntriesOf, n
  <2>3. PICK p, q : SyncedOne(D, es, ns, f, h, k, p, q)
    BY <1>3, <2>2, SyncedAround
  <2> DEFINE F == ItemRows(D, <<e>>, ns, f)
             H == ItemRows(D, <<e>>, ns, h)
  <2>4. /\ p \in V /\ q \in V /\ p = ItemRows(D, SubSeq(es, 1, k), ns, h)
        /\ u[k] = (p \o F) \o q /\ SyncedUpTo(D, es, ns, f, h, k + 1) = (p \o H) \o q
    BY <1>13, <2>3 DEF SyncedOne
  <2>5. F = EntryRows(D, e, ns, f) /\ H = EntryRows(D, e, ns, h)
    <3> HIDE DEF e
    <3> QED BY <1>3, <2>2, ItemRowsOne
  <2>6. u[k + 1] = IF y = NoLink THEN u[k] ELSE g[Call(y, Due(items, measure, 0, k + 1), u[k])]
    BY <1>11, <2>1, <2>2
  <2> HIDE DEF F, H, e
  <2>7. CASE y = NoLink
    <3>1. F = H
      BY <2>5, <2>7 DEF EntryRows
    <3> QED BY <2>1, <2>4, <2>6, <2>7, <3>1
  <2>8. CASE y # NoLink
    <3>1. F = f[y] /\ H = h[y]
      BY <2>5, <2>8 DEF EntryRows
    <3>2. y \in LinksIn(es)
      <4>1. e \in ToSet(es)
        BY <1>5, <2>1 DEF ToSet, e
      <4> QED BY <1>3, <2>2, <2>8, <4>1, LinksInEntries
    <3>3. Due(items, measure, 0, k + 1) = Len(p)
      <4>1. SubSeq(es, 1, k) \in Seq(EntriesOf(D))
        BY <1>3, <1>5, <2>1 DEF n
      <4>2. Len(p) = MeasureItems(Items(SubSeq(es, 1, k)), measure)
        <5> DEFINE s == SubSeq(es, 1, k)
        <5>1. s \in Seq(EntriesOf(D)) /\ p = ItemRows(D, s, ns, h)
          BY <2>4, <4>1
        <5> HIDE DEF ns, es, D, s
        <5>2. Len(ItemRows(D, s, ns, h)) = MeasureItems(Items(s), measure)
          BY <1>3, <1>6, <5>1, ItemRowsCount
        <5> QED BY <5>1, <5>2 DEF s
      <4>3. Items(SubSeq(es, 1, k)) = SubSeq(items, 1, k)
        BY <1>3, <1>4, <2>1, ItemsSubSeq DEF n
      <4>4. Len(p) \in Nat
        BY <2>4
      <4>5. MeasureItems(SubSeq(items, 1, (k + 1) - 1), measure) = Len(p)
        BY <2>1, <4>2, <4>3
      <4> DEFINE l == Len(p)
                 j == MeasureItems(SubSeq(items, 1, (k + 1) - 1), measure)
      <4>6. j = l /\ l \in Nat /\ Due(items, measure, 0, k + 1) = 0 + j
        BY <4>4, <4>5 DEF Due
      <4>7. Due(items, measure, 0, k + 1) = l
        <5> HIDE DEF l, j
        <5> QED BY <4>6
      <4> QED BY <4>7
    <3>4. u[k + 1] = ShowSeparator(mu, secs, y, Len(p), u[k])
      <4>1. StillInside(mu, secs, y, g)
        BY <1>7, <3>2
      <4>2. Len(p) \in Nat /\ u[k] \in V
        <5>1. u[k] \in V
          BY <1>5, <1>10, <2>1 DEF IsInside
        <5> QED BY <2>4, <5>1
      <4>3. g[Call(y, Len(p), u[k])] = ShowSeparator(mu, secs, y, Len(p), u[k])
        BY <4>1, <4>2 DEF StillInside
      <4> QED BY <2>6, <2>8, <3>3, <4>3
    <3>5. ShownThere(mu, secs, y, p, q, f, h)
      <4> HIDE DEF y
      <4> QED BY <2>4, <3>2, TopShown
    <3>6. u[k + 1] = (p \o H) \o q
      BY <2>4, <3>1, <3>4, <3>5, Zenon DEF ShownThere
    <3> QED BY <2>1, <2>4, <3>6
  <2> QED BY <2>7, <2>8
<1> HIDE DEF P
<1>14. \A k \in 0..n : k \in P
  BY <1>5, <1>12, <1>13, UpTo
<1>15. u[n] = SyncedUpTo(D, es, ns, f, h, n)
  BY <1>5, <1>14 DEF P
<1>16. SyncedUpTo(D, es, ns, f, h, n) = ItemRows(D, es, ns, h)
  <2> DEFINE r == ItemRows(D, es, ns, h)
  <2>1. SubSeq(es, 1, n) = es /\ SubSeq(es, n + 1, Len(es)) = <<>>
    BY <1>3, <1>5 DEF n
  <2>2. ItemRows(D, <<>>, ns, f) = <<>>
    BY JoinedEmpty DEF ItemRows
  <2>3. r \in V
    BY <1>3, ItemRowsTyped
  <2> HIDE DEF r
  <2>4. r \o <<>> = r
    BY <2>3
  <2> QED BY <2>1, <2>2, <2>4, Zenon DEF SyncedUpTo, r
<1> QED BY <1>5, <1>10, <1>15, <1>16, Zenon DEF SyncedTop, items, measure, g, rs

-----------------------------------------------------------------------------
(* The handlers leave the rows that the sections should have.              *)

\* The rows that a sync of the rows f leaves are those of h.
LEMMA SyncFlat ==
  ASSUME NEW mu, NEW secs, NEW f, NEW h, SyncFlats(mu, secs, f, h)
  PROVE  SyncSeparators(mu, secs, f[Root]).rows = h[Root]
<1> DEFINE D == DOMAIN secs
           es == mu[Root]
           ns == secs[Root].ns
           rs == ItemRows(D, es, ns, f)
           hs == ItemRows(D, es, ns, h)
           t == SectionsSynced(mu, secs)
           g == SyncedRows(mu, secs)
           inside == SyncedInside(secs[Root].items, SyncedMeasure(mu, secs), g, 0, rs)
           c == Call(Root, 0, rs)
<1>1. Topped(mu, secs)
  BY DEF SyncFlats
<1>2. MenuOK(mu) /\ Tree(mu, secs) /\ SyncFlatsParts(mu, secs, f, h) /\ TreeShape(mu, secs) /\ DeepParts(mu, secs)
  BY <1>1, SyncFlatsHave, TreeHasShape, DeepHas DEF Topped
<1>3. Root \in D /\ ~ShouldHaveSeparator(mu, secs, Root) /\ secs[Root].hasSep = FALSE
  BY <1>2 DEF TreeShape, DeepParts
<1>4. f[Root] = HeadOf(secs, Root) \o rs /\ h[Root] = HeadOf(t, Root) \o hs /\ t[Root].hasSep = ShouldHaveSeparator(mu, secs, Root)
  BY <1>2, <1>3, Zenon DEF SyncFlatsParts
<1>5. rs \in Seq(RowsOf) /\ hs \in Seq(RowsOf)
  <2>1. es \in Seq(EntriesOf(D)) /\ Flats(D, ns, f) /\ Flats(D, ns, h)
    BY <1>2, <1>3, FlatsHere DEF SyncFlatsParts
  <2> QED BY <2>1, ItemRowsTyped
<1>6. HeadOf(secs, Root) = <<>> /\ HeadOf(t, Root) = <<>>
  BY <1>3, <1>4 DEF HeadOf
<1>7. <<>> \o rs = rs /\ <<>> \o hs = hs
  BY <1>5
<1>8. c \in Calls(secs) /\ c.section = Root /\ c.offset = 0 /\ c.rows = rs
  <2>1. 0 \in Nat
    OBVIOUS
  <2> QED BY <1>3, <1>5, <2>1, CallIs
<1>9. \A d \in Calls(secs) : g[d] = ShowSeparator(mu, secs, d.section, d.offset,
                                      SyncedInside(secs[d.section].items, SyncedMeasure(mu, secs), g, d.offset, d.rows))
  BY <1>2, SyncedRowsSolved DEF IsSyncedRows
<1> HIDE DEF g, c, rs, hs, t
<1>10. g[c] = ShowSeparator(mu, secs, Root, 0, inside)
  BY <1>8, <1>9
<1>11. inside = hs
  <2>1. SyncedTop(mu, secs, f, h)
    BY InsideRoot
  <2> QED BY <2>1, Zenon DEF SyncedTop, rs, hs, g
<1>12. g[c] = hs
  <2> HIDE DEF inside
  <2>1. ShowSeparator(mu, secs, Root, 0, inside) = inside
    BY <1>3 DEF ShowSeparator
  <2> QED BY <1>10, <1>11, <2>1
<1>13. f[Root] = rs /\ h[Root] = hs
  BY <1>4, <1>6, <1>7
<1> QED BY <1>12, <1>13 DEF SyncSeparators, g, c

\* The sections K that stay have their separators at the top of the changed tree.
LEMMA ChangedTopped ==
  ASSUME NEW mu, NEW nu, NEW secs, NEW m, NEW pos, NEW removed, NEW es, NEW new,
         MenuOK(mu), MenuOK(nu), Tree(mu, secs), SeparatorsDue(mu, secs), m \in DOMAIN secs,
         Change(mu, nu, m, pos, removed, es), new = SectionsChanged(nu, secs, m, pos, removed, es),
         OrderlyMenu(mu), OrderlyMenu(nu)
  PROVE  Topped(nu, new)
<1>1. PICK a, g, b : Changed(mu, nu, m, pos, removed, es, a, g, b)
  BY ChangeParts
<1> DEFINE F == FreedBelow(secs, Items(g))
           K == DOMAIN secs \ F
           N == NewBelow(nu, es)
<1>2. Graft(mu, nu, secs, m, a, g, b, es, F, K, N)
  BY <1>1, Grafted
<1>3. F = FreedBelow(secs, Items(g)) /\ N = NewBelow(nu, es) /\ K = DOMAIN secs \ F
  OBVIOUS
<1> HIDE DEF F, K, N
<1>4. Regrown(nu, secs, new, m, K, N) /\ Tree(nu, new)
  BY <1>1, <1>2, <1>3, RegrownTree DEF SectionsChanged
<1>5. /\ a \in Seq(Entries) /\ g \in Seq(Entries) /\ b \in Seq(Entries) /\ es \in Seq(Entries)
      /\ mu[m] = (a \o g) \o b /\ nu[m] = (a \o es) \o b
      /\ \A k \in Models : k # m => nu[k] = mu[k]
  BY <1>1 DEF Changed
<1>6. LinksIn(mu[m]) = LinksIn(a) \cup LinksIn(g) \cup LinksIn(b) /\ LinksIn(nu[m]) = LinksIn(a) \cup LinksIn(es) \cup LinksIn(b)
  BY <1>5, LinksInParts
<1>7. LinksIn(g) \subseteq F /\ K \subseteq DOMAIN secs /\ K \cap F = {}
  BY <1>2, <1>3 DEF Graft
<1>8. ASSUME NEW k \in DOMAIN new, new[k].hasSep PROVE k \in LinksIn(nu[Root])
  <2>1. DOMAIN new = K \cup N /\ \A j \in N : new[j].hasSep = FALSE
    BY <1>4 DEF Regrown
  <2>2. k \in K /\ secs[k].hasSep
    BY <1>4, <1>8, <2>1 DEF Regrown
  <2>3. k \in LinksIn(mu[Root])
    <3>1. CouldHaveSeparator(mu, secs, k) /\ k \in DOMAIN secs
      BY <1>7, <2>2 DEF SeparatorsDue
    <3> QED BY <3>1, CouldTop
  <2>4. CASE m = Root
    BY <1>6, <1>7, <2>2, <2>3, <2>4
  <2>5. CASE m # Root
    BY <1>5, <2>3, <2>5, LinkAssumption
  <2> QED BY <2>4, <2>5
<1>9. TopOnly(nu, new)
  BY <1>8 DEF TopOnly
<1> QED BY <1>4, <1>9 DEF Topped

\* Root's section has no separator.
LEMMA RootBare ==
  ASSUME NEW mu, NEW secs, MenuOK(mu), Tree(mu, secs), SeparatorsDue(mu, secs)
  PROVE  secs[Root].hasSep = FALSE
<1>1. Root \in DOMAIN secs
  BY TreeHasShape DEF TreeShape
<1>2. ~CouldHaveSeparator(mu, secs, Root)
  BY <1>1, CouldEntry
<1>3. secs[Root].hasSep \in BOOLEAN
  BY <1>1 DEF Tree, Section
<1> QED BY <1>1, <1>2, <1>3 DEF SeparatorsDue

\* The rows that all the sections should have are those of the model.
FlatRows(mu, secs, rs) == \E f : IsFlat(mu, secs, f) /\ rs = f[Root]

\* A handled change leaves the rows that the sections should have then.
LEMMA ChangedFlat ==
  ASSUME NEW mu, NEW nu, NEW secs, NEW m, NEW pos, NEW removed, NEW es, NEW new, NEW rs,
         MenuOK(mu), MenuOK(nu), Tree(mu, secs), SeparatorsDue(mu, secs), m \in DOMAIN secs,
         Change(mu, nu, m, pos, removed, es), new = SectionsChanged(nu, secs, m, pos, removed, es),
         OrderlyMenu(mu), OrderlyMenu(nu), PlainFirst(es), FlatRows(mu, secs, rs)
  PROVE  LET t == SyncSeparators(nu, new, RowsChanged(nu, secs, new, rs, m, pos, removed, es))
         IN  FlatRows(nu, t.sections, t.rows)
<1>1. PICK f : IsFlat(mu, secs, f) /\ rs = f[Root]
  BY DEF FlatRows
<1>2. Topped(nu, new)
  BY ChangedTopped
<1>3. Tree(nu, new) /\ DeepParts(nu, new)
  BY <1>2, DeepHas DEF Topped
<1>4. new[Root].hasSep = FALSE
  BY <1>3 DEF DeepParts
<1>5. PICK h : IsFlat(nu, new, h)
  BY <1>3, <1>4, FlatThere
<1>6. RowsChanged(nu, secs, new, rs, m, pos, removed, es) = h[Root]
  BY <1>1, <1>5, RowsChangedFlat
<1>7. PICK d : IsFlat(nu, SectionsSynced(nu, new), d)
  <2> DEFINE t == SectionsSynced(nu, new)
  <2>1. Tree(nu, t) /\ SeparatorsDue(nu, t)
    BY <1>3, SyncedTree
  <2> HIDE DEF t
  <2>2. t[Root].hasSep = FALSE
    BY <2>1, RootBare
  <2>3. \E d : IsFlat(nu, t, d)
    BY <2>1, <2>2, FlatThere
  <2> QED BY <2>3 DEF t
<1>8. SyncSeparators(nu, new, h[Root]).rows = d[Root]
  BY <1>2, <1>5, <1>7, SyncFlat DEF SyncFlats
<1> QED BY <1>6, <1>7, <1>8 DEF FlatRows, SyncSeparators

\* The first rows are those that the first sections should have.
LEMMA StartFlat ==
  ASSUME NEW mu, MenuOK(mu), OrderlyMenu(mu), PlainFirst(mu[Root])
  PROVE  FlatRows(mu, TrackerNew(mu).sections, TrackerNew(mu).rows)
<1> DEFINE none == <<>>
           new == SectionsNew(mu, none, {Root})
           N == DOMAIN new
<1>1. Tree(mu, new) /\ \A k \in N : new[k].hasSep = FALSE
  BY StartTree
<1>2. TrackerNew(mu) = SyncSeparators(mu, new, MadeRows(mu, new)[Root])
  BY DEF TrackerNew
<1> HIDE DEF new
<1>3. Root \in N /\ N \subseteq Models /\ \A k \in N : LinksIn(mu[k]) \subseteq N
  BY <1>1, TreeHasShape DEF TreeShape
<1>4. PICK f : IsFlat(mu, new, f)
  BY <1>1, <1>3, FlatThere
<1>5. MadeRows(mu, new)[Root] = f[Root]
  <2>1. \A k \in N : PlainFirst(mu[k])
    BY <1>3 DEF OrderlyMenu
  <2>2. Unmarked(mu, new, N)
    BY <1>1, <1>3, <2>1 DEF Unmarked
  <2> QED BY <1>1, <1>3, <1>4, <2>2, MadeFlat
<1>6. Topped(mu, new)
  BY <1>1 DEF Topped, TopOnly
<1>7. PICK d : IsFlat(mu, SectionsSynced(mu, new), d)
  <2> DEFINE t == SectionsSynced(mu, new)
  <2>1. Tree(mu, t) /\ SeparatorsDue(mu, t)
    BY <1>1, SyncedTree
  <2> HIDE DEF t
  <2>2. t[Root].hasSep = FALSE
    BY <2>1, RootBare
  <2>3. \E d : IsFlat(mu, t, d)
    BY <2>1, <2>2, FlatThere
  <2> QED BY <2>3 DEF t
<1>8. SyncSeparators(mu, new, f[Root]).rows = d[Root]
  BY <1>4, <1>6, <1>7, SyncFlat DEF SyncFlats
<1> QED BY <1>2, <1>5, <1>7, <1>8 DEF FlatRows, SyncSeparators

-----------------------------------------------------------------------------
(* The namespaces of the sections.                                         *)

\* Each section has the namespace that the one around it hands down.
Named(mu, secs) ==
  /\ secs[Root].ns = RootNamespace
  /\ \A p \in DOMAIN secs : \A k \in LinksIn(mu[p]) : secs[k].ns = ChildNamespace(secs[p].ns, LinkOf(k))

\* The first sections have theirs.
LEMMA StartNamed ==
  ASSUME NEW mu, MenuOK(mu)
  PROVE  Named(mu, SectionsNew(mu, <<>>, {Root}))
<1> DEFINE none == <<>>
           N == Below(Links(mu), {Root})
           new == SectionsNew(mu, none, {Root})
<1>1. DOMAIN none = {}
  OBVIOUS
<1> HIDE DEF none
<1>2. Tree(mu, new)
  BY StartTree DEF none
<1>3. DOMAIN new = N
  BY <1>2 DEF Tree
<1>4. TreeShape(mu, new)
  BY <1>2, TreeHasShape
<1>5. Root \in N /\ N \subseteq Models /\ (\A p \in N : LinksIn(mu[p]) \subseteq N)
      /\ \A k \in N \ {Root} : \E p \in N : k \in LinksIn(mu[p])
  BY <1>3, <1>4 DEF TreeShape
<1>6. HasNew(mu, none, N, new)
  <2>1. Supported(mu, none, N)
    BY <1>1, <1>5 DEF Supported
  <2> QED BY <2>1, SectionsNewIs
<1> HIDE DEF new, N
<1>7. /\ new[Root].ns = RootNamespace
      /\ \A k \in N : \A p \in N : k \in LinksIn(mu[p]) => new[k].ns = ChildNamespace(new[p].ns, LinkOf(k))
  BY <1>1, <1>5, <1>6 DEF HasNew
<1>8. Named(mu, new)
  BY <1>3, <1>5, <1>7 DEF Named
<1> QED BY <1>8 DEF new, none

\* A sync leaves them.
LEMMA SyncedNamed ==
  ASSUME NEW mu, NEW secs, MenuOK(mu), Tree(mu, secs), Named(mu, secs)
  PROVE  Named(mu, SectionsSynced(mu, secs))
<1> DEFINE t == SectionsSynced(mu, secs)
<1>1. IsSynced(mu, secs, t)
  BY TreeNested, SyncedIs
<1>2. TreeShape(mu, secs)
  BY TreeHasShape
<1> HIDE DEF t
<1>3. DOMAIN t = DOMAIN secs /\ \A m \in DOMAIN secs : t[m].ns = secs[m].ns
  BY <1>1 DEF IsSynced
<1>4. Root \in DOMAIN secs /\ \A p \in DOMAIN secs : LinksIn(mu[p]) \subseteq DOMAIN secs
  BY <1>2 DEF TreeShape
<1>5. Named(mu, t)
  BY <1>3, <1>4 DEF Named
<1> QED BY <1>5 DEF t

\* The sections after a change have theirs: those that stay are around the same.
LEMMA ChangedNamed ==
  ASSUME NEW mu, NEW nu, NEW secs, NEW m, NEW pos, NEW removed, NEW es, NEW new,
         MenuOK(mu), MenuOK(nu), Tree(mu, secs), Named(mu, secs), m \in DOMAIN secs,
         Change(mu, nu, m, pos, removed, es), new = SectionsChanged(nu, secs, m, pos, removed, es)
  PROVE  Named(nu, new)
<1>1. PICK a, g, b : Changed(mu, nu, m, pos, removed, es, a, g, b)
  BY ChangeParts
<1> DEFINE F == FreedBelow(secs, Items(g))
           K == DOMAIN secs \ F
           N == NewBelow(nu, es)
<1>2. Graft(mu, nu, secs, m, a, g, b, es, F, K, N)
  BY <1>1, Grafted
<1>3. F = FreedBelow(secs, Items(g)) /\ N = NewBelow(nu, es) /\ K = DOMAIN secs \ F
  OBVIOUS
<1> HIDE DEF F, K, N
<1>4. Regrown(nu, secs, new, m, K, N) /\ Tree(nu, new)
  BY <1>1, <1>2, <1>3, RegrownTree DEF SectionsChanged
<1>5. /\ a \in Seq(Entries) /\ g \in Seq(Entries) /\ b \in Seq(Entries) /\ es \in Seq(Entries)
      /\ mu[m] = (a \o g) \o b /\ nu[m] = (a \o es) \o b
      /\ \A k \in Models : k # m => nu[k] = mu[k]
  BY <1>1 DEF Changed
<1>6. LinksIn(mu[m]) = LinksIn(a) \cup LinksIn(g) \cup LinksIn(b) /\ LinksIn(nu[m]) = LinksIn(a) \cup LinksIn(es) \cup LinksIn(b)
  BY <1>5, LinksInParts
<1>7. /\ K \subseteq DOMAIN secs /\ Root \in K /\ K \cap N = {} /\ LinksIn(es) \subseteq N
      /\ \A k \in N : LinksIn(nu[k]) \subseteq N
  BY <1>2, <1>3 DEF Graft
<1>8. /\ DOMAIN new = K \cup N /\ \A k \in K : new[k].ns = secs[k].ns
      /\ \A k \in N : \A p \in K \cup N : k \in LinksIn(nu[p]) => new[k].ns = ChildNamespace(new[p].ns, LinkOf(k))
  BY <1>4 DEF Regrown
<1>9. DOMAIN secs \subseteq Models /\ \A p \in DOMAIN new : LinksIn(nu[p]) \subseteq DOMAIN new
  BY <1>4, TreeHasShape DEF TreeShape
<1>10. new[Root].ns = RootNamespace
  BY <1>7, <1>8 DEF Named
<1>11. ASSUME NEW p \in DOMAIN new, NEW k \in LinksIn(nu[p]) PROVE new[k].ns = ChildNamespace(new[p].ns, LinkOf(k))
  <2>1. k \in K \cup N /\ p \in K \cup N
    BY <1>8, <1>9
  <2>2. CASE k \in N
    BY <1>8, <2>1, <2>2
  <2>3. CASE k \in K
    <3>1. p \in K
      BY <1>7, <2>1, <2>3
    <3>2. k \in LinksIn(mu[p])
      <4>1. CASE p = m
        BY <1>6, <1>7, <2>3, <4>1
      <4>2. CASE p # m
        BY <1>5, <1>7, <1>9, <3>1, <4>2
      <4> QED BY <4>1, <4>2
    <3>3. secs[k].ns = ChildNamespace(secs[p].ns, LinkOf(k))
      BY <1>7, <3>1, <3>2 DEF Named
    <3> QED BY <1>8, <2>3, <3>1, <3>3
  <2> QED BY <2>1, <2>2, <2>3
<1> QED BY <1>10, <1>11 DEF Named

\* A change of a model that Root does not lead to leaves them, and the rows.
LEMMA OutsideNamed ==
  ASSUME NEW mu, NEW nu, NEW secs, NEW m, NEW pos, NEW removed, NEW es, MenuOK(mu), Tree(mu, secs),
         m \notin DOMAIN secs, Change(mu, nu, m, pos, removed, es)
  PROVE  /\ Named(mu, secs) => Named(nu, secs)
         /\ \A rs : FlatRows(mu, secs, rs) => FlatRows(nu, secs, rs)
<1>1. DOMAIN secs \subseteq Models
  BY TreeHasShape DEF TreeShape
<1>2. \A k \in DOMAIN secs : nu[k] = mu[k]
  BY <1>1 DEF Change, MenuOK
<1>3. Named(mu, secs) => Named(nu, secs)
  BY <1>2 DEF Named
<1>4. ASSUME NEW rs, FlatRows(mu, secs, rs) PROVE FlatRows(nu, secs, rs)
  <2>1. PICK f : IsFlat(mu, secs, f) /\ rs = f[Root]
    BY <1>4 DEF FlatRows
  <2>2. IsFlat(nu, secs, f)
    BY <1>2, <2>1 DEF IsFlat
  <2> QED BY <2>1, <2>2 DEF FlatRows
<1> QED BY <1>3, <1>4

-----------------------------------------------------------------------------
(* The flattened menu, by its defining equation.                           *)

SeparatorRow(e) == <<Row(e, <<>>, TRUE)>>

\* What Flatten makes of the entry e, the i-th of m.
FlatEntry(m, i, e, ns, g) ==
  IF SectionOf[e] = NoLink THEN <<Row(e, ns, FALSE)>>
  ELSE LET inside == g[<<SectionOf[e], ns \o Namespace[e]>>]
           divided == inside # <<>> /\ ((m = Root /\ i > 1) \/ e \in Labelled)
       IN  (IF divided THEN SeparatorRow(e) ELSE <<>>) \o inside

FlatEntries(m, es, ns, g) == [i \in DOMAIN es |-> FlatEntry(m, i, es[i], ns, g)]

\* The namespaces of two levels make a namespace.
LEMMA NamespaceTyped ==
  ASSUME NEW ns \in Namespaces, NEW e \in Entries
  PROVE  ns \o Namespace[e] \in Namespaces
<1> DEFINE T == STRING
<1>1. Namespace[e] \in Namespaces
  BY LinkAssumption
<1>2. Namespaces = Seq(T)
  BY DEF Namespaces
<1> HIDE DEF T
<1> QED BY <1>1, <1>2

\* An entry makes rows.
LEMMA FlatEntryTyped ==
  ASSUME NEW m, NEW i, NEW e \in Entries, NEW ns \in Namespaces, NEW g,
         SectionOf[e] # NoLink => g[<<SectionOf[e], ns \o Namespace[e]>>] \in Seq(RowsOf)
  PROVE  FlatEntry(m, i, e, ns, g) \in Seq(RowsOf)
<1> DEFINE inside == g[<<SectionOf[e], ns \o Namespace[e]>>]
           divided == inside # <<>> /\ ((m = Root /\ i > 1) \/ e \in Labelled)
           head == IF divided THEN SeparatorRow(e) ELSE <<>>
           s == SeparatorRow(e)
           p == <<Row(e, ns, FALSE)>>
<1>1. FlatEntry(m, i, e, ns, g) = IF SectionOf[e] = NoLink THEN p ELSE head \o inside
  BY Zenon DEF FlatEntry
<1>2. p \in Seq(RowsOf)
  <2> DEFINE r == Row(e, ns, FALSE)
  <2>1. r \in RowsOf
    BY DEF Row, RowsOf
  <2> HIDE DEF r
  <2>2. <<r>> \in Seq(RowsOf)
    BY <2>1
  <2> QED BY <2>2 DEF r
<1>3. s \in Seq(RowsOf)
  <2> DEFINE W == Namespaces
             none == <<>>
  <2>1. none \in W
    BY DEF Namespaces
  <2> HIDE DEF W, none
  <2>2. [entry |-> e, ns |-> none, separator |-> TRUE] \in [entry : Entries, ns : W, separator : BOOLEAN]
    BY <2>1
  <2>3. Row(e, none, TRUE) \in RowsOf
    BY <2>2 DEF Row, RowsOf, W
  <2> DEFINE r == Row(e, none, TRUE)
  <2>4. r \in RowsOf
    BY <2>3
  <2> HIDE DEF r
  <2>5. <<r>> \in Seq(RowsOf)
    BY <2>4
  <2> QED BY <2>5 DEF SeparatorRow, r, none
<1>4. head \in Seq(RowsOf)
  <2>1. <<>> \in Seq(RowsOf)
    OBVIOUS
  <2> HIDE DEF divided, s
  <2> QED BY <1>3, <2>1 DEF s
<1> HIDE DEF inside, head, p
<1>5. CASE SectionOf[e] = NoLink
  BY <1>1, <1>2, <1>5
<1>6. CASE SectionOf[e] # NoLink
  <2>1. inside \in Seq(RowsOf)
    BY <1>6 DEF inside
  <2>2. head \o inside \in Seq(RowsOf)
    BY <1>4, <2>1
  <2> QED BY <1>1, <1>6, <2>2
<1> QED BY <1>5, <1>6

\* The rows of a model in a namespace.
FlatModel(mu, m, ns, g) == FlattenSeq(FlatEntries(m, mu[m], ns, g))

\* What a model links has rows further down.
FlatBelow(mu, m, g) ==
  \A k \in Models, ns \in Namespaces : Height[k] < Height[m] => g[<<k, ns>>] \in Seq(RowsOf)

\* A model in a namespace has rows.
LEMMA FlatModelTyped ==
  ASSUME NEW mu, MenuOK(mu), NEW m \in Models, NEW ns \in Namespaces, NEW g, FlatBelow(mu, m, g)
  PROVE  FlatModel(mu, m, ns, g) \in Seq(RowsOf)
<1> DEFINE es == mu[m]
           V == Seq(RowsOf)
           w == FlatEntries(m, es, ns, g)
           n == Len(es)
<1>1. es \in Seq(Entries) /\ WellNested(m, es)
  BY DEF MenuOK
<1>2. n \in Nat /\ DOMAIN es = 1..n /\ \A i \in 1..n : es[i] \in Entries
  BY <1>1
<1>3. ASSUME NEW i \in 1..n PROVE FlatEntry(m, i, es[i], ns, g) \in V
  <2> DEFINE e == es[i]
  <2>1. e \in Entries /\ (SectionOf[e] # NoLink => Height[SectionOf[e]] < Height[m])
    BY <1>1, <1>2 DEF WellNested
  <2> HIDE DEF e
  <2>2. SectionOf[e] # NoLink => SectionOf[e] \in Models
    BY <2>1, LinkAssumption
  <2>3. ns \o Namespace[e] \in Namespaces
    BY <2>1, NamespaceTyped
  <2>4. SectionOf[e] # NoLink => g[<<SectionOf[e], ns \o Namespace[e]>>] \in Seq(RowsOf)
    BY <2>1, <2>2, <2>3 DEF FlatBelow
  <2>5. FlatEntry(m, i, e, ns, g) \in V
    BY <2>1, <2>4, FlatEntryTyped
  <2> QED BY <2>5 DEF e
<1>4. w = [i \in 1..n |-> FlatEntry(m, i, es[i], ns, g)]
  BY <1>2 DEF FlatEntries
<1> HIDE DEF V, w
<1>5. w \in Seq(V)
  BY <1>2, <1>3, <1>4, IsASeq
<1> QED BY <1>5, FlattenType DEF FlatModel, w, V

\* Two functions that agree further down make the same rows of a model.
LEMMA FlatModelSame ==
  ASSUME NEW mu, MenuOK(mu), NEW m \in Models, NEW ns \in Namespaces, NEW g, NEW h,
         \A k \in Models, x \in Namespaces : Height[k] < Height[m] => g[<<k, x>>] = h[<<k, x>>]
  PROVE  FlatModel(mu, m, ns, g) = FlatModel(mu, m, ns, h)
<1> DEFINE es == mu[m]
<1>1. es \in Seq(Entries) /\ WellNested(m, es)
  BY DEF MenuOK
<1>2. ASSUME NEW i \in DOMAIN es PROVE FlatEntry(m, i, es[i], ns, g) = FlatEntry(m, i, es[i], ns, h)
  <2> DEFINE e == es[i]
             c == <<SectionOf[e], ns \o Namespace[e]>>
  <2>1. e \in Entries /\ (SectionOf[e] # NoLink => Height[SectionOf[e]] < Height[m])
    BY <1>1 DEF WellNested
  <2> HIDE DEF e
  <2>2. SectionOf[e] # NoLink => SectionOf[e] \in Models
    BY <2>1, LinkAssumption
  <2>3. ns \o Namespace[e] \in Namespaces
    BY <2>1, NamespaceTyped
  <2>4. SectionOf[e] # NoLink => g[c] = h[c]
    BY <2>1, <2>2, <2>3
  <2>5. FlatEntry(m, i, e, ns, g) = FlatEntry(m, i, e, ns, h)
    BY <2>4, Zenon DEF FlatEntry
  <2> QED BY <2>5 DEF e
<1>3. FlatEntries(m, es, ns, g) = FlatEntries(m, es, ns, h)
  BY <1>2, Zenon DEF FlatEntries
<1> QED BY <1>3 DEF FlatModel

IsFlatten(mu, f) ==
  /\ f \in [Models \X Namespaces -> Seq(RowsOf)]
  /\ \A m \in Models, ns \in Namespaces : f[<<m, ns>>] = FlatModel(mu, m, ns, f)

\* The flattened models, by their defining equation.
LEMMA FlattenSolved ==
  ASSUME MenuOK(menu)
  PROVE  IsFlatten(menu, Flatten)
<1> DEFINE S == Models \X Namespaces
           V == Seq(RowsOf)
           rank == [at \in S |-> Height[at[1]]]
           E(at, g) == FlatModel(menu, at[1], at[2], g)
           D == [p \in S \X [S -> V] |-> E(p[1], p[2])]
           Eq(t) == t = [at \in Models \X Namespaces |->
              FlattenSeq([i \in DOMAIN menu[at[1]] |->
                LET e == menu[at[1]][i] IN
                IF SectionOf[e] = NoLink THEN <<Row(e, at[2], FALSE)>>
                ELSE LET inside == t[<<SectionOf[e], at[2] \o Namespace[e]>>]
                         divided == inside # <<>> /\ ((at[1] = Root /\ i > 1) \/ e \in Labelled)
                     IN  (IF divided THEN <<Row(e, <<>>, TRUE)>> ELSE <<>>) \o inside])]
<1>1. rank \in [S -> Nat] /\ V # {} /\ \A m \in Models, ns \in Namespaces : rank[<<m, ns>>] = Height[m] /\ <<m, ns>> \in S
  <2>1. \A at \in S : at[1] \in Models
    OBVIOUS
  <2>2. rank \in [S -> Nat]
    BY <2>1, LinkAssumption
  <2>3. <<>> \in V
    OBVIOUS
  <2> QED BY <2>2, <2>3
<1>2. \A at \in S, g \in [S -> V] : D[<<at, g>>] = E(at, g)
  OBVIOUS
<1>20. \A at \in S : at[1] \in Models /\ at[2] \in Namespaces /\ at = <<at[1], at[2]>> /\ rank[at] = Height[at[1]]
  OBVIOUS
<1> HIDE DEF S, rank
<1>3. ASSUME NEW at \in S, NEW g, \A k \in S : rank[k] < rank[at] => g[k] \in V
      PROVE  E(at, g) \in V
  <2> DEFINE m == at[1]
             ns == at[2]
  <2>1. m \in Models /\ ns \in Namespaces
    BY <1>20
  <2>2. FlatBelow(menu, m, g)
    BY <1>1, <1>3, <1>20 DEF FlatBelow
  <2> HIDE DEF m, ns
  <2>3. FlatModel(menu, m, ns, g) \in V
    BY <2>1, <2>2, FlatModelTyped
  <2> QED BY <2>3 DEF m, ns
<1>4. D \in [S \X [S -> V] -> V]
  <2>1. \A at \in S, g \in [S -> V] : E(at, g) \in V
    <3> SUFFICES ASSUME NEW at \in S, NEW g \in [S -> V] PROVE E(at, g) \in V
      OBVIOUS
    <3> HIDE DEF E, V
    <3> QED BY <1>3
  <2> HIDE DEF E
  <2> QED BY <2>1
<1>5. ASSUME NEW at \in S, NEW g, NEW h, \A k \in S : rank[k] < rank[at] => g[k] = h[k]
      PROVE  E(at, g) = E(at, h)
  <2> DEFINE m == at[1]
             ns == at[2]
  <2>1. m \in Models /\ ns \in Namespaces
    BY <1>20
  <2>2. \A k \in Models, x \in Namespaces : Height[k] < Height[m] => g[<<k, x>>] = h[<<k, x>>]
    BY <1>1, <1>5, <1>20
  <2> HIDE DEF m, ns
  <2>3. FlatModel(menu, m, ns, g) = FlatModel(menu, m, ns, h)
    BY <2>1, <2>2, FlatModelSame
  <2> QED BY <2>3 DEF m, ns
<1>6. Recursive(S, V, rank, D)
  <2> HIDE DEF rank, D, S, V, E
  <2> QED BY <1>1, <1>2, <1>4, <1>5 DEF Recursive
<1> HIDE DEF rank, D, S, V, E
<1>7. PICK f : Solves(f, S, V, D)
  BY <1>6, Recursion
<1>70. \A t : Eq(t) <=> t = [at \in S |-> E(at, t)]
  BY Zenon DEF E, S, FlatModel, FlatEntries, FlatEntry, SeparatorRow
<1>8. Eq(f)
  <2>1. f \in [S -> V] /\ \A at \in S : f[at] = E(at, f)
    BY <1>2, <1>7, Zenon DEF Solves
  <2>2. f = [at \in S |-> E(at, f)]
    BY <2>1
  <2> HIDE DEF Eq
  <2> QED BY <1>70, <2>2
<1> DEFINE t == CHOOSE t : Eq(t)
<1>9. Eq(t)
  <2> HIDE DEF Eq
  <2> QED BY <1>8
<1>10. Flatten = t
  BY DEF Flatten
<1> HIDE DEF t
<1>90. t = [at \in S |-> E(at, t)]
  <2> HIDE DEF Eq
  <2> QED BY <1>9, <1>70
<1> HIDE DEF Eq
<1>11. \A at \in S : t[at] = E(at, t)
  BY <1>90
<1>12. \A at \in S : t[at] \in V
  <2> DEFINE P == {k \in S : t[k] \in V}
  <2>1. ASSUME NEW at \in S, \A k \in S : rank[k] < rank[at] => k \in P PROVE at \in P
    <3>1. \A k \in S : rank[k] < rank[at] => t[k] \in V
      BY <2>1
    <3>2. E(at, t) \in V
      BY <1>3, <3>1
    <3> QED BY <1>11, <3>2
  <2> HIDE DEF P
  <2>2. \A at \in S : at \in P
    BY <1>1, <2>1, RankInduction
  <2> QED BY <2>2 DEF P
<1>13. t \in [S -> V]
  BY <1>12, <1>90
<1>14. \A m \in Models, ns \in Namespaces : t[<<m, ns>>] = FlatModel(menu, m, ns, t)
  <2> SUFFICES ASSUME NEW m \in Models, NEW ns \in Namespaces PROVE t[<<m, ns>>] = FlatModel(menu, m, ns, t)
    OBVIOUS
  <2>1. <<m, ns>> \in S
    BY <1>1
  <2> QED BY <1>11, <2>1 DEF E
<1> QED BY <1>10, <1>13, <1>14 DEF IsFlatten, S, V

-----------------------------------------------------------------------------
(* The rows of the sections are those of the flattened menu.               *)

\* Whether an entry's section could have a separator is seen where it is linked.
LEMMA CouldHere ==
  ASSUME NEW mu, NEW secs, MenuOK(mu), Tree(mu, secs), NEW m \in DOMAIN secs,
         NEW i \in DOMAIN mu[m], NEW x, x = SectionOf[mu[m][i]], x # NoLink
  PROVE  CouldHaveSeparator(mu, secs, x) <=> (m = Root /\ i > 1) \/ mu[m][i] \in Labelled
<1>1. \A p \in DOMAIN secs : p \in Models /\ mu[p] \in Seq(Entries) /\ secs[p].items = Items(mu[p]) /\ WellNested(p, mu[p])
  BY TreeHasShape DEF TreeShape, Tree, MenuOK
<1>2. \A p \in DOMAIN secs : DOMAIN secs[p].items = DOMAIN mu[p] /\ \A j \in DOMAIN mu[p] : secs[p].items[j] = SectionOf[mu[p][j]]
  BY <1>1, ItemsShape
<1>3. ASSUME NEW p \in DOMAIN secs, NEW j \in DOMAIN secs[p].items, secs[p].items[j] = x PROVE p = m /\ j = i
  <2>1. /\ j \in DOMAIN mu[p] /\ SectionOf[mu[p][j]] = x
        /\ mu[p][j] \in Entries /\ mu[m][i] \in Entries
    BY <1>1, <1>2, <1>3
  <2>2. mu[p][j] = mu[m][i]
    BY <2>1, LinkAssumption
  <2>3. mu[p][j] \in ToSet(mu[p]) /\ mu[m][i] \in ToSet(mu[m])
    BY <2>1 DEF ToSet
  <2>4. p = m
    BY <1>1, <2>2, <2>3 DEF MenuOK
  <2> QED BY <1>1, <2>1, <2>2, <2>4 DEF WellNested
<1>4. i \in DOMAIN secs[m].items /\ secs[m].items[i] = x
  BY <1>2
<1> QED BY <1>3, <1>4 DEF CouldHaveSeparator

\* The hypothesis of the theorem: with a namespace around all the menu, or none at
\* all, g_strjoin hands down what it should.
NamespacesReach == RootNamespace # <<>> \/ \A e \in Entries : Namespace[e] = <<>>

\* Then each section's namespace ends with the entry's own.
LEMMA NamesReach ==
  ASSUME NEW mu, NEW secs, MenuOK(mu), Tree(mu, secs), Named(mu, secs), NamespacesReach,
         NEW m \in DOMAIN secs, NEW e \in Entries
  PROVE  ChildNamespace(secs[m].ns, e) = secs[m].ns \o Namespace[e]
<1>1. CASE \A f \in Entries : Namespace[f] = <<>>
  <2> DEFINE T == STRING
             ns == secs[m].ns
  <2>1. ns \in Seq(T) /\ Namespace[e] = <<>>
    BY <1>1, TreeEntries DEF Namespaces
  <2> HIDE DEF T, ns
  <2>2. ns \o <<>> = ns
    BY <2>1
  <2> QED BY <2>1, <2>2 DEF ChildNamespace, ns
<1>2. CASE RootNamespace # <<>>
  <2> DEFINE S == {k \in DOMAIN secs : secs[k].ns # <<>>}
             T == STRING
  <2>1. TreeShape(mu, secs) /\ LinksOK(mu)
    BY TreeHasShape, MenuLinks
  <2>2. Root \in S
    BY <1>2, <2>1 DEF Named, TreeShape
  <2>3. ASSUME NEW j \in S, NEW k \in LinksIn(mu[j]) PROVE k \in S
    <3>1. k \in DOMAIN secs /\ j \in DOMAIN secs /\ j \in Models
      BY <2>1 DEF TreeShape
    <3> DEFINE l == LinkOf(k)
               ns == secs[j].ns
               own == Namespace[l]
    <3>2. secs[k].ns = ChildNamespace(ns, l)
      BY <3>1 DEF Named
    <3>3. l \in Entries
      BY <3>1, AroundIs
    <3>4. ns \in Seq(T) /\ own \in Seq(T) /\ ns # <<>>
      BY <3>1, <3>3, TreeEntries, LinkAssumption DEF Namespaces
    <3> HIDE DEF T
    <3>5. secs[k].ns = ns \o own
      BY <3>2, <3>4 DEF ChildNamespace
    <3> HIDE DEF ns, own, l
    <3>6. ns \o own # <<>>
      BY <3>4
    <3> QED BY <3>1, <3>5, <3>6
  <2>4. S = DOMAIN secs
    <3>1. S \in SUBSET DOMAIN secs /\ \A j \in S : LinksIn(mu[j]) \subseteq S
      BY <2>3
    <3> HIDE DEF S
    <3> QED BY <2>1, <2>2, <3>1 DEF TreeShape
  <2> QED BY <2>4 DEF ChildNamespace
<1> QED BY <1>1, <1>2 DEF NamespacesReach

\* A menu whose sections are in order, f their rows and fl those of the models.
Flattens(mu, secs, f, fl) ==
  /\ MenuOK(mu) /\ Tree(mu, secs) /\ SeparatorsDue(mu, secs) /\ Named(mu, secs) /\ NamespacesReach
  /\ IsFlat(mu, secs, f) /\ IsFlatten(mu, fl)

\* fl has of k the rows inside its section.
FlattenedTo(mu, secs, f, fl, k) == fl[<<k, secs[k].ns>>] = ItemRows(DOMAIN secs, mu[k], secs[k].ns, f)

\* An entry makes the rows that its section should have.
LEMMA FlattenedEntry ==
  ASSUME NEW mu, NEW secs, NEW f, NEW fl, Flattens(mu, secs, f, fl), NEW m \in DOMAIN secs,
         NEW i \in DOMAIN mu[m], NEW e, e = mu[m][i], SectionOf[e] # NoLink,
         FlattenedTo(mu, secs, f, fl, SectionOf[e])
  PROVE  FlatEntry(m, i, e, secs[m].ns, fl) = f[SectionOf[e]]
<1> DEFINE x == SectionOf[e]
           D == DOMAIN secs
           ns == secs[m].ns
           nx == secs[x].ns
           r == ItemRows(D, mu[x], nx, f)
           due == (m = Root /\ i > 1) \/ e \in Labelled
           own == ns \o Namespace[e]
           measure == Measure(secs)
           has == secs[x].hasSep
<1>1. /\ MenuOK(mu) /\ Tree(mu, secs) /\ SeparatorsDue(mu, secs) /\ Named(mu, secs) /\ NamespacesReach
      /\ IsFlat(mu, secs, f) /\ IsFlatten(mu, fl)
  BY DEF Flattens
<1>2. mu[m] \in Seq(Entries) /\ m \in Models /\ ns \in Namespaces
  BY <1>1, TreeEntries
<1>3. e \in Entries /\ e \in ToSet(mu[m])
  BY <1>2 DEF ToSet
<1>4. x \in LinksIn(mu[m]) /\ LinkOf(x) = e
  BY <1>2, <1>3, LinksInEntries, LinkOfSection
<1>5. x \in D
  BY <1>1, <1>4, TreeEntries
<1>6. nx = own
  <2>1. nx = ChildNamespace(ns, e)
    BY <1>1, <1>4 DEF Named
  <2>2. ChildNamespace(ns, e) = own
    BY <1>1, <1>3, NamesReach
  <2> QED BY <2>1, <2>2
<1>7. fl[<<x, own>>] = r
  BY <1>6 DEF FlattenedTo
<1>8. f \in [D -> Seq(RowsOf)] /\ f[x] = HeadOf(secs, x) \o r
  BY <1>1, <1>5, Zenon DEF IsFlat
<1>9. mu[x] \in Seq(EntriesOf(D)) /\ Flats(D, nx, f)
  BY <1>1, <1>5, <1>8, FlatsHere
<1>10. r \in Seq(RowsOf)
  BY <1>9, ItemRowsTyped
<1>11. Len(r) = MeasureItems(secs[x].items, measure)
  <2>1. secs[Root].hasSep = FALSE
    BY <1>1, RootBare
  <2>2. Counts(D, f, measure)
    BY <1>1, <2>1, FlatCount
  <2>3. secs[x].items = Items(mu[x])
    BY <1>1, <1>5 DEF Tree
  <2> HIDE DEF D, measure, nx, x
  <2>4. Len(r) = MeasureItems(Items(mu[x]), measure)
    BY <1>9, <2>2, ItemRowsCount
  <2> QED BY <2>3, <2>4
<1>12. has <=> due /\ r # <<>>
  <2>1. CouldHaveSeparator(mu, secs, x) <=> due
    BY <1>1, CouldHere
  <2>2. has <=> CouldHaveSeparator(mu, secs, x) /\ MeasureItems(secs[x].items, measure) # 0
    BY <1>1, <1>5 DEF SeparatorsDue
  <2>3. Len(r) # 0 <=> r # <<>>
    <3> HIDE DEF r
    <3> QED BY <1>10
  <2> HIDE DEF r, due
  <2> QED BY <1>11, <2>1, <2>2, <2>3
<1>13. HeadOf(secs, x) = IF due /\ r # <<>> THEN SeparatorRow(e) ELSE <<>>
  <2>1. SeparatorOf(x) = SeparatorRow(e)
    BY <1>4 DEF SeparatorOf, SeparatorRow
  <2> HIDE DEF r, due, x
  <2> QED BY <1>12, <2>1 DEF HeadOf
<1>14. FlatEntry(m, i, e, ns, fl) = (IF r # <<>> /\ due THEN SeparatorRow(e) ELSE <<>>) \o r
  BY <1>7, Zenon DEF FlatEntry
<1> HIDE DEF r, due
<1>15. (IF r # <<>> /\ due THEN SeparatorRow(e) ELSE <<>>) = HeadOf(secs, x)
  BY <1>13
<1> QED BY <1>8, <1>14, <1>15, Zenon

\* All models that Root leads to do.
LEMMA FlattenedAll ==
  ASSUME NEW mu, NEW secs, NEW f, NEW fl, Flattens(mu, secs, f, fl)
  PROVE  \A m \in DOMAIN secs : FlattenedTo(mu, secs, f, fl, m)
<1> DEFINE D == DOMAIN secs
           rank == HeightOf(secs)
           P == {m \in D : FlattenedTo(mu, secs, f, fl, m)}
<1>1. MenuOK(mu) /\ Tree(mu, secs) /\ IsFlat(mu, secs, f) /\ IsFlatten(mu, fl)
  BY DEF Flattens
<1>2. rank \in [D -> Nat] /\ \A k \in D : rank[k] = Height[k]
  BY <1>1, TreeNested, HeightTyped DEF HeightOf
<1>3. ASSUME NEW m \in D, \A k \in D : rank[k] < rank[m] => k \in P PROVE m \in P
  <2> DEFINE es == mu[m]
             ns == secs[m].ns
             G == RowPiece(D, ns, f)
  <2>1. /\ es \in Seq(Entries) /\ es \in Seq(EntriesOf(D)) /\ m \in Models /\ ns \in Namespaces
        /\ \A k \in LinksIn(es) : k \in D /\ Height[k] < Height[m]
    BY <1>1, TreeEntries
  <2>2. \A k \in LinksIn(es) : FlattenedTo(mu, secs, f, fl, k)
    BY <1>2, <1>3, <2>1
  <2>3. ASSUME NEW i \in DOMAIN es PROVE FlatEntry(m, i, es[i], ns, fl) = G[es[i]]
    <3> DEFINE e == es[i]
    <3>1. e \in EntriesOf(D) /\ e \in Entries /\ e \in ToSet(es)
      BY <2>1 DEF ToSet
    <3>2. G[e] = IF SectionOf[e] = NoLink THEN <<Row(e, ns, FALSE)>> ELSE f[SectionOf[e]]
      BY <3>1 DEF RowPiece
    <3>3. CASE SectionOf[e] = NoLink
      <4>1. FlatEntry(m, i, e, ns, fl) = <<Row(e, ns, FALSE)>>
        BY <3>3, Zenon DEF FlatEntry
      <4> QED BY <3>2, <3>3, <4>1
    <3>4. CASE SectionOf[e] # NoLink
      <4>1. SectionOf[e] \in LinksIn(es)
        BY <2>1, <3>1, <3>4, LinksInEntries
      <4>2. FlatEntry(m, i, e, ns, fl) = f[SectionOf[e]]
        BY <2>2, <3>4, <4>1, FlattenedEntry
      <4> QED BY <3>2, <3>4, <4>2
    <3> QED BY <3>3, <3>4
  <2>4. fl[<<m, ns>>] = FlatModel(mu, m, ns, fl)
    BY <1>1, <2>1 DEF IsFlatten
  <2>5. FlatEntries(m, es, ns, fl) = Mapped(es, G)
    <3> HIDE DEF G
    <3> QED BY <2>3, Zenon DEF FlatEntries, Mapped
  <2>6. FlatModel(mu, m, ns, fl) = ItemRows(D, es, ns, f)
    BY <2>5, Zenon DEF FlatModel, ItemRows, Joined
  <2> QED BY <2>4, <2>6 DEF FlattenedTo
<1> HIDE DEF P, rank
<1>4. \A m \in D : m \in P
  BY <1>2, <1>3, RankInduction
<1> QED BY <1>4 DEF P

\* So the rows that the sections should have are the flattened menu.
LEMMA FlatIsMenu ==
  ASSUME MenuOK(menu), Tree(menu, sections), SeparatorsDue(menu, sections), Named(menu, sections), NamespacesReach,
         NEW rs, FlatRows(menu, sections, rs)
  PROVE  rs = Menu
<1>1. PICK f : IsFlat(menu, sections, f) /\ rs = f[Root]
  BY DEF FlatRows
<1>2. IsFlatten(menu, Flatten)
  BY FlattenSolved
<1>3. Root \in DOMAIN sections
  BY TreeHasShape DEF TreeShape
<1>4. FlattenedTo(menu, sections, f, Flatten, Root)
  BY <1>1, <1>2, <1>3, FlattenedAll DEF Flattens
<1> DEFINE r == ItemRows(DOMAIN sections, menu[Root], RootNamespace, f)
<1>5. Menu = r
  BY <1>4 DEF FlattenedTo, Named, Menu
<1>6. HeadOf(sections, Root) = <<>>
  BY RootBare DEF HeadOf
<1>7. rs = HeadOf(sections, Root) \o r
  BY <1>1, <1>3 DEF IsFlat, Named
<1>8. r \in Seq(RowsOf)
  <2>1. f \in [DOMAIN sections -> Seq(RowsOf)]
    BY <1>1 DEF IsFlat
  <2>2. Flats(DOMAIN sections, RootNamespace, f) /\ menu[Root] \in Seq(EntriesOf(DOMAIN sections))
    BY <1>3, <2>1, FlatsHere DEF Named
  <2> QED BY <2>2, ItemRowsTyped
<1> HIDE DEF r
<1>9. <<>> \o r = r
  BY <1>8
<1> QED BY <1>5, <1>6, <1>7, <1>9

-----------------------------------------------------------------------------
(* The rows are the flattened menu.                                        *)

\* The inductive invariant: the tree mirrors the menu, with its namespaces, and, while
\* the peer keeps to the order, the rows are those that its sections should have.
Flattened ==
  /\ Mirrors /\ Named(menu, sections)
  /\ orderly => OrderlyMenu(menu) /\ FlatRows(menu, sections, rows)

\* It holds at first.
LEMMA FlattenedInit == Init => Flattened
<1> SUFFICES ASSUME Init PROVE Flattened
  OBVIOUS
<1>1. /\ MenuOK(menu) /\ sections = TrackerNew(menu).sections /\ rows = TrackerNew(menu).rows
      /\ orderly = Orderly(menu, menu[Root])
  BY InitialMenuOK DEF Init
<1>2. Named(menu, sections)
  <2> DEFINE new == SectionsNew(menu, <<>>, {Root})
  <2>1. Tree(menu, new) /\ Named(menu, new)
    BY <1>1, StartTree, StartNamed
  <2>2. sections = SectionsSynced(menu, new)
    BY <1>1 DEF TrackerNew, SyncSeparators
  <2> HIDE DEF new
  <2> QED BY <1>1, <2>1, <2>2, SyncedNamed
<1>3. ASSUME orderly PROVE OrderlyMenu(menu) /\ FlatRows(menu, sections, rows)
  <2>1. OrderlyMenu(menu) /\ PlainFirst(menu[Root])
    BY <1>1, <1>3 DEF Orderly, OrderlyMenu
  <2> QED BY <1>1, <2>1, StartFlat
<1> QED BY <1>2, <1>3, MirrorsInit DEF Flattened

\* Every step keeps it.
LEMMA FlattenedNext == Flattened /\ [Next]_vars => Flattened'
<1> SUFFICES ASSUME Flattened, [Next]_vars PROVE Flattened'
  OBVIOUS
<1>1. /\ Mirrors /\ Mirrors' /\ Named(menu, sections)
      /\ orderly => OrderlyMenu(menu) /\ FlatRows(menu, sections, rows)
  BY MirrorsNext DEF Flattened
<1>2. MenuOK(menu) /\ Tree(menu, sections) /\ SeparatorsDue(menu, sections)
  BY <1>1 DEF Mirrors
<1>3. CASE UNCHANGED vars
  BY <1>1, <1>3 DEF Flattened, vars
<1>4. CASE Next
  <2>1. PICK m \in Models : \E pos \in 0..Len(menu[m]), removed \in 0..MaxRemoved, es \in Batches[m] \cup {<<>>} :
          ItemsChanged(m, pos, removed, es)
    BY <1>4 DEF Next
  <2>2. PICK pos \in 0..Len(menu[m]), removed \in 0..MaxRemoved, es \in Batches[m] \cup {<<>>} :
          ItemsChanged(m, pos, removed, es)
    BY <2>1
  <2>3. Change(menu, menu', m, pos, removed, es) /\ MenuOK(menu')
    BY <1>2, <2>2, StepChanges
  <2>4. orderly' => orderly /\ PlainFirst(es) /\ OrderlyMenu(menu')
    BY <2>2 DEF ItemsChanged, Orderly, OrderlyMenu
  <2>5. CASE m \notin DOMAIN sections
    <3>1. UNCHANGED <<sections, rows>>
      BY <2>2, <2>5 DEF ItemsChanged, Connected
    <3>2. Named(menu', sections) /\ (FlatRows(menu, sections, rows) => FlatRows(menu', sections, rows))
      BY <1>1, <1>2, <2>3, <2>5, OutsideNamed
    <3> QED BY <1>1, <2>4, <3>1, <3>2 DEF Flattened
  <2>6. CASE m \in DOMAIN sections
    <3> DEFINE new == SectionsChanged(menu', sections, m, pos, removed, es)
               t == SyncSeparators(menu', new, RowsChanged(menu', sections, new, rows, m, pos, removed, es))
    <3>1. sections' = t.sections /\ rows' = t.rows
      BY <1>1, <2>2, <2>3, <2>6, HandledStep
    <3>2. t.sections = SectionsSynced(menu', new)
      BY DEF SyncSeparators
    <3>3. Named(menu', SectionsSynced(menu', new))
      <4>1. Tree(menu', new)
        BY <1>2, <2>3, <2>6, ChangedTree
      <4>2. Named(menu', new)
        BY <1>1, <1>2, <2>3, <2>6, ChangedNamed
      <4> HIDE DEF new
      <4> QED BY <2>3, <4>1, <4>2, SyncedNamed
    <3>4. ASSUME orderly' PROVE FlatRows(menu', t.sections, t.rows)
      <4>1. OrderlyMenu(menu) /\ OrderlyMenu(menu') /\ PlainFirst(es) /\ FlatRows(menu, sections, rows)
        BY <1>1, <2>4, <3>4
      <4> QED BY <1>2, <2>3, <2>6, <4>1, ChangedFlat
    <3> HIDE DEF new, t
    <3> QED BY <1>1, <2>4, <3>1, <3>2, <3>3, <3>4 DEF Flattened
  <2> QED BY <2>5, <2>6
<1> QED BY <1>3, <1>4

\* While the peer adds plain items before sections, and labels only the sections of
\* the root, the rows are exactly the flattened menu after every items-changed, with
\* the separators and the namespaces due: gtk_menu_tracker_new's promise of its
\* incremental updates.
THEOREM OrderlyMenusFlattened ==
  ASSUME NamespacesReach
  PROVE  Spec => []OrderlyRowsFlattenMenu
<1>1. Flattened => OrderlyRowsFlattenMenu
  <2> SUFFICES ASSUME Flattened, orderly PROVE rows = Menu
    BY DEF OrderlyRowsFlattenMenu, RowsFlattenMenu
  <2>1. /\ MenuOK(menu) /\ Tree(menu, sections) /\ SeparatorsDue(menu, sections) /\ Named(menu, sections)
        /\ FlatRows(menu, sections, rows)
    BY DEF Flattened, Mirrors
  <2> QED BY <2>1, FlatIsMenu
<1> QED BY <1>1, FlattenedInit, FlattenedNext, PTL DEF Spec

=============================================================================
