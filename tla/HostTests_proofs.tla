--------------------------- MODULE HostTests_proofs ---------------------------
(***************************************************************************)
(* Proofs about the self tests and the fuzz targets, for fuzzed paths of   *)
(* any number of nodes: fwup_dp_size finds the first end node, or rejects  *)
(* the path, so the verdicts of the fuzz targets are what they should be;  *)
(* and no assertion of the tests fails, on a return value or an output.    *)
(***************************************************************************)
EXTENDS HostTests, SequenceTheorems, WellFoundedInduction, TLAPS

------------------------------------------------------------------------------
(* Induction, over sets of numbers, and functions defined by recursion *)

\* A set of naturals has a least element.
LEMMA LeastNatural ==
    ASSUME NEW T \in SUBSET Nat, T # {}
    PROVE  \E x \in T : \A y \in T : x <= y
  <1>. DEFINE R == OpToRel(<, Nat)
  <1>1. IsWellFoundedOn(R, Nat)
    BY NatLessThanWellFounded
  <1>2. \A x, y \in Nat : x < y => <<x, y>> \in R
    BY DEF OpToRel
  <1>. HIDE DEF R
  <1>3. PICK x \in T : \A y \in T : <<y, x>> \notin R
    BY <1>1, WFMin
  <1>4. ASSUME NEW y \in T PROVE x <= y
    <2>1. x \in Nat /\ y \in Nat /\ ~(y < x)
      BY <1>2, <1>3
    <2>. QED BY <2>1
  <1>. QED BY <1>4

\* What holds of 0, and of the next number whenever it holds of one before N,
\* holds of all numbers up to N.
LEMMA InductionTo ==
    ASSUME NEW N \in Nat, NEW P, 0 \in P,
           \A n \in 0..N : n \in P /\ n < N => n + 1 \in P
    PROVE  0..N \subseteq P
  <1>. SUFFICES ASSUME (0..N) \ P # {} PROVE FALSE
    OBVIOUS
  <1>1. PICK x \in (0..N) \ P : \A y \in (0..N) \ P : x <= y
    <2>1. (0..N) \ P \in SUBSET Nat
      OBVIOUS
    <2>. QED BY <2>1, LeastNatural
  <1>2. x \in 1..N
    BY <1>1
  <1>3. x - 1 \in 0..N /\ x - 1 < N /\ x - 1 + 1 = x /\ x - 1 \in P
    BY <1>1, <1>2
  <1>. QED BY <1>1, <1>3

\* f starts with a and goes on as next says, up to N.
Follows(f, N, A, a, next) ==
    f \in [0..N -> A] /\ f[0] = a /\ \A n \in 1..N : f[n] = next[n][f[n - 1]]

\* There is such a function.
LEMMA RecursionTo ==
    ASSUME NEW N \in Nat, NEW A, NEW a \in A, NEW next \in [1..N -> [A -> A]]
    PROVE  \E f : Follows(f, N, A, a, next)
  <1>. DEFINE P == {m \in 0..N : \E f : Follows(f, m, A, a, next)}
  <1>1. 0 \in P
    <2>. DEFINE g == [n \in 0..0 |-> a]
    <2>1. Follows(g, 0, A, a, next)
      BY DEF Follows
    <2>. HIDE DEF g
    <2>. QED BY <2>1
  <1>2. ASSUME NEW m \in 0..N, m \in P, m < N
        PROVE  m + 1 \in P
    <2>1. PICK f : Follows(f, m, A, a, next)
      BY <1>2
    <2>. DEFINE g == [n \in 0..m + 1 |-> IF n <= m THEN f[n] ELSE next[m + 1][f[m]]]
    <2>2. f[m] \in A /\ next[m + 1][f[m]] \in A
      <3>1. f[m] \in A
        BY <2>1 DEF Follows
      <3>2. m + 1 \in 1..N
        BY <1>2
      <3>. QED BY <3>1, <3>2
    <2>3. g \in [0..m + 1 -> A] /\ g[0] = a
      BY <2>1, <2>2 DEF Follows
    <2>4. ASSUME NEW n \in 1..m + 1
          PROVE  g[n] = next[n][g[n - 1]]
      <3>1. CASE n <= m
        BY <2>1, <3>1 DEF Follows
      <3>2. CASE n = m + 1
        BY <3>2
      <3>. QED BY <3>1, <3>2
    <2>5. Follows(g, m + 1, A, a, next)
      BY <2>3, <2>4 DEF Follows
    <2>. HIDE DEF g
    <2>. QED BY <2>5, <1>2
  <1>3. 0..N \subseteq P
    <2>. HIDE DEF P
    <2>. QED BY <1>1, <1>2, InductionTo
  <1>. QED BY <1>3

------------------------------------------------------------------------------
(* The sizes of the nodes of a path *)

Paths == Seq([length : Nat, end : BOOLEAN])

\* Every node of a path has a length.
LEMMA PathNode ==
    ASSUME NEW path \in Paths
    PROVE  /\ Len(path) \in Nat /\ DOMAIN path = 1..Len(path)
           /\ \A n \in 1..Len(path) : path[n].length \in Nat /\ path[n].end \in BOOLEAN
  <1>. DEFINE S == [length : Nat, end : BOOLEAN]
  <1>1. \A n \in 1..Len(path) : path[n] \in S
    <2>1. path \in Seq(S)
      BY DEF Paths
    <2>. HIDE DEF S
    <2>. QED BY <2>1
  <1>2. Len(path) \in Nat /\ DOMAIN path = 1..Len(path)
    BY DEF Paths
  <1>. QED BY <1>1, <1>2

LEMMA SizesDef ==
    ASSUME NEW path \in Paths
    PROVE  /\ Sizes(path) \in [0..Len(path) -> Nat]
           /\ Sizes(path)[0] = 0
           /\ \A n \in 1..Len(path) : Sizes(path)[n] = Sizes(path)[n - 1] + path[n].length
  <1>. DEFINE N == Len(path)
              next == [n \in 1..N |-> [x \in Nat |-> x + path[n].length]]
              Is(s) == s = [n \in 0..N |-> IF n = 0 THEN 0 ELSE s[n - 1] + path[n].length]
  <1>1. N \in Nat /\ \A n \in 1..N : path[n].length \in Nat
    BY PathNode
  <1>2. next \in [1..N -> [Nat -> Nat]]
    BY <1>1
  <1>3. PICK f : Follows(f, N, Nat, 0, next)
    <2>1. 0 \in Nat
      OBVIOUS
    <2>. HIDE DEF next, N
    <2>. QED BY <2>1, <1>1, <1>2, RecursionTo
  <1>4. ASSUME NEW n \in 1..N PROVE f[n] = f[n - 1] + path[n].length
    <2>1. f[n - 1] \in Nat
      BY <1>1, <1>3 DEF Follows
    <2>2. next[n][f[n - 1]] = f[n - 1] + path[n].length
      BY <2>1
    <2>. QED BY <2>2, <1>3 DEF Follows
  <1>5. Is(f)
    <2>. HIDE DEF next, N
    <2>. QED BY <1>1, <1>3, <1>4 DEF Follows
  <1>6. Sizes(path) = CHOOSE s : Is(s)
    BY DEF Sizes
  <1>7. Is(Sizes(path))
    <2>. HIDE DEF Is
    <2>. QED BY <1>5, <1>6
  <1>8. Sizes(path) \in [0..N -> Nat]
    <2>. DEFINE P == {n \in 0..N : Sizes(path)[n] \in Nat}
    <2>1. 0 \in P
      BY <1>1, <1>7
    <2>2. \A n \in 0..N : n \in P /\ n < N => n + 1 \in P
      BY <1>1, <1>7
    <2>3. 0..N \subseteq P
      <3>. HIDE DEF P, N
      <3>. QED BY <1>1, <2>1, <2>2, InductionTo
    <2>. QED BY <1>7, <2>3
  <1>9. Sizes(path)[0] = 0
    BY <1>1, <1>7
  <1>10. ASSUME NEW n \in 1..N
         PROVE  Sizes(path)[n] = Sizes(path)[n - 1] + path[n].length
    <2>1. n \in 0..N /\ n # 0
      BY <1>1
    <2>. HIDE DEF N
    <2>. QED BY <2>1, <1>7
  <1>. QED BY <1>8, <1>9, <1>10

LEMMA SizesGrow ==
    ASSUME NEW path \in Paths
    PROVE  \A n \in 0..Len(path) : \A m \in 0..n : Sizes(path)[m] <= Sizes(path)[n]
  <1>. DEFINE N == Len(path)
              S == Sizes(path)
              P == {n \in 0..N : \A m \in 0..n : S[m] <= S[n]}
  <1>1. N \in Nat /\ \A n \in 1..N : path[n].length \in Nat
    BY PathNode
  <1>2. /\ S \in [0..N -> Nat]
        /\ \A n \in 1..N : S[n] = S[n - 1] + path[n].length
    BY SizesDef
  <1>. HIDE DEF N, S
  <1>3. 0 \in P
    BY <1>1, <1>2
  <1>4. ASSUME NEW n \in 0..N, n \in P, n < N PROVE n + 1 \in P
    <2>1. n + 1 \in 1..N /\ n + 1 - 1 = n
      BY <1>1, <1>4
    <2>2. S[n + 1] = S[n] + path[n + 1].length /\ S[n] \in Nat /\ path[n + 1].length \in Nat
      BY <1>1, <1>2, <2>1
    <2>3. ASSUME NEW m \in 0..n + 1 PROVE S[m] <= S[n + 1]
      <3>1. CASE m = n + 1
        BY <2>2, <3>1
      <3>2. CASE m \in 0..n
        <4>1. S[m] <= S[n] /\ S[m] \in Nat
          BY <1>1, <1>2, <1>4, <3>2
        <4>. QED BY <2>2, <4>1
      <3>. QED BY <3>1, <3>2
    <2>. QED BY <2>1, <2>3
  <1>5. 0..N \subseteq P
    <2>. HIDE DEF P
    <2>. QED BY <1>1, <1>3, <1>4, InductionTo
  <1>. QED BY <1>5 DEF N, S

------------------------------------------------------------------------------
(* fwup_dp_size *)

\* What the loop keeps.
Walks == [limit : Nat, ret : Int, done : BOOLEAN]

\* A node that is inside what is left and no shorter than a header.
Taken(s, n) == n.length >= 4 /\ n.length <= s.limit

LEMMA RoundCases ==
    ASSUME NEW s \in Walks, NEW n, n.length \in Nat
    PROVE  /\ s.done => Round(s, n) = s
           /\ ~s.done /\ ~Taken(s, n) =>
                Round(s, n) = [limit |-> s.limit, ret |-> -1, done |-> TRUE]
           /\ ~s.done /\ Taken(s, n) =>
                Round(s, n) = [limit |-> s.limit - n.length, ret |-> s.ret + n.length,
                               done |-> n.end]
  <1>1. /\ s.limit \in Nat /\ s.ret \in Int /\ s.done \in BOOLEAN
        /\ s = [limit |-> s.limit, ret |-> s.ret, done |-> s.done]
    BY DEF Walks
  <1>2. ~Path(0, s.limit)!HeaderFits \/ Path(0, s.limit)!TooShort(n) <=> ~Taken(s, n)
    BY <1>1 DEF Taken, Path!HeaderFits, Path!TooShort, Path!Header
  <1>. QED BY <1>2 DEF Round

LEMMA RoundType ==
    ASSUME NEW s \in Walks, NEW n, n.length \in Nat, n.end \in BOOLEAN
    PROVE  Round(s, n) \in Walks
  <1>1. s.limit \in Nat /\ s.ret \in Int /\ s.done \in BOOLEAN
    BY DEF Walks
  <1>2. CASE s.done
    BY <1>2, RoundCases
  <1>3. CASE ~s.done /\ ~Taken(s, n)
    <2>1. [limit |-> s.limit, ret |-> -1, done |-> TRUE] \in Walks
      BY <1>1 DEF Walks
    <2>. QED BY <1>3, <2>1, RoundCases
  <1>4. CASE ~s.done /\ Taken(s, n)
    <2>1. s.limit - n.length \in Nat /\ s.ret + n.length \in Int
      BY <1>1, <1>4 DEF Taken
    <2>2. [limit |-> s.limit - n.length, ret |-> s.ret + n.length, done |-> n.end] \in Walks
      BY <2>1 DEF Walks
    <2>. QED BY <1>4, <2>2, RoundCases
  <1>. QED BY <1>2, <1>3, <1>4

LEMMA RoundsDef ==
    ASSUME NEW path \in Paths, NEW limit \in Nat
    PROVE  LET N == Len(path)
               R == Rounds(path, limit)
           IN /\ R[0] = [limit |-> limit, ret |-> 0, done |-> FALSE]
              /\ \A n \in 0..N + 1 : R[n] \in Walks
              /\ \A n \in 1..N : R[n] = Round(R[n - 1], path[n])
              /\ R[N + 1] = Round(R[N], Node(0))
  <1>. DEFINE N == Len(path)
              R == Rounds(path, limit)
              first == [limit |-> limit, ret |-> 0, done |-> FALSE]
              bytes == Append(path, Node(0))
              next == [n \in 1..N + 1 |-> [s \in Walks |-> Round(s, bytes[n])]]
              Is(s) == s = [n \in 0..N + 1 |-> IF n = 0 THEN first ELSE Round(s[n - 1], bytes[n])]
  <1>1. N \in Nat /\ N + 1 \in Nat
    BY PathNode
  <1>2. /\ \A n \in 1..N : bytes[n] = path[n]
        /\ bytes[N + 1] = Node(0)
    BY <1>1 DEF Paths
  <1>. HIDE DEF bytes
  <1>3. \A n \in 1..N + 1 : bytes[n].length \in Nat /\ bytes[n].end \in BOOLEAN
    <2>1. \A n \in 1..N : bytes[n].length \in Nat /\ bytes[n].end \in BOOLEAN
      BY <1>2, PathNode
    <2>2. bytes[N + 1].length \in Nat /\ bytes[N + 1].end \in BOOLEAN
      <3>1. Node(0).length \in Nat /\ Node(0).end \in BOOLEAN
        BY DEF Node
      <3>. HIDE DEF N
      <3>. QED BY <1>2, <3>1, Zenon
    <2>. QED BY <1>1, <2>1, <2>2
  <1>4. first \in Walks
    BY DEF Walks
  <1>5. next \in [1..N + 1 -> [Walks -> Walks]]
    BY <1>3, RoundType
  <1>6. PICK f : Follows(f, N + 1, Walks, first, next)
    <2>. DEFINE M == N + 1
    <2>1. M \in Nat /\ next \in [1..M -> [Walks -> Walks]]
      BY <1>1, <1>5
    <2>2. \E f : Follows(f, M, Walks, first, next)
      <3>. HIDE DEF M, next, first
      <3>. QED BY <1>4, <2>1, RecursionTo
    <2>. QED BY <2>2
  <1>7. ASSUME NEW n \in 1..N + 1 PROVE f[n] = Round(f[n - 1], bytes[n])
    <2>1. n - 1 \in 0..N + 1 /\ f[n - 1] \in Walks
      BY <1>1, <1>6 DEF Follows
    <2>2. next[n][f[n - 1]] = Round(f[n - 1], bytes[n])
      BY <2>1
    <2>. QED BY <2>2, <1>6 DEF Follows
  <1>8. Is(f)
    <2>. HIDE DEF next, first
    <2>. QED BY <1>1, <1>6, <1>7 DEF Follows
  <1>9. R = CHOOSE s : Is(s)
    BY DEF Rounds, bytes
  <1>10. Is(R)
    <2>. HIDE DEF Is, R
    <2>. QED BY <1>8, <1>9
  <1>. HIDE DEF R, first
  <1>11. R[0] = first
    BY <1>1, <1>10
  <1>12. ASSUME NEW n \in 1..N + 1 PROVE R[n] = Round(R[n - 1], bytes[n])
    <2>1. n \in 0..N + 1 /\ n # 0
      BY <1>1
    <2>. QED BY <2>1, <1>10
  <1>13. \A n \in 0..N + 1 : R[n] \in Walks
    <2>. DEFINE M == N + 1
                P == {n \in 0..M : R[n] \in Walks}
    <2>1. 0 \in P
      BY <1>1, <1>4, <1>11
    <2>2. ASSUME NEW n \in 0..M, n \in P, n < M PROVE n + 1 \in P
      <3>1. n + 1 \in 1..N + 1 /\ n + 1 - 1 = n
        BY <1>1, <2>2
      <3>2. R[n + 1] = Round(R[n], bytes[n + 1])
        BY <1>12, <3>1
      <3>. QED BY <3>1, <3>2, <1>3, <2>2, RoundType
    <2>3. 0..M \subseteq P
      <3>1. M \in Nat
        BY <1>1
      <3>. HIDE DEF P, M
      <3>. QED BY <3>1, <2>1, <2>2, InductionTo
    <2>. QED BY <2>3
  <1>14. \A n \in 1..N : R[n] = Round(R[n - 1], path[n])
    BY <1>1, <1>2, <1>12
  <1>15. R[N + 1] = Round(R[N], Node(0))
    <2>1. N + 1 \in 1..N + 1 /\ N + 1 - 1 = N
      BY <1>1
    <2>. QED BY <2>1, <1>2, <1>12
  <1>. QED BY <1>11, <1>13, <1>14, <1>15 DEF R, first

\* The j-th node is the first end node of the path, no node up to it is shorter
\* than a header, and together they fit the limit.
EndsAt(path, limit, j) ==
    /\ path[j].end /\ \A i \in 1..j - 1 : ~path[i].end
    /\ \A i \in 1..j : path[i].length >= 4
    /\ Sizes(path)[j] <= limit

\* What the loop has found when it is over: the end of the path, or that it has
\* none.
Found(path, limit, ret) ==
    \/ \E j \in 1..Len(path) : EndsAt(path, limit, j) /\ ret = Sizes(path)[j]
    \/ ret = -1 /\ \A j \in 1..Len(path) : ~EndsAt(path, limit, j)

\* After n rounds that did not end the loop: n nodes were walked.
Walked(path, limit, n, s) ==
    /\ \A i \in 1..n : ~path[i].end /\ path[i].length >= 4
    /\ s.ret = Sizes(path)[n] /\ s.limit = limit - Sizes(path)[n]

\* One more round of a loop that goes on.
LEMMA NextRound ==
    ASSUME NEW path \in Paths, NEW limit \in Nat, NEW s \in Walks, ~s.done,
           NEW n \in 1..Len(path), Walked(path, limit, n - 1, s)
    PROVE  LET r == Round(s, path[n])
           IN IF r.done THEN Found(path, limit, r.ret) ELSE Walked(path, limit, n, r)
  <1>. DEFINE S == Sizes(path)
              N == Len(path)
              m == path[n]
              r == Round(s, m)
  <1>1. /\ N \in Nat /\ n \in 1..N /\ n - 1 \in 0..N /\ n \in 0..N
        /\ \A i \in 1..N : path[i].length \in Nat /\ path[i].end \in BOOLEAN
    BY PathNode
  <1>2. /\ S \in [0..N -> Nat] /\ S[n] = S[n - 1] + m.length
        /\ \A k \in 0..N : \A i \in 0..k : S[i] <= S[k]
    BY SizesDef, SizesGrow
  <1>3. s.ret = S[n - 1] /\ s.limit = limit - S[n - 1] /\ s.limit \in Nat
    BY DEF Walked, Walks
  <1>4. \A i \in 1..n - 1 : ~path[i].end /\ path[i].length >= 4
    BY DEF Walked
  <1>5. m.length \in Nat /\ m.end \in BOOLEAN /\ S[n] \in Nat /\ S[n - 1] \in Nat
    BY <1>1, <1>2
  <1>. HIDE DEF S, N
  <1>6. CASE ~Taken(s, m)
    <2>1. r.ret = -1 /\ r.done
      BY <1>5, <1>6, RoundCases
    <2>2. ASSUME NEW j \in 1..N, EndsAt(path, limit, j)
          PROVE  FALSE
      <3>1. j \notin 1..n - 1
        BY <1>1, <1>4, <2>2 DEF EndsAt
      <3>2. n \in 1..j /\ n \in 0..j /\ j \in 0..N
        BY <1>1, <3>1
      <3>3. m.length >= 4 /\ S[n] <= S[j] /\ S[j] <= limit /\ S[j] \in Nat
        BY <1>1, <1>2, <2>2, <3>2 DEF EndsAt, S
      <3>4. m.length <= s.limit
        BY <1>2, <1>3, <1>5, <3>3
      <3>. QED BY <1>6, <3>3, <3>4 DEF Taken
    <2>. QED BY <2>1, <2>2 DEF Found, N
  <1>7. CASE Taken(s, m)
    <2>1. r.done = m.end /\ r.ret = S[n] /\ r.limit = limit - S[n]
      <3>1. r = [limit |-> s.limit - m.length, ret |-> s.ret + m.length, done |-> m.end]
        BY <1>5, <1>7, RoundCases
      <3>2. r.done = m.end /\ r.ret = s.ret + m.length /\ r.limit = s.limit - m.length
        BY <3>1
      <3>. QED BY <1>2, <1>3, <1>5, <3>2
    <2>2. m.length >= 4 /\ S[n] <= limit
      BY <1>2, <1>3, <1>5, <1>7 DEF Taken
    <2>3. \A i \in 1..n : path[i].length >= 4
      BY <1>1, <1>4, <2>2
    <2>4. CASE m.end
      <3>1. EndsAt(path, limit, n)
        BY <1>4, <2>2, <2>3, <2>4 DEF EndsAt, S
      <3>. QED BY <2>1, <2>4, <3>1, <1>1 DEF Found, S, N
    <2>5. CASE ~m.end
      <3>1. \A i \in 1..n : ~path[i].end
        BY <1>1, <1>4, <2>5
      <3>2. Walked(path, limit, n, r)
        BY <2>1, <2>3, <3>1 DEF Walked, S
      <3>. QED BY <2>1, <2>5, <3>2
    <2>. QED BY <2>4, <2>5
  <1>. QED BY <1>6, <1>7

\* fwup_dp_size (fwupdate.c:49) returns the size of the path up to and with its
\* first end node if its nodes are sound and fit the limit, and -1 if not, for
\* a path of any length.
THEOREM DpSizeFound ==
    ASSUME NEW path \in Paths, NEW limit \in Nat
    PROVE  Found(path, limit, fwup_dp_size(path, limit))
  <1>. DEFINE N == Len(path)
              M == N + 1
              R == Rounds(path, limit)
              P == {n \in 0..M : IF R[n].done THEN Found(path, limit, R[n].ret)
                                 ELSE n <= N /\ Walked(path, limit, n, R[n])}
  <1>1. N \in Nat /\ M \in Nat
    BY PathNode
  <1>2. /\ R[0] = [limit |-> limit, ret |-> 0, done |-> FALSE]
        /\ \A n \in 0..M : R[n] \in Walks
        /\ \A n \in 1..N : R[n] = Round(R[n - 1], path[n])
        /\ R[M] = Round(R[N], Node(0))
    BY RoundsDef
  <1>. HIDE DEF R
  <1>3. 0 \in P
    <2>1. Sizes(path)[0] = 0
      BY SizesDef
    <2>2. Walked(path, limit, 0, R[0]) /\ ~R[0].done
      BY <1>2, <2>1 DEF Walked
    <2>. QED BY <1>1, <2>2
  <1>4. ASSUME NEW n \in 0..M, n \in P, n < M PROVE n + 1 \in P
    <2>1. /\ n \in 0..N /\ n + 1 \in 0..M /\ n + 1 - 1 = n /\ n \in Nat
          /\ n + 1 \in 1..N \/ (n = N /\ n + 1 = M)
          /\ R[n] \in Walks
      BY <1>1, <1>2, <1>4
    <2>2. R[n + 1] = IF n = N THEN Round(R[n], Node(0)) ELSE Round(R[n], path[n + 1])
      BY <1>1, <1>2, <2>1
    <2>3. CASE R[n].done
      <3>1. Node(0).length \in Nat /\ (n # N => path[n + 1].length \in Nat)
        BY <2>1, PathNode DEF Node
      <3>2. R[n + 1] = R[n]
        BY <2>1, <2>2, <2>3, <3>1, RoundCases
      <3>. QED BY <1>4, <2>1, <2>3, <3>2
    <2>4. CASE ~R[n].done /\ n # N
      <3>1. n + 1 \in 1..N /\ Walked(path, limit, n + 1 - 1, R[n])
        BY <1>4, <2>1, <2>4
      <3>2. IF R[n + 1].done THEN Found(path, limit, R[n + 1].ret)
                             ELSE Walked(path, limit, n + 1, R[n + 1])
        BY <2>1, <2>2, <2>4, <3>1, NextRound
      <3>3. n + 1 <= N
        BY <3>1, <1>1
      <3>. QED BY <2>1, <3>2, <3>3
    <2>5. CASE ~R[n].done /\ n = N
      <3>1. Node(0).length = 0 /\ ~Taken(R[n], Node(0))
        BY DEF Node, Taken
      <3>2. R[n + 1].done /\ R[n + 1].ret = -1
        BY <2>1, <2>2, <2>5, <3>1, RoundCases
      <3>3. \A i \in 1..N : ~path[i].end
        BY <1>4, <2>5 DEF Walked
      <3>4. Found(path, limit, -1)
        BY <3>3 DEF Found, EndsAt
      <3>. QED BY <2>1, <3>2, <3>4
    <2>. QED BY <2>3, <2>4, <2>5
  <1>5. M \in P
    <2>. HIDE DEF P, M
    <2>1. 0..M \subseteq P
      BY <1>1, <1>3, <1>4, InductionTo
    <2>. QED BY <1>1, <2>1
  <1>6. Found(path, limit, R[M].ret)
    BY <1>1, <1>5
  <1>. QED BY <1>6 DEF fwup_dp_size, R

------------------------------------------------------------------------------
(* The self tests *)

\* The last node of the path is its only end node.
EndsLast(path) ==
    Len(path) # 0 /\ path[Len(path)].end /\ \A i \in 1..Len(path) - 1 : ~path[i].end

\* No node is shorter than a header, and the whole path fits the limit.
AllFit(path, limit) ==
    (\A i \in 1..Len(path) : path[i].length >= 4) /\ Sizes(path)[Len(path)] <= limit

LEMMA WholeSize ==
    ASSUME NEW path \in Paths, NEW limit \in Nat, EndsLast(path)
    PROVE  fwup_dp_size(path, limit) =
             IF AllFit(path, limit) THEN Sizes(path)[Len(path)] ELSE -1
  <1>. DEFINE N == Len(path)
  <1>1. N \in 1..N /\ N \in Nat
    BY PathNode DEF EndsLast
  <1>2. ASSUME NEW j \in 1..N, path[j].end PROVE j = N
    BY <1>1, <1>2 DEF EndsLast
  <1>3. \A j \in 1..N : EndsAt(path, limit, j) => j = N
    BY <1>2 DEF EndsAt
  <1>4. EndsAt(path, limit, N) <=> AllFit(path, limit)
    BY DEF EndsAt, EndsLast, AllFit
  <1>. QED BY <1>1, <1>3, <1>4, DpSizeFound DEF Found

LEMMA NodeOf ==
    /\ End \in [length : Nat, end : BOOLEAN] /\ End.length = 4 /\ End.end
    /\ \A k \in Nat : /\ Node(k) \in [length : Nat, end : BOOLEAN]
                      /\ Node(k).length = k /\ ~Node(k).end
  BY DEF End, Node

\* The paths of the tests.
LEMMA OneNode ==
    ASSUME NEW limit \in Nat
    PROVE  fwup_dp_size(<<End>>, limit) = IF 4 <= limit THEN 4 ELSE -1
  <1>. DEFINE p == <<End>>
  <1>1. p \in Paths /\ Len(p) = 1 /\ p[1] = End
    <2>. HIDE DEF End, Node
    <2>. QED BY NodeOf DEF Paths
  <1>. HIDE DEF p
  <1>2. p[1].length = 4
    BY <1>1, NodeOf
  <1>3. EndsLast(p)
    BY <1>1, NodeOf DEF EndsLast
  <1>4. Sizes(p)[1] = 4
    <2>1. \A k \in 1..1 : Sizes(p)[k] = Sizes(p)[k - 1] + p[k].length
      BY <1>1, SizesDef
    <2>2. Sizes(p)[1] = 4
      <3>1. Sizes(p)[0] = 0 /\ 1 \in 1..1 /\ 1 - 1 = 0
        BY <1>1, SizesDef
      <3>. QED BY <1>2, <2>1, <3>1
    <2>. QED BY <2>2
  <1>5. AllFit(p, limit) <=> 4 <= limit
    BY <1>1, <1>2, <1>4 DEF AllFit
  <1>6. fwup_dp_size(p, limit) = IF AllFit(p, limit) THEN Sizes(p)[1] ELSE -1
    BY <1>1, <1>3, WholeSize
  <1>. QED BY <1>4, <1>5, <1>6 DEF p

LEMMA TwoNodes ==
    ASSUME NEW l \in Nat, NEW limit \in Nat
    PROVE  fwup_dp_size(<<Node(l), End>>, limit) = IF l >= 4 /\ l + 4 <= limit THEN l + 4 ELSE -1
  <1>. DEFINE p == <<Node(l), End>>
  <1>1. p \in Paths /\ Len(p) = 2 /\ p[1] = Node(l) /\ p[2] = End
    <2>. HIDE DEF End, Node
    <2>. QED BY NodeOf DEF Paths
  <1>. HIDE DEF p
  <1>2. p[1].length = l /\ p[2].length = 4
    BY <1>1, NodeOf
  <1>3. EndsLast(p)
    BY <1>1, NodeOf DEF EndsLast
  <1>4. Sizes(p)[2] = l + 4
    <2>1. \A k \in 1..2 : Sizes(p)[k] = Sizes(p)[k - 1] + p[k].length
      BY <1>1, SizesDef
    <2>2. Sizes(p)[1] = l
      <3>1. Sizes(p)[0] = 0 /\ 1 \in 1..2 /\ 1 - 1 = 0
        BY <1>1, SizesDef
      <3>. QED BY <1>2, <2>1, <3>1
    <2>3. Sizes(p)[2] = l + 4
      <3>1. 2 \in 1..2 /\ 2 - 1 = 1
        OBVIOUS
      <3>. QED BY <1>2, <2>1, <2>2, <3>1
    <2>. QED BY <2>3
  <1>5. AllFit(p, limit) <=> l >= 4 /\ l + 4 <= limit
    BY <1>1, <1>2, <1>4 DEF AllFit
  <1>6. fwup_dp_size(p, limit) = IF AllFit(p, limit) THEN Sizes(p)[2] ELSE -1
    BY <1>1, <1>3, WholeSize
  <1>. QED BY <1>4, <1>5, <1>6 DEF p

LEMMA ThreeNodes ==
    ASSUME NEW l \in Nat, NEW m \in Nat, NEW limit \in Nat
    PROVE  fwup_dp_size(<<Node(l), Node(m), End>>, limit) = IF l >= 4 /\ m >= 4 /\ l + m + 4 <= limit THEN l + m + 4 ELSE -1
  <1>. DEFINE p == <<Node(l), Node(m), End>>
  <1>1. p \in Paths /\ Len(p) = 3 /\ p[1] = Node(l) /\ p[2] = Node(m) /\ p[3] = End
    <2>. HIDE DEF End, Node
    <2>. QED BY NodeOf DEF Paths
  <1>. HIDE DEF p
  <1>2. p[1].length = l /\ p[2].length = m /\ p[3].length = 4
    BY <1>1, NodeOf
  <1>3. EndsLast(p)
    BY <1>1, NodeOf DEF EndsLast
  <1>4. Sizes(p)[3] = l + m + 4
    <2>1. \A k \in 1..3 : Sizes(p)[k] = Sizes(p)[k - 1] + p[k].length
      BY <1>1, SizesDef
    <2>2. Sizes(p)[1] = l
      <3>1. Sizes(p)[0] = 0 /\ 1 \in 1..3 /\ 1 - 1 = 0
        BY <1>1, SizesDef
      <3>. QED BY <1>2, <2>1, <3>1
    <2>3. Sizes(p)[2] = l + m
      <3>1. 2 \in 1..3 /\ 2 - 1 = 1
        OBVIOUS
      <3>. QED BY <1>2, <2>1, <2>2, <3>1
    <2>4. Sizes(p)[3] = l + m + 4
      <3>1. 3 \in 1..3 /\ 3 - 1 = 2
        OBVIOUS
      <3>. QED BY <1>2, <2>1, <2>3, <3>1
    <2>. QED BY <2>4
  <1>5. AllFit(p, limit) <=> l >= 4 /\ m >= 4 /\ l + m + 4 <= limit
    BY <1>1, <1>2, <1>4 DEF AllFit
  <1>6. fwup_dp_size(p, limit) = IF AllFit(p, limit) THEN Sizes(p)[3] ELSE -1
    BY <1>1, <1>3, WholeSize
  <1>. QED BY <1>4, <1>5, <1>6 DEF p

\* What a test gets is what it asserts.
Sound(t) == Asserted(t, Call(t))

\* A test that looks at the return value alone.
LEMMA RcSound ==
    ASSUME NEW t, NEW S, NEW rc \in S, t.expect = [rc |-> S], Call(t).rc = rc
    PROVE  Sound(t)
  <1>1. DOMAIN t.expect = {"rc"} /\ t.expect["rc"] = S
    OBVIOUS
  <1>2. Call(t)["rc"] = rc
    OBVIOUS
  <1>. QED BY <1>1, <1>2 DEF Sound, Asserted

LEMMA ReturnedRc == \A rc : Returned(rc).rc = rc
  BY DEF Returned

LEMMA DpSizeSound ==
    ASSUME NEW path, NEW limit, NEW size, fwup_dp_size(path, limit) = size
    PROVE  Sound(DpSize(path, limit, size))
  <1>. DEFINE t == DpSize(path, limit, size)
  <1>1. t.group = "dp_size" /\ t.path = path /\ t.limit = limit /\ t.expect = [rc |-> {size}]
    BY DEF DpSize
  <1>. HIDE DEF t
  <1>2. Call(t) = Returned(size)
    BY <1>1 DEF Call
  <1>3. Call(t).rc = size /\ size \in {size}
    BY <1>2, ReturnedRc
  <1>4. Sound(t)
    BY <1>1, <1>3, RcSound
  <1>. QED BY <1>4 DEF t

LEMMA DpSizeTestsSound == \A k \in 1..7 : Sound(DpSizeTests[k])
  <1>1. Sound(DpSize(<<End>>, 100, 4))
    BY OneNode, DpSizeSound
  <1>2. Sound(DpSize(<<Node(8), Node(6), End>>, 100, 18))
    BY ThreeNodes, DpSizeSound
  <1>3. Sound(DpSize(<<End>>, 3, -1))
    BY OneNode, DpSizeSound
  <1>4. Sound(DpSize(<<Node(8), End>>, 6, -1))
    BY TwoNodes, DpSizeSound
  <1>5. Sound(DpSize(<<End>>, 4, 4))
    BY OneNode, DpSizeSound
  <1>6. Sound(DpSize(<<End>>, 0, -1))
    BY OneNode, DpSizeSound
  <1>7. Sound(DpSize(<<Node(0), End>>, 100, -1))
    BY TwoNodes, DpSizeSound
  <1>. QED BY <1>1, <1>2, <1>3, <1>4, <1>5, <1>6, <1>7 DEF DpSizeTests

LEMMA ChecksumOf ==
    ASSUME NEW rest \in Nat, NEW mode \in Nat, NEW sum \in Nat
    PROVE  fwup_update_ux_capsule_checksum([rest |-> rest, mode |-> mode, checksum |-> sum]) =
             [rest |-> rest, mode |-> mode, checksum |-> (rest + mode) % 256]
  <1>. DEFINE p == [rest |-> rest, mode |-> mode, checksum |-> sum]
  <1>1. [p EXCEPT !.checksum = 0] = [rest |-> rest, mode |-> mode, checksum |-> 0]
    OBVIOUS
  <1>2. File(<<>>, 0)!Checksum(p) = (rest + mode) % 256
    <2>1. (rest + mode + 0) % 256 = (rest + mode) % 256
      OBVIOUS
    <2>. QED BY <1>1, <2>1 DEF File!Checksum, File!ByteSum
  <1>. QED BY <1>2 DEF fwup_update_ux_capsule_checksum

LEMMA ChecksumSound ==
    ASSUME NEW rest \in Nat, NEW mode \in Nat, NEW times, NEW sum,
           sum = rest + mode
    PROVE  Sound(Checksum(Payload(rest, mode), times, sum))
  <1>. DEFINE t == Checksum(Payload(rest, mode), times, sum)
              p == Payload(rest, mode)
              once == fwup_update_ux_capsule_checksum(p)
              ck == (rest + mode) % 256
  <1>1. t.group = "checksum" /\ t.payload = p /\ t.times = times /\ t.expect = [rc |-> {ck}]
    BY DEF Checksum
  <1>2. once = [rest |-> rest, mode |-> mode, checksum |-> ck]
    BY ChecksumOf DEF Payload
  <1>3. ck \in Nat
    OBVIOUS
  <1>4. fwup_update_ux_capsule_checksum(once) = [rest |-> rest, mode |-> mode, checksum |-> ck]
    <2>. HIDE DEF ck
    <2>1. fwup_update_ux_capsule_checksum([rest |-> rest, mode |-> mode, checksum |-> ck]) =
            [rest |-> rest, mode |-> mode, checksum |-> (rest + mode) % 256]
      BY <1>3, ChecksumOf
    <2>. QED BY <1>2, <2>1 DEF ck
  <1>. HIDE DEF t, p, once, ck
  <1>5. once.checksum = ck /\ fwup_update_ux_capsule_checksum(once).checksum = ck
    BY <1>2, <1>4
  <1>6. Call(t) = Returned(IF t.times = 1 THEN once.checksum
                       ELSE fwup_update_ux_capsule_checksum(once).checksum)
    BY <1>1 DEF Call, once
  <1>7. Call(t).rc = ck /\ ck \in {ck}
    BY <1>5, <1>6, ReturnedRc
  <1>8. Sound(t)
    BY <1>1, <1>7, RcSound
  <1>. QED BY <1>8 DEF t, p

LEMMA ChecksumTestsSound == \A k \in 1..3 : Sound(ChecksumTests[k])
  <1>1. Sound(Checksum(Payload(0, 0), 1, 0))
    BY ChecksumSound
  <1>2. Sound(Checksum(Payload(1 + 2 + 100 + 200, 3), 1, 1 + 2 + 3 + 100 + 200))
    BY ChecksumSound
  <1>3. Sound(Checksum(Payload(5 + 10 + 20, 42), 2, 5 + 42 + 10 + 20))
    BY ChecksumSound
  <1>. QED BY <1>1, <1>2, <1>3 DEF ChecksumTests

\* The graphics' header lies behind the capsule's and inside the image and the
\* file.
UxInside(capsule, fsize) ==
    /\ capsule.HeaderSize >= CapsuleHeader
    /\ capsule.HeaderSize + UxHeader <= capsule.CapsuleImageSize
    /\ capsule.HeaderSize + UxHeader <= fsize

LEMMA Sizes16 ==
    /\ Uint16 \in Nat /\ Uint16 > 1000
    /\ \A k \in Nat : k < 1000 => k \in 0..Uint16 - 1
  <1>1. Uint16 \in Nat /\ Uint16 > 1000
    BY DEF Uint16
  <1>. QED BY <1>1

LEMMA UxFitsIs ==
    ASSUME NEW capsule \in [HeaderSize : 0..Uint16 - 1, CapsuleImageSize : 0..Uint16 - 1],
           NEW fsize \in 0..Uint16 - 1
    PROVE  fwup_check_gop_for_ux_capsule(capsule, fsize) =
             IF UxInside(capsule, fsize) THEN "EFI_UNSUPPORTED" ELSE "EFI_INVALID_PARAMETER"
  <1>. DEFINE hs == capsule.HeaderSize
              is == capsule.CapsuleImageSize
  <1>1. /\ hs \in Nat /\ hs < Uint16 /\ is \in Nat /\ is < Uint16 /\ fsize \in Nat /\ fsize < Uint16
        /\ Uint16 \in Nat /\ Uint16 > 100 /\ UxHeader \in Nat /\ UxHeader < 100
        /\ CapsuleHeader \in Nat
    BY Sizes16 DEF CapsuleHeader, UxHeader
  <1>. HIDE DEF hs, is
  <1>2. is >= hs => (is - hs) % Uint16 = is - hs
    BY <1>1
  <1>3. hs + UxHeader <= is => (hs + UxHeader) % Uint16 = hs + UxHeader
    BY <1>1
  <1>4. File(capsule, fsize)!UxFits <=>
          /\ hs >= CapsuleHeader /\ is >= hs
          /\ (is - hs) % Uint16 >= UxHeader /\ (hs + UxHeader) % Uint16 <= fsize
    BY DEF File!UxFits, hs, is
  <1>5. UxInside(capsule, fsize) <=>
          hs >= CapsuleHeader /\ hs + UxHeader <= is /\ hs + UxHeader <= fsize
    BY DEF UxInside, hs, is
  <1>6. File(capsule, fsize)!UxFits <=> UxInside(capsule, fsize)
    BY <1>1, <1>2, <1>3, <1>4, <1>5
  <1>. QED BY <1>6 DEF fwup_check_gop_for_ux_capsule

LEMMA GopCall ==
    ASSUME NEW header \in 0..Uint16 - 1, NEW image \in 0..Uint16 - 1,
           NEW fsize \in 0..Uint16 - 1, NEW expect
    PROVE  LET t == Gop(header, image, fsize, expect)
           IN /\ t.group = "gop" /\ t.expect = expect /\ t.fsize = fsize
              /\ t.capsule.HeaderSize = header /\ t.capsule.CapsuleImageSize = image
              /\ Call(t) = Returned(IF UxInside(t.capsule, fsize) THEN "EFI_UNSUPPORTED"
                                    ELSE "EFI_INVALID_PARAMETER")
  <1>. DEFINE t == Gop(header, image, fsize, expect)
  <1>1. /\ t.group = "gop" /\ t.expect = expect /\ t.fsize = fsize
        /\ t.capsule = [HeaderSize |-> header, CapsuleImageSize |-> image]
    BY DEF Gop
  <1>. HIDE DEF t
  <1>2. Call(t) = Returned(fwup_check_gop_for_ux_capsule(t.capsule, t.fsize))
    BY <1>1 DEF Call
  <1>3. t.capsule \in [HeaderSize : 0..Uint16 - 1, CapsuleImageSize : 0..Uint16 - 1]
    BY <1>1
  <1>4. Call(t) = Returned(IF UxInside(t.capsule, fsize) THEN "EFI_UNSUPPORTED"
                           ELSE "EFI_INVALID_PARAMETER")
    BY <1>1, <1>2, <1>3, UxFitsIs
  <1>5. t.capsule.HeaderSize = header /\ t.capsule.CapsuleImageSize = image
    BY <1>1
  <1>. QED BY <1>1, <1>4, <1>5 DEF t

LEMMA GopSound ==
    ASSUME NEW header \in 0..Uint16 - 1, NEW image \in 0..Uint16 - 1,
           NEW fsize \in 0..Uint16 - 1, NEW rc,
           rc = IF header >= 28 /\ header + 16 <= image /\ header + 16 <= fsize
                  THEN "EFI_UNSUPPORTED" ELSE "EFI_INVALID_PARAMETER"
    PROVE  Sound(GopRc(header, image, fsize, rc))
  <1>. DEFINE t == Gop(header, image, fsize, [rc |-> {rc}])
  <1>1. /\ t.capsule.HeaderSize = header /\ t.capsule.CapsuleImageSize = image
        /\ t.expect = [rc |-> {rc}]
        /\ Call(t) = Returned(IF UxInside(t.capsule, fsize) THEN "EFI_UNSUPPORTED"
                              ELSE "EFI_INVALID_PARAMETER")
    BY GopCall
  <1>. HIDE DEF t
  <1>2. UxInside(t.capsule, fsize) <=>
          header >= 28 /\ header + 16 <= image /\ header + 16 <= fsize
    BY <1>1 DEF UxInside, CapsuleHeader, UxHeader
  <1>3. Call(t).rc = rc /\ rc \in {rc}
    BY <1>1, <1>2, ReturnedRc
  <1>4. Sound(t)
    BY <1>1, <1>3, RcSound
  <1>. QED BY <1>4 DEF GopRc, t

LEMMA GopTestsSound == \A k \in 1..6 : Sound(GopTests[k])
  <1>1. ASSUME NEW header \in 0..Uint16 - 1, NEW image \in 0..Uint16 - 1,
               NEW fsize \in 0..Uint16 - 1,
               header < 28 \/ header + 16 > image \/ header + 16 > fsize
        PROVE  Sound(GopRc(header, image, fsize, "EFI_INVALID_PARAMETER"))
    <2>1. ~(header >= 28 /\ header + 16 <= image /\ header + 16 <= fsize)
      BY <1>1, Sizes16
    <2>. QED BY <2>1, GopSound
  <1>2. Sound(GopRc(CapsuleHeader - 1, 256, 256, "EFI_INVALID_PARAMETER"))
    BY <1>1, Sizes16 DEF CapsuleHeader, UxHeader, Least
  <1>3. Sound(GopRc(CapsuleHeader, CapsuleHeader - 1, 256, "EFI_INVALID_PARAMETER"))
    BY <1>1, Sizes16 DEF CapsuleHeader, UxHeader, Least
  <1>4. Sound(GopRc(CapsuleHeader, Least - 1, 256, "EFI_INVALID_PARAMETER"))
    BY <1>1, Sizes16 DEF CapsuleHeader, UxHeader, Least
  <1>5. Sound(GopRc(CapsuleHeader, Least, Least - 1, "EFI_INVALID_PARAMETER"))
    BY <1>1, Sizes16 DEF CapsuleHeader, UxHeader, Least
  <1>6. Sound(GopRc(CapsuleHeader, Least, Least, "EFI_UNSUPPORTED"))
    <2>1. /\ CapsuleHeader \in 0..Uint16 - 1 /\ Least \in 0..Uint16 - 1
          /\ CapsuleHeader >= 28 /\ CapsuleHeader + 16 <= Least
      BY Sizes16 DEF CapsuleHeader, UxHeader, Least
    <2>. QED BY <2>1, GopSound
  <1>7. Sound(GopRc(CapsuleHeader + 1, Least, Least, "EFI_INVALID_PARAMETER"))
    BY <1>1, Sizes16 DEF CapsuleHeader, UxHeader, Least
  <1>. QED BY <1>2, <1>3, <1>4, <1>5, <1>6, <1>7 DEF GopTests

\* A variable that exists is read in two calls, and one that does not is not.
LEMMA GetOf ==
    ASSUME NEW size \in Nat, NEW attrs, NEW data
    PROVE  fwup_get_variable(Var(size, attrs, data)) =
             [rc |-> "EFI_SUCCESS", buf |-> <<data>>, size |-> size, attrs |-> attrs]
  <1>. DEFINE v == Var(size, attrs, data)
  <1>1. v.status = "EFI_SUCCESS" /\ v.size = size /\ v.attrs = attrs /\ v.data = data
    BY DEF Var
  <1>. HIDE DEF v
  <1>2. /\ mock_get_variable(v, -1) = "EFI_BUFFER_TOO_SMALL"
        /\ mock_get_variable(v, v.size) = "EFI_SUCCESS"
    BY <1>1 DEF mock_get_variable
  <1>. QED BY <1>1, <1>2 DEF fwup_get_variable, v

LEMMA GetMissing == fwup_get_variable(mock_init) = NotRead("EFI_NOT_FOUND")
  <1>1. mock_init.status = "EFI_NOT_FOUND"
    BY DEF mock_init
  <1>2. mock_get_variable(mock_init, -1) = "EFI_NOT_FOUND"
    BY <1>1 DEF mock_get_variable
  <1>. QED BY <1>2 DEF fwup_get_variable

\* A variable is accepted if it is larger than the structure and one header
\* and its path is the whole rest of it.
PathAccepted(size, path) ==
    size > UpdateInfo + 4 /\ fwup_dp_size(path, size - DpOffset) = size - DpOffset

\* The outputs for a variable that is accepted.
Populated(size) == [rc |-> "EFI_SUCCESS", info |-> TRUE, name |-> TRUE, size |-> size]

LEMMA PopulateCall ==
    ASSUME NEW size \in Nat, NEW attrs, NEW path \in Paths, NEW expect
    PROVE  LET t == Populate(Var(size, attrs, path), expect)
           IN /\ t.group = "populate" /\ t.expect = expect
              /\ t.var.size = size /\ t.var.data = path
              /\ Call(t) = IF PathAccepted(size, path) THEN Populated(size)
                                                       ELSE Rejected("EFI_INVALID_PARAMETER")
  <1>. DEFINE v == Var(size, attrs, path)
              t == Populate(v, expect)
              got == fwup_get_variable(v)
  <1>1. v.size = size /\ v.data = path
    BY DEF Var
  <1>2. got.rc = "EFI_SUCCESS" /\ got.size = size /\ got.buf[1] = path
    <2>1. got = [rc |-> "EFI_SUCCESS", buf |-> <<path>>, size |-> size, attrs |-> attrs]
      BY GetOf
    <2>. HIDE DEF got
    <2>. QED BY <2>1
  <1>. HIDE DEF v
  <1>3. t.group = "populate" /\ t.expect = expect /\ t.var = v
    BY DEF Populate
  <1>. HIDE DEF t
  <1>4. Call(t) = fwup_populate_update_info(v)
    BY <1>3 DEF Call
  <1>5. Path(size, 0)!TooSmall <=> ~(size > UpdateInfo + 4)
    BY DEF Path!TooSmall, Path!InfoSize, Path!Header, UpdateInfo, DpOffset
  <1>6. \A sz : Path(size, 0)!Fills(sz) <=> sz = size - DpOffset
    BY DEF Path!Fills, Path!Area
  <1>7. Accepted(got) = Populated(size)
    BY <1>2 DEF Accepted, Populated
  <1>8. fwup_populate_update_info(v) =
          IF PathAccepted(size, path) THEN Populated(size) ELSE Rejected("EFI_INVALID_PARAMETER")
    <2>1. fwup_populate_update_info(v) =
            IF \/ Path(size, 0)!TooSmall
               \/ ~Path(size, 0)!Fills(fwup_dp_size(path, size - DpOffset))
              THEN Rejected("EFI_INVALID_PARAMETER") ELSE Accepted(got)
      BY <1>2, Zenon DEF fwup_populate_update_info
    <2>. QED BY <1>5, <1>6, <1>7, <2>1 DEF PathAccepted
  <1>. QED BY <1>1, <1>3, <1>4, <1>8 DEF t, v

LEMMA RejectedIs ==
    Rejected("EFI_INVALID_PARAMETER").rc = "EFI_INVALID_PARAMETER"
    /\ "EFI_INVALID_PARAMETER" \in Errors
  BY DEF Rejected, Errors

LEMMA PopulateFails ==
    ASSUME NEW size \in Nat, NEW attrs, NEW path \in Paths, ~PathAccepted(size, path)
    PROVE  Sound(Populate(Var(size, attrs, path), Fails))
  <1>. DEFINE t == Populate(Var(size, attrs, path), Fails)
  <1>1. t.expect = Fails /\ Call(t) = Rejected("EFI_INVALID_PARAMETER")
    BY PopulateCall
  <1>. HIDE DEF t
  <1>2. Call(t).rc = "EFI_INVALID_PARAMETER"
    BY <1>1, RejectedIs
  <1>3. Sound(t)
    <2>1. t.expect = [rc |-> Errors]
      BY <1>1 DEF Fails
    <2>. HIDE DEF Errors
    <2>. QED BY <1>2, <2>1, RejectedIs, RcSound
  <1>. QED BY <1>3 DEF t

LEMMA PopulateSucceeds ==
    ASSUME NEW size \in Nat, NEW attrs, NEW path \in Paths, PathAccepted(size, path)
    PROVE  Sound(Populate(Var(size, attrs, path),
                          [rc |-> {"EFI_SUCCESS"}, info |-> {TRUE}, name |-> {TRUE},
                           size |-> {size}]))
  <1>. DEFINE e == [rc |-> {"EFI_SUCCESS"}, info |-> {TRUE}, name |-> {TRUE}, size |-> {size}]
              t == Populate(Var(size, attrs, path), e)
  <1>1. t.expect = e /\ Call(t) = Populated(size)
    <2>. HIDE DEF e
    <2>. QED BY PopulateCall
  <1>. HIDE DEF t
  <1>2. /\ DOMAIN t.expect = {"rc", "info", "name", "size"}
        /\ t.expect["rc"] = {"EFI_SUCCESS"} /\ t.expect["info"] = {TRUE}
        /\ t.expect["name"] = {TRUE} /\ t.expect["size"] = {size}
    BY <1>1
  <1>3. /\ Call(t)["rc"] = "EFI_SUCCESS" /\ Call(t)["info"] = TRUE
        /\ Call(t)["name"] = TRUE /\ Call(t)["size"] = size
    BY <1>1 DEF Populated
  <1>4. Sound(t)
    BY <1>2, <1>3 DEF Sound, Asserted
  <1>. QED BY <1>4 DEF t

LEMMA PopulateTestsSound == \A k \in 1..5 : Sound(PopulateTests[k])
  <1>1. <<>> \in Paths /\ <<End>> \in Paths /\ \A k \in Nat : <<Node(k), End>> \in Paths
    <2>. HIDE DEF End, Node
    <2>. QED BY NodeOf DEF Paths
  <1>2. UpdateInfo = 56 /\ DpOffset = 52
    BY DEF UpdateInfo, DpOffset
  <1>3. /\ ~PathAccepted(UpdateInfo - 1, <<>>) /\ ~PathAccepted(UpdateInfo, <<>>)
        /\ ~PathAccepted(DpOffset + 8, <<End>>)
    BY <1>2 DEF PathAccepted
  <1>4. Sound(Populate(Var(UpdateInfo - 1, {}, <<>>), Fails))
    <2>1. UpdateInfo - 1 \in Nat
      BY <1>2
    <2>. HIDE DEF Populate, Var, Fails
    <2>. QED BY <1>1, <1>3, <2>1, PopulateFails
  <1>5. Sound(Populate(Var(UpdateInfo, {}, <<>>), Fails))
    <2>1. UpdateInfo \in Nat
      BY <1>2
    <2>. HIDE DEF Populate, Var, Fails
    <2>. QED BY <1>1, <1>3, <2>1, PopulateFails
  <1>6. Sound(Populate(Var(DpOffset + 8, {}, <<End>>), Fails))
    <2>1. DpOffset + 8 \in Nat
      BY <1>2
    <2>. HIDE DEF Populate, Var, Fails
    <2>. QED BY <1>1, <1>3, <2>1, PopulateFails
  <1>7. Sound(Populate(Var(UpdateInfo + 8, Nonvolatile,
                           <<Node(UpdateInfo + 8 - DpOffset - 4), End>>),
                       [rc |-> {"EFI_SUCCESS"}, info |-> {TRUE}, name |-> {TRUE},
                        size |-> {UpdateInfo + 8}]))
    <2>. DEFINE l == UpdateInfo + 8 - DpOffset - 4
                size == UpdateInfo + 8
                path == <<Node(l), End>>
    <2>1. l = 8 /\ size = 64 /\ size - DpOffset = 12
      BY <1>2
    <2>2. fwup_dp_size(path, 12) = 12
      BY <2>1, TwoNodes
    <2>3. PathAccepted(size, path)
      BY <1>2, <2>1, <2>2 DEF PathAccepted
    <2>4. path \in Paths /\ size \in Nat
      BY <1>1, <2>1
    <2>. HIDE DEF l, size, path
    <2>5. Sound(Populate(Var(size, Nonvolatile, path),
                         [rc |-> {"EFI_SUCCESS"}, info |-> {TRUE}, name |-> {TRUE},
                          size |-> {size}]))
      BY <2>3, <2>4, PopulateSucceeds
    <2>. QED BY <2>5 DEF l, size, path
  <1>8. Sound(Populate(mock_init, [rc |-> {"EFI_NOT_FOUND"}]))
    <2>. DEFINE t == Populate(mock_init, [rc |-> {"EFI_NOT_FOUND"}])
    <2>1. t.group = "populate" /\ t.var = mock_init /\ t.expect = [rc |-> {"EFI_NOT_FOUND"}]
      BY DEF Populate
    <2>. HIDE DEF t
    <2>2. Call(t) = fwup_populate_update_info(mock_init)
      BY <2>1 DEF Call
    <2>3. fwup_populate_update_info(mock_init) = Rejected("EFI_NOT_FOUND")
      BY GetMissing DEF fwup_populate_update_info, NotRead
    <2>4. Call(t).rc = "EFI_NOT_FOUND"
      BY <2>2, <2>3 DEF Rejected
    <2>5. Sound(t)
      BY <2>1, <2>4, RcSound
    <2>. QED BY <2>5 DEF t
  <1>. QED BY <1>4, <1>5, <1>6, <1>7, <1>8 DEF PopulateTests

LEMMA ImageSizeSound ==
    ASSUME NEW image \in Nat, NEW fsize \in Nat, NEW S,
           IF image >= 28 /\ image <= fsize THEN "EFI_SUCCESS" \in S
                                            ELSE "EFI_INVALID_PARAMETER" \in S
    PROVE  Sound(ImageSize(image, fsize, [rc |-> S]))
  <1>. DEFINE t == ImageSize(image, fsize, [rc |-> S])
  <1>1. /\ t.group = "image" /\ t.expect = [rc |-> S] /\ t.fsize = fsize
        /\ t.capsule.CapsuleImageSize = image
    BY DEF ImageSize
  <1>. HIDE DEF t
  <1>2. Call(t) = Returned(IF image >= 28 /\ image <= fsize THEN "EFI_SUCCESS"
                                                             ELSE "EFI_INVALID_PARAMETER")
    BY <1>1 DEF Call, fwup_validate_capsule_size, File!ImageFits, CapsuleHeader
  <1>3. Call(t).rc \in S
    BY <1>2, ReturnedRc
  <1>4. Sound(t)
    BY <1>1, <1>3, RcSound
  <1>. QED BY <1>4 DEF t

LEMMA ImageSizeTestsSound == \A k \in 1..4 : Sound(ImageSizeTests[k])
  <1>1. "EFI_INVALID_PARAMETER" \in Errors /\ CapsuleHeader = 28
    BY DEF Errors, CapsuleHeader
  <1>2. Sound(ImageSize(64 + 1, 64, Fails))
    BY <1>1, ImageSizeSound DEF Fails
  <1>3. Sound(ImageSize(CapsuleHeader - 1, 128, Fails))
    BY <1>1, ImageSizeSound DEF Fails
  <1>4. Sound(ImageSize(CapsuleHeader, CapsuleHeader - 1, Fails))
    BY <1>1, ImageSizeSound DEF Fails
  <1>5. Sound(ImageSize(128, 128, [rc |-> {"EFI_SUCCESS"}]))
    BY ImageSizeSound
  <1>. QED BY <1>2, <1>3, <1>4, <1>5 DEF ImageSizeTests

LEMMA DeleteCall ==
    ASSUME NEW status, NEW expect, status # "EFI_SUCCESS"
    PROVE  LET t == Delete(status, expect)
           IN /\ t.expect = expect
              /\ Call(t) = Deleted(IF status = "EFI_NOT_FOUND" THEN "EFI_SUCCESS" ELSE status,
                                   FALSE)
  <1>. DEFINE t == Delete(status, expect)
  <1>1. t.group = "delete" /\ t.expect = expect /\ t.var.status = status
    BY DEF Delete, mock_init
  <1>. HIDE DEF t
  <1>2. mock_get_variable(t.var, -1) = status
    BY <1>1 DEF mock_get_variable
  <1>3. Call(t) = fwup_delete_variable(t.var)
    BY <1>1 DEF Call
  <1>4. fwup_delete_variable(t.var) =
          Deleted(IF status = "EFI_NOT_FOUND" THEN "EFI_SUCCESS" ELSE status, FALSE)
    BY <1>2 DEF fwup_delete_variable
  <1>. QED BY <1>1, <1>3, <1>4 DEF t

LEMMA DeleteTestsSound == \A k \in 1..3 : Sound(DeleteTests[k])
  <1>1. Sound(Delete("EFI_BUFFER_TOO_SMALL",
                     [rc |-> {"EFI_BUFFER_TOO_SMALL"}, set_called |-> {FALSE}]))
    <2>. DEFINE e == [rc |-> {"EFI_BUFFER_TOO_SMALL"}, set_called |-> {FALSE}]
                t == Delete("EFI_BUFFER_TOO_SMALL", e)
    <2>1. t.expect = e /\ Call(t) = Deleted("EFI_BUFFER_TOO_SMALL", FALSE)
      <3>. HIDE DEF e
      <3>. QED BY DeleteCall
    <2>. HIDE DEF t
    <2>2. /\ DOMAIN t.expect = {"rc", "set_called"}
          /\ t.expect["rc"] = {"EFI_BUFFER_TOO_SMALL"} /\ t.expect["set_called"] = {FALSE}
      BY <2>1
    <2>3. Call(t)["rc"] = "EFI_BUFFER_TOO_SMALL" /\ Call(t)["set_called"] = FALSE
      BY <2>1 DEF Deleted
    <2>4. Sound(t)
      BY <2>2, <2>3 DEF Sound, Asserted
    <2>. QED BY <2>4 DEF t
  <1>2. ASSUME NEW status, status # "EFI_SUCCESS", NEW rc,
               rc = IF status = "EFI_NOT_FOUND" THEN "EFI_SUCCESS" ELSE status
        PROVE  Sound(Delete(status, [rc |-> {rc}]))
    <2>. DEFINE t == Delete(status, [rc |-> {rc}])
    <2>1. t.expect = [rc |-> {rc}] /\ Call(t) = Deleted(rc, FALSE)
      BY <1>2, DeleteCall
    <2>. HIDE DEF t
    <2>2. Call(t).rc = rc /\ rc \in {rc}
      BY <2>1 DEF Deleted
    <2>3. Sound(t)
      BY <2>1, <2>2, RcSound
    <2>. QED BY <2>3 DEF t
  <1>3. Sound(Delete("EFI_NOT_FOUND", [rc |-> {"EFI_SUCCESS"}]))
    BY <1>2
  <1>4. Sound(Delete("EFI_UNSUPPORTED", [rc |-> {"EFI_UNSUPPORTED"}]))
    BY <1>2
  <1>. QED BY <1>1, <1>3, <1>4 DEF DeleteTests

LEMMA GetCall ==
    ASSUME NEW var, NEW expect
    PROVE  LET t == Get(var, expect)
           IN t.expect = expect /\ Call(t) = fwup_get_variable(var)
  <1>. DEFINE t == Get(var, expect)
  <1>1. t.group = "get" /\ t.expect = expect /\ t.var = var
    BY DEF Get
  <1>. HIDE DEF t
  <1>2. Call(t) = fwup_get_variable(var)
    BY <1>1 DEF Call
  <1>. QED BY <1>1, <1>2 DEF t

LEMMA GetTestsSound == \A k \in 1..2 : Sound(GetTests[k])
  <1>1. ASSUME NEW size \in Nat, NEW attrs, NEW data
        PROVE  Sound(Get(Var(size, attrs, data),
                         [rc |-> {"EFI_SUCCESS"}, size |-> {size}, attrs |-> {attrs},
                          buf |-> {<<data>>}]))
    <2>. DEFINE b == <<data>>
                e == [rc |-> {"EFI_SUCCESS"}, size |-> {size}, attrs |-> {attrs}, buf |-> {b}]
                t == Get(Var(size, attrs, data), e)
    <2>1. /\ t.expect = e
          /\ Call(t) = [rc |-> "EFI_SUCCESS", buf |-> b, size |-> size, attrs |-> attrs]
      <3>. HIDE DEF e
      <3>. QED BY GetCall, GetOf
    <2>. HIDE DEF b, t
    <2>2. /\ DOMAIN t.expect = {"rc", "size", "attrs", "buf"}
          /\ t.expect["rc"] = {"EFI_SUCCESS"} /\ t.expect["size"] = {size}
          /\ t.expect["attrs"] = {attrs} /\ t.expect["buf"] = {b}
      BY <2>1
    <2>3. /\ Call(t)["rc"] = "EFI_SUCCESS" /\ Call(t)["size"] = size
          /\ Call(t)["attrs"] = attrs /\ Call(t)["buf"] = b
      BY <2>1
    <2>4. Sound(t)
      BY <2>2, <2>3 DEF Sound, Asserted
    <2>. QED BY <2>4 DEF b, t
  <1>2. Sound(Get(Var(4, {"EFI_VARIABLE_NON_VOLATILE"}, <<1, 2, 3, 4>>),
                  [rc |-> {"EFI_SUCCESS"}, size |-> {4},
                   attrs |-> {{"EFI_VARIABLE_NON_VOLATILE"}},
                   buf |-> {<<<<1, 2, 3, 4>>>>}]))
    BY <1>1
  <1>3. Sound(Get(mock_init, [rc |-> {"EFI_NOT_FOUND"}, buf |-> {<<>>}]))
    <2>. DEFINE e == [rc |-> {"EFI_NOT_FOUND"}, buf |-> {<<>>}]
                t == Get(mock_init, e)
    <2>1. t.expect = e /\ Call(t) = NotRead("EFI_NOT_FOUND")
      <3>. HIDE DEF e
      <3>. QED BY GetCall, GetMissing
    <2>. HIDE DEF t
    <2>2. /\ DOMAIN t.expect = {"rc", "buf"}
          /\ t.expect["rc"] = {"EFI_NOT_FOUND"} /\ t.expect["buf"] = {<<>>}
      BY <2>1
    <2>3. Call(t)["rc"] = "EFI_NOT_FOUND" /\ Call(t)["buf"] = <<>>
      BY <2>1 DEF NotRead
    <2>4. Sound(t)
      BY <2>2, <2>3 DEF Sound, Asserted
    <2>. QED BY <2>4 DEF t
  <1>. QED BY <1>2, <1>3 DEF GetTests

LEMMA CbdTestsSound == \A k \in 1..1 : Sound(CbdTests[k])
  <1>. DEFINE t == CbdTests[1]
              after == <<100, 200, Run!Terminator, 0, 0>>
  <1>1. /\ t.group = "cbd" /\ t.cbd = <<100, 200, 999, 0, 0>> /\ t.n = 2
        /\ t.expect = [rc |-> {after}]
    BY DEF CbdTests
  <1>. HIDE DEF t
  <1>2. Call(t) = Returned(Run!SetTerminator(t.cbd, t.n))
    BY <1>1 DEF Call
  <1>3. [<<100, 200, 999, 0, 0>> EXCEPT ![2 + 1] = Run!Terminator] = after
    OBVIOUS
  <1>4. Run!SetTerminator(t.cbd, t.n) = after
    BY <1>1, <1>3 DEF Run!SetTerminator
  <1>. HIDE DEF after
  <1>5. Call(t).rc = after /\ after \in {after}
    BY <1>2, <1>4, ReturnedRc
  <1>6. Sound(t)
    BY <1>1, <1>5, RcSound
  <1>. QED BY <1>6 DEF t

\* Every test of main is sound.
AllSound(s) == \A k \in 1..Len(s) : Sound(s[k])

LEMMA ConcatSound ==
    ASSUME NEW S, NEW s \in Seq(S), NEW t \in Seq(S), AllSound(s), AllSound(t)
    PROVE  s \o t \in Seq(S) /\ AllSound(s \o t)
  <1>1. s \o t \in Seq(S) /\ Len(s \o t) = Len(s) + Len(t)
    BY ConcatProperties
  <1>2. ASSUME NEW k \in 1..Len(s \o t) PROVE Sound((s \o t)[k])
    <2>1. k \in 1..Len(s) + Len(t) /\ Len(s) \in Nat /\ Len(t) \in Nat
      BY <1>1
    <2>2. (s \o t)[k] = IF k <= Len(s) THEN s[k] ELSE t[k - Len(s)]
      BY <2>1, ConcatProperties
    <2>3. CASE k <= Len(s)
      BY <2>1, <2>2, <2>3 DEF AllSound
    <2>4. CASE ~(k <= Len(s))
      <3>1. k - Len(s) \in 1..Len(t)
        BY <2>1, <2>4
      <3>. QED BY <2>2, <2>4, <3>1 DEF AllSound
    <2>. QED BY <2>3, <2>4
  <1>. QED BY <1>1, <1>2 DEF AllSound

LEMMA SeqOfMore ==
    ASSUME NEW S, NEW T, S \subseteq T, NEW s \in Seq(S)
    PROVE  s \in Seq(T)
  OBVIOUS

LEMMA TestsSound == Len(Tests) \in Nat /\ AllSound(Tests)
  <1>. DEFINE T == UNION {Range(DpSizeTests), Range(ChecksumTests), Range(GopTests),
                          Range(PopulateTests), Range(ImageSizeTests), Range(DeleteTests),
                          Range(GetTests), Range(CbdTests)}
  <1>1. DpSizeTests \in Seq(T) /\ AllSound(DpSizeTests)
    <2>1. DpSizeTests \in Seq(Range(DpSizeTests)) /\ Len(DpSizeTests) = 7
      BY DEF DpSizeTests, Range
    <2>. QED BY <2>1, SeqOfMore, DpSizeTestsSound DEF AllSound
  <1>2. ChecksumTests \in Seq(T) /\ AllSound(ChecksumTests)
    <2>1. ChecksumTests \in Seq(Range(ChecksumTests)) /\ Len(ChecksumTests) = 3
      BY DEF ChecksumTests, Range
    <2>. QED BY <2>1, SeqOfMore, ChecksumTestsSound DEF AllSound
  <1>3. GopTests \in Seq(T) /\ AllSound(GopTests)
    <2>1. GopTests \in Seq(Range(GopTests)) /\ Len(GopTests) = 6
      BY DEF GopTests, Range
    <2>. QED BY <2>1, SeqOfMore, GopTestsSound DEF AllSound
  <1>4. PopulateTests \in Seq(T) /\ AllSound(PopulateTests)
    <2>1. PopulateTests \in Seq(Range(PopulateTests)) /\ Len(PopulateTests) = 5
      BY DEF PopulateTests, Range
    <2>. QED BY <2>1, SeqOfMore, PopulateTestsSound DEF AllSound
  <1>5. ImageSizeTests \in Seq(T) /\ AllSound(ImageSizeTests)
    <2>1. ImageSizeTests \in Seq(Range(ImageSizeTests)) /\ Len(ImageSizeTests) = 4
      BY DEF ImageSizeTests, Range
    <2>. QED BY <2>1, SeqOfMore, ImageSizeTestsSound DEF AllSound
  <1>6. DeleteTests \in Seq(T) /\ AllSound(DeleteTests)
    <2>1. DeleteTests \in Seq(Range(DeleteTests)) /\ Len(DeleteTests) = 3
      BY DEF DeleteTests, Range
    <2>. QED BY <2>1, SeqOfMore, DeleteTestsSound DEF AllSound
  <1>7. GetTests \in Seq(T) /\ AllSound(GetTests)
    <2>1. GetTests \in Seq(Range(GetTests)) /\ Len(GetTests) = 2
      BY DEF GetTests, Range
    <2>. QED BY <2>1, SeqOfMore, GetTestsSound DEF AllSound
  <1>8. CbdTests \in Seq(T) /\ AllSound(CbdTests)
    <2>1. CbdTests \in Seq(Range(CbdTests)) /\ Len(CbdTests) = 1
      BY DEF CbdTests, Range
    <2>. QED BY <2>1, SeqOfMore, CbdTestsSound DEF AllSound
  <1>. HIDE DEF T
  <1>9. Tests \in Seq(T) /\ AllSound(Tests)
    BY <1>1, <1>2, <1>3, <1>4, <1>5, <1>6, <1>7, <1>8, ConcatSound DEF Tests
  <1>. QED BY <1>9

------------------------------------------------------------------------------
(* The programs *)

\* What runs is a test of main or an input of the fuzz target.
Runs ==
    CASE program = "selftest" -> Sound(test)
      [] program = "fuzz-capsule" ->
           \E header, image \in FuzzFields, fsize \in FuzzFileSizes :
              test = Gop(header, image, fsize, <<>>)
      [] program = "fuzz-update-info" ->
           \E size \in FuzzInfoSizes :
           \E path \in SeqOf([length : FuzzLengths, end : BOOLEAN], FuzzNodes) :
              test = Populate(Var(size, Nonvolatile, path), <<>>)

\* The result is that of what runs.
IInv ==
    /\ program \in {"selftest", "fuzz-capsule", "fuzz-update-info"}
    /\ pc \in {"main", "test", "assert"}
    /\ tests_run \in Nat
    /\ pc # "main" => Runs
    /\ pc = "assert" => result = Call(test)

USE FuzzAssumption

LEMMA FuzzedPath ==
    ASSUME NEW path \in SeqOf([length : FuzzLengths, end : BOOLEAN], FuzzNodes)
    PROVE  path \in Paths
  <1>. DEFINE S == [length : FuzzLengths, end : BOOLEAN]
              T == [length : Nat, end : BOOLEAN]
  <1>1. S \subseteq T
    <2>1. FuzzLengths \subseteq Nat
      BY Sizes16
    <2>. QED BY <2>1
  <1>2. PICK n \in 0..FuzzNodes : path \in [1..n -> S]
    BY DEF SeqOf
  <1>. HIDE DEF S, T
  <1>3. path \in Seq(T)
    BY <1>1, <1>2
  <1>. QED BY <1>3 DEF Paths, T

LEMMA IInit == Init => IInv
  BY DEF Init, IInv

LEMMA INext == IInv /\ [Next]_vars => IInv'
  <1>. SUFFICES ASSUME IInv, [Next]_vars PROVE IInv'
    OBVIOUS
  <1>1. CASE NextTest
    <2>1. /\ program' = program /\ program = "selftest" /\ pc' = "test" /\ pc = "main"
          /\ tests_run' = tests_run + 1 /\ test' = Tests[tests_run + 1]
          /\ tests_run < Len(Tests) /\ tests_run \in Nat
      BY <1>1 DEF NextTest, IInv
    <2>2. Sound(test)'
      <3>1. tests_run + 1 \in 1..Len(Tests)
        BY <2>1, TestsSound
      <3>. QED BY <2>1, <3>1, TestsSound DEF AllSound
    <2>. QED BY <2>1, <2>2 DEF IInv, Runs
  <1>2. CASE FuzzCapsule
    BY <1>2 DEF FuzzCapsule, IInv, Runs
  <1>3. CASE FuzzUpdateInfo
    BY <1>3 DEF FuzzUpdateInfo, IInv, Runs
  <1>4. CASE RunTest
    BY <1>4 DEF RunTest, IInv, Runs
  <1>5. CASE Passes
    BY <1>5 DEF Passes, IInv
  <1>6. CASE UNCHANGED vars
    BY <1>6 DEF vars, IInv, Runs
  <1>. QED BY <1>1, <1>2, <1>3, <1>4, <1>5, <1>6 DEF Next

\* What runs was chosen by main or by the fuzzer, and a result is what the code
\* under test returns for it.
THEOREM Invariant == Spec => []IInv
  BY IInit, INext, PTL DEF Spec

\* No assertion of fwup-selftest.c fails, whether it is on what the function
\* returns or on what it leaves in its outputs.
THEOREM NoAssertionFails == Spec => []AssertionsHold
  <1>1. IInv => AssertionsHold
    <2>. SUFFICES ASSUME IInv, program = "selftest", pc = "assert"
                  PROVE  Asserted(test, result)
      BY DEF AssertionsHold
    <2>. QED BY DEF IInv, Runs, Sound
  <1>. QED BY <1>1, Invariant, PTL

\* The whole path that WholePath looks for is the one the loop finds.
LEMMA WholeIsFound ==
    ASSUME NEW var, var.data \in Paths, var.size \in Nat, var.size > UpdateInfo + 4
    PROVE  PathAccepted(var.size, var.data) <=> \E n \in DOMAIN var.data : WholePath(var, n)
  <1>. DEFINE path == var.data
              limit == var.size - DpOffset
              N == Len(path)
              ret == fwup_dp_size(path, limit)
  <1>1. /\ N \in Nat /\ DOMAIN path = 1..N /\ limit \in Nat /\ limit > 0
        /\ \A n \in 1..N : path[n].end \in BOOLEAN
        /\ Sizes(path) \in [0..N -> Nat]
    BY PathNode, SizesDef DEF UpdateInfo, DpOffset
  <1>2. ASSUME NEW n \in 1..N
        PROVE  WholePath(var, n) <=> EndsAt(path, limit, n) /\ Sizes(path)[n] = limit
    <2>1. {k \in 1..n : path[k].end} = {n} <=> path[n].end /\ \A k \in 1..n - 1 : ~path[k].end
      <3>. DEFINE ends == {k \in 1..n : path[k].end}
      <3>1. /\ n \in 1..n
            /\ \A k \in 1..n : k = n \/ k \in 1..n - 1
            /\ \A k \in 1..n - 1 : k \in 1..n /\ k # n
        OBVIOUS
      <3>2. ASSUME ends = {n} PROVE path[n].end /\ \A k \in 1..n - 1 : ~path[k].end
        <4>1. n \in ends /\ \A k \in 1..n - 1 : k \notin ends
          BY <3>1, <3>2, Zenon
        <4>. QED BY <3>1, <4>1
      <3>3. ASSUME path[n].end, \A k \in 1..n - 1 : ~path[k].end PROVE ends = {n}
        BY <3>1, <3>3, Zenon
      <3>. QED BY <3>2, <3>3
    <2>2. Sizes(path)[n] = limit => Sizes(path)[n] <= limit
      BY <1>1
    <2>. QED BY <2>1, <2>2 DEF WholePath, EndsAt
  <1>3. Found(path, limit, ret)
    BY <1>1, DpSizeFound
  <1>4. ASSUME NEW i \in 1..N, NEW j \in 1..N, EndsAt(path, limit, i), EndsAt(path, limit, j)
        PROVE  i = j
    <2>1. ~(i \in 1..j - 1) /\ ~(j \in 1..i - 1)
      BY <1>4 DEF EndsAt
    <2>. QED BY <1>1, <2>1
  <1>5. ret = limit <=> \E n \in 1..N : EndsAt(path, limit, n) /\ Sizes(path)[n] = limit
    BY <1>1, <1>3, <1>4 DEF Found
  <1>6. ret = limit <=> \E n \in 1..N : WholePath(var, n)
    BY <1>2, <1>5
  <1>. QED BY <1>1, <1>6 DEF PathAccepted

\* A fuzzed variable is accepted if and only if it is larger than the structure
\* and one header and holds a whole path; a fuzzed capsule if and only if the
\* graphics' header is inside it (fwup_populate_update_info, fwup_dp_size and
\* fwup_check_gop_for_ux_capsule), for paths of any length.
THEOREM VerdictsAreRight == Spec => []FuzzVerdicts
  <1>1. ASSUME IInv, program = "fuzz-update-info", pc = "assert"
        PROVE  result.rc = "EFI_SUCCESS" <=>
                 /\ test.var.size > UpdateInfo + 4
                 /\ \E n \in DOMAIN test.var.data : WholePath(test.var, n)
    <2>1. PICK size \in FuzzInfoSizes,
               path \in SeqOf([length : FuzzLengths, end : BOOLEAN], FuzzNodes) :
             test = Populate(Var(size, Nonvolatile, path), <<>>)
      BY <1>1 DEF IInv, Runs
    <2>2. size \in Nat /\ path \in Paths
      BY FuzzedPath
    <2>3. /\ test.var.size = size /\ test.var.data = path
          /\ Call(test) = IF PathAccepted(size, path) THEN Populated(size)
                                                      ELSE Rejected("EFI_INVALID_PARAMETER")
      BY <2>1, <2>2, PopulateCall
    <2>4. result.rc = "EFI_SUCCESS" <=> PathAccepted(size, path)
      BY <1>1, <2>3, RejectedIs DEF IInv, Populated
    <2>5. CASE size > UpdateInfo + 4
      BY <2>2, <2>3, <2>4, <2>5, WholeIsFound
    <2>6. CASE ~(size > UpdateInfo + 4)
      BY <2>3, <2>4, <2>6 DEF PathAccepted
    <2>. QED BY <2>5, <2>6
  <1>2. ASSUME IInv, program = "fuzz-capsule", pc = "assert"
        PROVE  result.rc = "EFI_UNSUPPORTED" <=>
                 /\ test.capsule.HeaderSize >= CapsuleHeader
                 /\ test.capsule.HeaderSize + UxHeader <= test.capsule.CapsuleImageSize
                 /\ test.capsule.HeaderSize + UxHeader <= test.fsize
    <2>1. PICK header \in FuzzFields, image \in FuzzFields, fsize \in FuzzFileSizes :
             test = Gop(header, image, fsize, <<>>)
      BY <1>2 DEF IInv, Runs
    <2>2. /\ test.fsize = fsize
          /\ Call(test) = Returned(IF UxInside(test.capsule, fsize) THEN "EFI_UNSUPPORTED"
                                   ELSE "EFI_INVALID_PARAMETER")
      BY <2>1, GopCall
    <2>3. result.rc = "EFI_UNSUPPORTED" <=> UxInside(test.capsule, test.fsize)
      BY <1>2, <2>2 DEF IInv, Returned
    <2>. QED BY <2>3 DEF UxInside
  <1>3. IInv => FuzzVerdicts
    BY <1>1, <1>2 DEF FuzzVerdicts
  <1>. QED BY <1>3, Invariant, PTL
==============================================================================
