------------------------------- MODULE Recursion -------------------------------
(***************************************************************************)
(* Induction over the numbers up to a bound, and what follows by it of the *)
(* recursive functions that the other modules use.  Everything is said of  *)
(* sets and functions, so that it can be cited by name.                    *)
(***************************************************************************)
EXTENDS Integers, SequencesExt, SequenceTheorems, WellFoundedInduction, TLAPS

\* A set of numbers that is not empty has a least element.
LEMMA LeastExists ==
  ASSUME NEW T, T \subseteq Nat, T # {}
  PROVE  \E n \in T : \A m \in T : n <= m
<1> DEFINE R == {p \in Nat \X Nat : p[1] < p[2]}
<1>1. R = OpToRel(<, Nat)
  BY DEF OpToRel
<1>2. IsWellFoundedOn(R, Nat)
  BY <1>1, NatLessThanWellFounded
<1>3. \A m, n \in Nat : <<m, n>> \in R <=> m < n
  OBVIOUS
<1> HIDE DEF R
<1>4. PICK n \in T : \A m \in T : <<m, n>> \notin R
  BY <1>2, WFMin
<1>5. ASSUME NEW m \in T PROVE n <= m
  <2>1. m \in Nat /\ n \in Nat /\ <<m, n>> \notin R
    BY <1>4
  <2> QED BY <2>1, <1>3
<1> QED BY <1>5

\* Induction up to n.
LEMMA UpTo ==
  ASSUME NEW S, NEW n \in Nat, 0 \in S, \A k \in 0 .. n - 1 : k \in S => k + 1 \in S
  PROVE  0 .. n \subseteq S
<1> DEFINE T == {k \in 0 .. n : k \notin S}
<1>1. SUFFICES ASSUME T # {} PROVE FALSE
  OBVIOUS
<1>2. T \subseteq Nat
  OBVIOUS
<1>3. PICK k \in T : \A m \in T : k <= m
  <2> HIDE DEF T
  <2> QED BY <1>1, <1>2, LeastExists
<1>4. k # 0 /\ k - 1 \in 0 .. n - 1 /\ k - 1 \in S
  BY <1>3
<1> QED BY <1>3, <1>4

\* Induction from n down to m: what holds of a number if it holds of all greater ones.
LEMMA DownFrom ==
  ASSUME NEW S, NEW m \in Nat, NEW n \in Nat,
         \A k \in m .. n : (\A l \in k + 1 .. n : l \in S) => k \in S
  PROVE  m .. n \subseteq S
<1> DEFINE T == {d \in 0 .. n - m : n - d \notin S}
<1>1. SUFFICES ASSUME T # {} PROVE FALSE
  <2>1. SUFFICES ASSUME NEW k \in m .. n, k \notin S PROVE FALSE
    OBVIOUS
  <2>2. n - k \in T
    BY <2>1
  <2> QED BY <1>1, <2>2
<1>2. T \subseteq Nat
  OBVIOUS
<1>3. PICK d \in T : \A e \in T : d <= e
  <2> HIDE DEF T
  <2> QED BY <1>1, <1>2, LeastExists
<1>4. ASSUME NEW l \in (n - d) + 1 .. n PROVE l \in S
  <2>1. n - l \in 0 .. n - m /\ n - l < d /\ n - (n - l) = l
    BY <1>3
  <2> QED BY <1>3, <2>1
<1>5. n - d \in m .. n
  BY <1>3
<1> QED BY <1>3, <1>4, <1>5

\* f[i] is the value, in A, of a loop over 1 .. n after i turns.
IsLoop(f, A, n, base, step) ==
  f \in [0 .. n -> A] /\ f[0] = base /\ \A i \in 1 .. n : f[i] = step[<<f[i - 1], i>>]

\* A loop that starts with base has a value after each turn.
LEMMA LoopExists ==
  ASSUME NEW A, NEW n \in Nat, NEW base \in A, NEW step \in [A \X (1 .. n) -> A]
  PROVE  \E f : IsLoop(f, A, n, base, step)
<1> DEFINE Loop(f, m) ==
             f \in [0 .. m -> A] /\ f[0] = base /\ \A i \in 1 .. m : f[i] = step[<<f[i - 1], i>>]
           S == {m \in 0 .. n : \E f : Loop(f, m)}
<1>1. 0 \in S
  <2>1. Loop([i \in 0 .. 0 |-> base], 0)
    OBVIOUS
  <2> HIDE DEF Loop
  <2> QED BY <2>1
<1>2. ASSUME NEW m \in 0 .. n - 1, m \in S PROVE m + 1 \in S
  <2>1. PICK f : Loop(f, m)
    BY <1>2
  <2> DEFINE g == [i \in 0 .. m + 1 |-> IF i = m + 1 THEN step[<<f[m], m + 1>>] ELSE f[i]]
  <2>2. f[m] \in A /\ m + 1 \in 1 .. n /\ step[<<f[m], m + 1>>] \in A
    BY <2>1
  <2>3. g \in [0 .. m + 1 -> A] /\ g[m + 1] = step[<<f[m], m + 1>>]
    BY <2>1, <2>2
  <2>4. \A i \in 0 .. m : g[i] = f[i]
    OBVIOUS
  <2>5. \A i \in 1 .. m + 1 : g[i] = step[<<g[i - 1], i>>]
    <3> HIDE DEF g
    <3> TAKE i \in 1 .. m + 1
    <3>1. CASE i = m + 1
      <4>1. m \in 0 .. m /\ (m + 1) - 1 = m
        OBVIOUS
      <4>2. g[m] = f[m]
        BY <4>1, <2>4
      <4> QED BY <3>1, <4>1, <4>2, <2>3
    <3>2. CASE i \in 1 .. m
      BY <3>2, <2>1, <2>4
    <3> QED BY <3>1, <3>2
  <2>6. Loop(g, m + 1)
    <3>1. g[0] = base
      BY <2>1, <2>4
    <3> HIDE DEF g
    <3> QED BY <3>1, <2>3, <2>5
  <2> HIDE DEF Loop, g
  <2> QED BY <2>2, <2>6
<1>3. n \in S
  <2> HIDE DEF S
  <2> QED BY <1>1, <1>2, UpTo
<1> QED BY <1>3 DEF IsLoop

\* f[pos] is what a search finds that begins at pos, in m .. n, and goes on at
\* next[pos] until it stops with value[pos].
IsSearch(f, A, m, n, stop, value, next) ==
  /\ f \in [m .. n -> A]
  /\ \A pos \in m .. n : f[pos] = IF stop[pos] THEN value[pos] ELSE f[next[pos]]

\* A search that goes forward, and stops at n at the latest, finds something.
LEMMA SearchExists ==
  ASSUME NEW A, NEW m \in Nat, NEW n \in Nat, m <= n, NEW stop, NEW value, NEW next,
         \A pos \in m .. n : stop[pos] \in BOOLEAN,
         \A pos \in m .. n : stop[pos] => value[pos] \in A,
         \A pos \in m .. n : ~stop[pos] => next[pos] \in pos + 1 .. n
  PROVE  \E f : IsSearch(f, A, m, n, stop, value, next)
<1> DEFINE Search(f, k) == IsSearch(f, A, k, n, stop, value, next)
           N == n - m
           S == {d \in 0 .. N : \E f : Search(f, n - d)}
<1>1. N \in Nat /\ n - N = m /\ n - 0 = n
  OBVIOUS
<1>2. 0 \in S
  <2>1. n \in m .. n /\ stop[n] /\ value[n] \in A
    OBVIOUS
  <2>2. Search([pos \in n .. n |-> value[n]], n)
    BY <2>1 DEF IsSearch
  <2> HIDE DEF Search
  <2> QED BY <1>1, <2>2
<1>3. ASSUME NEW d \in 0 .. N - 1, d \in S PROVE d + 1 \in S
  <2> DEFINE k == n - d
             l == n - (d + 1)
  <2>1. l \in m .. n /\ k = l + 1 /\ d + 1 \in 0 .. N
    BY <1>1
  <2>2. PICK f : Search(f, k)
    BY <1>3
  <2> DEFINE g == [pos \in l .. n |->
                     IF pos = l THEN IF stop[l] THEN value[l] ELSE f[next[l]] ELSE f[pos]]
  <2> HIDE DEF k, l, N, S
  <2>3. f \in [k .. n -> A] /\ \A pos \in k .. n : f[pos] = IF stop[pos] THEN value[pos] ELSE f[next[pos]]
    BY <2>2 DEF IsSearch
  <2>4. ~stop[l] => next[l] \in k .. n
    BY <2>1
  <2>5. g \in [l .. n -> A]
    BY <2>1, <2>3, <2>4
  <2>6. g[l] = (IF stop[l] THEN value[l] ELSE f[next[l]]) /\ \A pos \in k .. n : g[pos] = f[pos]
    BY <2>1
  <2> HIDE DEF g
  <2>7. ASSUME NEW pos \in l .. n PROVE g[pos] = IF stop[pos] THEN value[pos] ELSE g[next[pos]]
    <3>1. CASE pos = l
      BY <3>1, <2>4, <2>6
    <3>2. CASE pos # l
      <4>1. pos \in k .. n /\ pos \in m .. n
        BY <3>2, <2>1
      <4>2. ~stop[pos] => next[pos] \in k .. n
        BY <4>1, <2>1
      <4> QED BY <4>1, <4>2, <2>3, <2>6
    <3> QED BY <3>1, <3>2
  <2>8. Search(g, l)
    BY <2>5, <2>7 DEF IsSearch
  <2> HIDE DEF Search
  <2> QED BY <2>1, <2>8 DEF S, l
<1>4. N \in S
  <2> HIDE DEF S, N
  <2> QED BY <1>1, <1>2, <1>3, UpTo
<1> QED BY <1>1, <1>4

---------------------------------------------------------------------------
(* FlattenSeq                                                              *)

\* f[i] is the concatenation of the first i of the sequences c.
Unfolds(f, c, n) == f[1] = c[1] /\ \A i \in 2 .. n : f[i] = f[i - 1] \o c[i]

\* The first n of d are those of c.
Agree(c, d, n) == \A i \in 1 .. n : d[i] = c[i]

UnfoldAlike(f, c, g, d, n) ==
  n \in Nat \ {0} /\ Agree(c, d, n) /\ Unfolds(f, c, n) /\ Unfolds(g, d, n)

\* FlattenSeq's inner function exists, and is the concatenation of each beginning.
LEMMA FlattenUnfolds ==
  ASSUME NEW X, NEW c \in Seq(Seq(X)), c # <<>>
  PROVE  \E f \in [1 .. Len(c) -> Seq(X)] :
           Unfolds(f, c, Len(c)) /\ FlattenSeq(c) = f[Len(c)]
<1> DEFINE N == Len(c) - 1
           A == Seq(X)
           E(f, i) == IF i = 1 THEN c[i] ELSE f[i - 1] \o c[i]
           Is(f) == f = [i \in 1 .. N + 1 |-> E(f, i)]
<1>1. N \in Nat /\ Len(c) = N + 1 /\ \A i \in 1 .. N + 1 : c[i] \in A
  OBVIOUS
<1>2. \A x, y \in A : x \o y \in A
  OBVIOUS
<1>3. FlattenSeq(c) = (CHOOSE f : Is(f))[N + 1]
  BY <1>1 DEF FlattenSeq
<1> HIDE DEF N, A
<1>4. \E f : Is(f)
  <2> DEFINE step == [p \in A \X (1 .. N) |-> p[1] \o c[p[2] + 1]]
  <2>1. step \in [A \X (1 .. N) -> A]
    BY <1>1, <1>2
  <2>2. \A x \in A, i \in 1 .. N : step[<<x, i>>] = x \o c[i + 1]
    OBVIOUS
  <2> HIDE DEF step
  <2>3. c[1] \in A
    BY <1>1
  <2>4. PICK g : IsLoop(g, A, N, c[1], step)
    BY <1>1, <2>1, <2>3, LoopExists
  <2>8. g \in [0 .. N -> A] /\ g[0] = c[1] /\ \A i \in 1 .. N : g[i] = step[<<g[i - 1], i>>]
    BY <2>4 DEF IsLoop
  <2> DEFINE f == [i \in 1 .. N + 1 |-> g[i - 1]]
  <2>5. \A i \in 1 .. N + 1 : f[i] = E(f, i)
    <3> TAKE i \in 1 .. N + 1
    <3>1. CASE i = 1
      BY <3>1, <2>8
    <3>2. CASE i # 1
      <4>1. i - 1 \in 1 .. N /\ i - 2 \in 0 .. N /\ (i - 1) - 1 = i - 2 /\ (i - 1) + 1 = i
        BY <3>2, <1>1
      <4>2. g[i - 1] = g[i - 2] \o c[i]
        BY <4>1, <2>2, <2>8
      <4>3. f[i] = g[i - 1] /\ f[i - 1] = g[i - 2]
        BY <4>1, <1>1
      <4> QED BY <3>2, <4>2, <4>3
    <3> QED BY <3>1, <3>2
  <2>6. f = [i \in 1 .. N + 1 |-> f[i]]
    OBVIOUS
  <2> HIDE DEF f, E
  <2>7. f = [i \in 1 .. N + 1 |-> E(f, i)]
    BY <2>5, <2>6
  <2> QED BY <2>7
<1> DEFINE f == CHOOSE f : Is(f)
<1>5. Is(f)
  <2> HIDE DEF Is
  <2> QED BY <1>4
<1>14. FlattenSeq(c) = f[N + 1]
  BY <1>3
<1> HIDE DEF f, E
<1>6. DOMAIN f = 1 .. N + 1 /\ \A i \in 1 .. N + 1 : f[i] = E(f, i)
  BY <1>5
<1> HIDE DEF Is
<1>7. f[1] = c[1] /\ \A i \in 2 .. N + 1 : f[i] = f[i - 1] \o c[i]
  <2>1. f[1] = E(f, 1) /\ \A i \in 2 .. N + 1 : f[i] = E(f, i) /\ i # 1
    BY <1>1, <1>6
  <2> QED BY <2>1 DEF E
<1> DEFINE T == {n \in 0 .. N : f[n + 1] \in A}
<1>8. 0 \in T
  BY <1>1, <1>7
<1>9. ASSUME NEW n \in 0 .. N - 1, n \in T PROVE n + 1 \in T
  <2>1. n + 1 \in 0 .. N /\ n + 2 \in 2 .. N + 1 /\ (n + 1) + 1 = n + 2 /\ (n + 2) - 1 = n + 1
    BY <1>1
  <2>2. f[n + 2] = f[n + 1] \o c[n + 2]
    BY <2>1, <1>7
  <2>3. f[n + 1] \in A /\ c[n + 2] \in A
    BY <2>1, <1>1, <1>9
  <2> QED BY <2>1, <2>2, <2>3, <1>2
<1>10. 0 .. N \subseteq T
  <2> HIDE DEF T
  <2> QED BY <1>1, <1>8, <1>9, UpTo
<1>11. \A i \in 1 .. N + 1 : f[i] \in A
  <2> TAKE i \in 1 .. N + 1
  <2>1. i - 1 \in 0 .. N /\ (i - 1) + 1 = i
    BY <1>1
  <2> QED BY <2>1, <1>10
<1>12. f = [i \in 1 .. N + 1 |-> f[i]]
  BY <1>5, <1>6 DEF Is
<1>13. f \in [1 .. N + 1 -> A]
  BY <1>11, <1>12
<1>15. \E h \in [1 .. N + 1 -> A] :
         h[1] = c[1] /\ (\A i \in 2 .. N + 1 : h[i] = h[i - 1] \o c[i]) /\ FlattenSeq(c) = h[N + 1]
  BY <1>7, <1>13, <1>14
<1> QED BY <1>1, <1>15 DEF A, Unfolds

\* Two such functions, of lists of which one begins with the other, agree.
LEMMA UnfoldingsAgree ==
  ASSUME NEW n, NEW c, NEW d, NEW f, NEW g, UnfoldAlike(f, c, g, d, n)
  PROVE  f[n] = g[n]
<1>0. n \in Nat \ {0} /\ Agree(c, d, n) /\ Unfolds(f, c, n) /\ Unfolds(g, d, n)
  BY DEF UnfoldAlike
<1> DEFINE N == n - 1
           T == {k \in 0 .. N : f[k + 1] = g[k + 1]}
<1>1. N \in Nat /\ n = N + 1
  BY <1>0
<1>2. 0 \in T
  BY <1>1, <1>0 DEF Unfolds, Agree
<1>3. ASSUME NEW k \in 0 .. N - 1, k \in T PROVE k + 1 \in T
  <2>1. k + 2 \in 2 .. n /\ (k + 2) - 1 = k + 1 /\ (k + 1) + 1 = k + 2 /\ k + 1 \in 0 .. N
    BY <1>1
  <2> DEFINE i == k + 2
  <2>3. i \in 2 .. n /\ i \in 1 .. n /\ i - 1 = k + 1
    BY <2>1
  <2> HIDE DEF i
  <2>4. f[i] = f[i - 1] \o c[i]
    BY <2>3, <1>0 DEF Unfolds
  <2>5. g[i] = g[i - 1] \o d[i]
    BY <2>3, <1>0 DEF Unfolds
  <2>6. d[i] = c[i]
    BY <2>3, <1>0 DEF Agree
  <2>2. f[k + 2] = f[k + 1] \o c[k + 2] /\ g[k + 2] = g[k + 1] \o d[k + 2]
        /\ d[k + 2] = c[k + 2]
    BY <2>3, <2>4, <2>5, <2>6 DEF i
  <2> QED BY <2>1, <2>2, <1>3
<1>4. N \in 0 .. N /\ 0 .. N \subseteq T
  <2> HIDE DEF T, N
  <2> QED BY <1>1, <1>2, <1>3, UpTo
<1> QED BY <1>1, <1>4

\* What FlattenSeq returns, and that of one sequence more.
LEMMA FlattenAppend ==
  ASSUME NEW X, NEW c \in Seq(Seq(X)), NEW s \in Seq(X)
  PROVE  /\ FlattenSeq(c) \in Seq(X)
         /\ FlattenSeq(Append(c, s)) = FlattenSeq(c) \o s
<1> DEFINE d == Append(c, s)
           n == Len(c)
<1>1. /\ d \in Seq(Seq(X)) /\ d # <<>> /\ Len(d) = n + 1 /\ n \in Nat
      /\ d[n + 1] = s /\ \A i \in 1 .. n : d[i] = c[i]
  BY AppendProperties, LenProperties
<1>2. FlattenSeq(<<>>) = <<>> /\ <<>> \in Seq(X) /\ <<>> \o s = s
  BY ConcatEmptySeq DEF FlattenSeq
<1> HIDE DEF d
<1>3. PICK g : /\ g \in [1 .. Len(d) -> Seq(X)]
               /\ Unfolds(g, d, Len(d)) /\ FlattenSeq(d) = g[Len(d)]
  BY <1>1, FlattenUnfolds
<1>4. CASE c = <<>>
  <2>1. n = 0
    BY <1>4
  <2>2. FlattenSeq(d) = s
    <3> HIDE DEF n
    <3> QED BY <2>1, <1>1, <1>3 DEF Unfolds
  <2> QED BY <2>2, <1>2, <1>4 DEF d
<1>5. CASE c # <<>>
  <2>1. PICK f : /\ f \in [1 .. n -> Seq(X)]
                 /\ Unfolds(f, c, n) /\ FlattenSeq(c) = f[n]
    BY <1>5, FlattenUnfolds
  <2>2. n \in Nat \ {0}
    BY <1>1, <1>5, EmptySeq
  <2> HIDE DEF n
  <2>3. Unfolds(g, d, n)
    <3>1. \A i \in 2 .. n : i \in 2 .. n + 1
      BY <2>2
    <3> QED BY <1>1, <1>3, <3>1 DEF Unfolds
  <2>4. f[n] = g[n]
    <3>1. Agree(c, d, n)
      BY <1>1 DEF Agree
    <3>2. UnfoldAlike(f, c, g, d, n)
      BY <2>1, <2>2, <2>3, <3>1 DEF UnfoldAlike
    <3> QED BY <3>2, UnfoldingsAgree
  <2>5. n + 1 \in 2 .. n + 1 /\ (n + 1) - 1 = n /\ n \in 1 .. n
    BY <2>2
  <2>6. FlattenSeq(d) = g[n] \o s
    BY <1>1, <1>3, <2>5 DEF Unfolds
  <2>7. FlattenSeq(c) \in Seq(X)
    BY <2>1, <2>5
  <2> QED BY <2>1, <2>4, <2>6, <2>7 DEF d
<1> QED BY <1>4, <1>5

Begins(s, t) == Len(s) <= Len(t) /\ \A j \in 1 .. Len(s) : t[j] = s[j]

LEMMA ConcatLen ==
  ASSUME NEW X, NEW s \in Seq(X), NEW t \in Seq(X)
  PROVE  s \o t \in Seq(X) /\ Len(s) \in Nat /\ Len(t) \in Nat /\ Len(s \o t) = Len(s) + Len(t)
BY ConcatProperties, LenProperties

\* The elements of a concatenation.
LEMMA ConcatAt ==
  ASSUME NEW X, NEW s \in Seq(X), NEW t \in Seq(X)
  PROVE  /\ s \o t \in Seq(X)
         /\ Len(s) \in Nat /\ Len(t) \in Nat /\ Len(s \o t) = Len(s) + Len(t)
         /\ \A i \in 1 .. Len(s) : (s \o t)[i] = s[i]
         /\ \A i \in 1 .. Len(t) : (s \o t)[Len(s) + i] = t[i]
<1> DEFINE r == s \o t
<1>1. Len(s) \in Nat /\ Len(t) \in Nat
  BY LenProperties
<1>2. r \in Seq(X) /\ Len(r) = Len(s) + Len(t)
      /\ \A i \in 1 .. Len(s) + Len(t) : r[i] = IF i <= Len(s) THEN s[i] ELSE t[i - Len(s)]
  BY ConcatProperties
<1> HIDE DEF r
<1>3. \A i \in 1 .. Len(s) : r[i] = s[i]
  BY <1>1, <1>2
<1>4. ASSUME NEW i \in 1 .. Len(t) PROVE r[Len(s) + i] = t[i]
  <2>1. Len(s) + i \in 1 .. Len(s) + Len(t) /\ ~(Len(s) + i <= Len(s)) /\ (Len(s) + i) - Len(s) = i
    BY <1>1
  <2> QED BY <1>2, <2>1
<1> QED BY <1>1, <1>2, <1>3, <1>4 DEF r

\* Of functions that add one sequence after the other, each value begins the last.
LEMMA UnfoldingsBegin ==
  ASSUME NEW X, NEW n \in Nat \ {0}, NEW c \in [1 .. n -> Seq(X)], NEW f \in [1 .. n -> Seq(X)],
         Unfolds(f, c, n), NEW k \in 1 .. n
  PROVE  Begins(f[k], f[n])
<1> DEFINE B(m) == Begins(f[m], f[n])
           S == {m \in 1 .. n : B(m)}
<1>1. \A m \in 1 .. n : Len(f[m]) \in Nat /\ f[m] \in Seq(X) /\ c[m] \in Seq(X) /\ Len(c[m]) \in Nat
  BY LenProperties
<1>2. n \in 1 .. n
  OBVIOUS
<1>3. ASSUME NEW m \in 1 .. n, \A l \in m + 1 .. n : l \in S PROVE m \in S
  <2>1. CASE m = n
    BY <2>1, <1>1, <1>2 DEF Begins
  <2>2. CASE m # n
    <3>1. m + 1 \in m + 1 .. n /\ m + 1 \in 2 .. n /\ (m + 1) - 1 = m /\ m + 1 \in 1 .. n
      BY <2>2
    <3>2. B(m + 1)
      BY <3>1, <1>3
    <3>3. f[m + 1] = f[m] \o c[m + 1]
      BY <3>1 DEF Unfolds
    <3>4. Len(f[m + 1]) = Len(f[m]) + Len(c[m + 1])
          /\ \A j \in 1 .. Len(f[m]) : f[m + 1][j] = f[m][j]
      BY <3>1, <3>3, <1>1, ConcatProperties
    <3>5. Len(f[m]) \in Nat /\ Len(f[m + 1]) \in Nat /\ Len(c[m + 1]) \in Nat /\ Len(f[n]) \in Nat
      BY <3>1, <1>1, <1>2
    <3>6. \A j \in 1 .. Len(f[m]) : j \in 1 .. Len(f[m + 1])
      BY <3>4, <3>5
    <3>7. B(m)
      BY <3>2, <3>4, <3>5, <3>6 DEF Begins
    <3> QED BY <3>7
  <2> QED BY <2>1, <2>2
<1>4. 1 .. n \subseteq S
  <2> HIDE DEF S
  <2> QED BY <1>3, DownFrom
<1> QED BY <1>4

\* p[k] is how many elements of s come before those of c[k].
ArePositions(p, c, s) ==
  /\ p \in [1 .. Len(c) + 1 -> Nat]
  /\ p[1] = 0 /\ p[Len(c) + 1] = Len(s)
  /\ \A k \in 1 .. Len(c) :
       /\ p[k + 1] = p[k] + Len(c[k])
       /\ p[k + 1] <= Len(s)
       /\ \A j \in 1 .. Len(c[k]) : s[p[k] + j] = c[k][j]

\* Where each of the sequences is in what FlattenSeq makes of them.
LEMMA FlattenPositions ==
  ASSUME NEW X, NEW c \in Seq(Seq(X))
  PROVE  FlattenSeq(c) \in Seq(X) /\ \E p : ArePositions(p, c, FlattenSeq(c))
<1> DEFINE n == Len(c)
<1>1. n \in Nat /\ c \in [1 .. n -> Seq(X)]
  BY LenProperties
<1>2. CASE c = <<>>
  <2>1. FlattenSeq(c) = <<>> /\ n = 0 /\ <<>> \in Seq(X) /\ Len(<<>>) = 0
    BY <1>2, EmptySeq DEF FlattenSeq
  <2>2. ArePositions([k \in 1 .. 1 |-> 0], c, <<>>)
    BY <2>1 DEF ArePositions
  <2> QED BY <2>1, <2>2
<1>3. CASE c # <<>>
  <2>1. PICK f \in [1 .. n -> Seq(X)] :
          Unfolds(f, c, n) /\ FlattenSeq(c) = f[n]
    BY <1>3, FlattenUnfolds
  <2>2. n \in Nat \ {0} /\ n \in 1 .. n
    BY <1>1, <1>3, EmptySeq
  <2> DEFINE s == f[n]
             p == [k \in 1 .. n + 1 |-> IF k = 1 THEN 0 ELSE Len(f[k - 1])]
  <2> HIDE DEF n
  <2>3. \A m \in 1 .. n : Len(f[m]) \in Nat /\ f[m] \in Seq(X) /\ c[m] \in Seq(X) /\ Len(c[m]) \in Nat
    BY <1>1, LenProperties
  <2>4. p \in [1 .. n + 1 -> Nat]
    <3>1. \A k \in 1 .. n + 1 : k = 1 \/ k - 1 \in 1 .. n
      BY <2>2
    <3> QED BY <2>3, <3>1
  <2>5. p[1] = 0 /\ p[n + 1] = Len(s)
    BY <2>2
  <2>6. ASSUME NEW k \in 1 .. n
        PROVE  /\ p[k + 1] = p[k] + Len(c[k])
               /\ p[k + 1] <= Len(s)
               /\ \A j \in 1 .. Len(c[k]) : s[p[k] + j] = c[k][j]
    <3>1. k + 1 \in 1 .. n + 1 /\ k + 1 # 1 /\ (k + 1) - 1 = k /\ p[k + 1] = Len(f[k])
      BY <2>2
    <3>6. Begins(f[k], f[n])
      <4>1. c \in [1 .. n -> Seq(X)] /\ f \in [1 .. n -> Seq(X)] /\ Unfolds(f, c, n)
        BY <1>1, <2>1
      <4> QED BY <2>2, <4>1, UnfoldingsBegin
    <3>2. Len(f[k]) <= Len(s) /\ \A j \in 1 .. Len(f[k]) : s[j] = f[k][j]
      BY <3>6 DEF Begins
    <3>3. CASE k = 1
      <4>1. f[k] = c[k] /\ p[k] = 0
        BY <3>3, <2>1, <2>2 DEF Unfolds
      <4> HIDE DEF p, s
      <4> QED BY <3>1, <3>2, <4>1, <2>3
    <3>4. CASE k # 1
      <4>1. k \in 2 .. n /\ k - 1 \in 1 .. n /\ p[k] = Len(f[k - 1])
        BY <3>4, <2>2
      <4>2. f[k] = f[k - 1] \o c[k]
        BY <4>1, <2>1 DEF Unfolds
      <4>6. f[k - 1] \in Seq(X) /\ c[k] \in Seq(X)
        BY <4>1, <2>3
      <4> DEFINE u == f[k - 1]
                 v == c[k]
      <4>3. u \in Seq(X) /\ v \in Seq(X) /\ f[k] = u \o v /\ p[k] = Len(u) /\ c[k] = v
        BY <4>1, <4>2, <4>6
      <4> HIDE DEF p, s, u, v
      <4>4. /\ Len(u) \in Nat /\ Len(v) \in Nat /\ Len(f[k]) = Len(u) + Len(v)
            /\ \A i \in 1 .. Len(v) : f[k][Len(u) + i] = v[i]
        BY <4>3, ConcatAt
      <4>5. ASSUME NEW j \in 1 .. Len(v) PROVE s[Len(u) + j] = v[j]
        <5>1. Len(u) + j \in 1 .. Len(f[k])
          BY <4>4
        <5> QED BY <5>1, <4>4, <3>2
      <4> QED BY <3>1, <3>2, <4>3, <4>4, <4>5
    <3> QED BY <3>3, <3>4
  <2>7. ArePositions(p, c, s)
    <3> HIDE DEF p, s
    <3> QED BY <2>4, <2>5, <2>6 DEF ArePositions, n
  <2>8. FlattenSeq(c) = s /\ s \in Seq(X)
    BY <2>1, <2>2, <2>3
  <2> QED BY <2>7, <2>8
<1> QED BY <1>2, <1>3

\* The concatenation of sequences, of which the last one grows by one element.
LEMMA FlattenGrow ==
  ASSUME NEW X, NEW c \in Seq(Seq(X)), c # <<>>, NEW x \in X
  PROVE  LET d == [c EXCEPT ![Len(c)] = Append(@, x)]
         IN  d \in Seq(Seq(X)) /\ FlattenSeq(d) = Append(FlattenSeq(c), x)
<1> DEFINE d == [c EXCEPT ![Len(c)] = Append(@, x)]
<1>1. PICK front \in Seq(Seq(X)), last \in Seq(X) : c = Append(front, last)
  BY SequenceEmptyOrAppend
<1> DEFINE n == Len(front)
           e == Append(front, Append(last, x))
<1>2. Append(last, x) \in Seq(X) /\ Append(last, x) = last \o <<x>> /\ <<x>> \in Seq(X)
  BY AppendProperties, AppendIsConcat
<1>3. /\ n \in Nat /\ Len(c) = n + 1 /\ c[n + 1] = last /\ \A i \in 1 .. n : c[i] = front[i]
  BY <1>1, AppendProperties, LenProperties
<1>4. /\ e \in Seq(Seq(X)) /\ Len(e) = n + 1 /\ e[n + 1] = Append(last, x)
      /\ \A i \in 1 .. n : e[i] = front[i]
  BY <1>2, AppendProperties
<1>5. n + 1 \in 1 .. Len(c)
  BY <1>3
<1>6. /\ d \in Seq(Seq(X)) /\ Len(d) = n + 1
      /\ \A i \in 1 .. n + 1 : d[i] = IF i = n + 1 THEN Append(last, x) ELSE c[i]
  <2>1. d = [c EXCEPT ![n + 1] = Append(last, x)]
    BY <1>3
  <2> HIDE DEF d, n
  <2> QED BY <1>2, <1>3, <1>5, <2>1, ExceptSeq
<1> HIDE DEF d, e, n
<1>7. d = e
  <2>1. ASSUME NEW i \in 1 .. n + 1 PROVE d[i] = e[i]
    <3>1. CASE i = n + 1
      BY <3>1, <1>4, <1>6
    <3>2. CASE i # n + 1
      <4>1. i \in 1 .. n
        BY <3>2, <1>3
      <4> QED BY <4>1, <3>2, <1>3, <1>4, <1>6
    <3> QED BY <3>1, <3>2
  <2> QED BY <1>4, <1>6, <2>1, SeqEqual
<1>8. FlattenSeq(front) \in Seq(X) /\ FlattenSeq(c) = FlattenSeq(front) \o last
  BY <1>1, FlattenAppend
<1>9. FlattenSeq(e) = FlattenSeq(front) \o (last \o <<x>>)
  BY <1>2, FlattenAppend DEF e
<1> DEFINE u == FlattenSeq(front)
<1>10. u \in Seq(X) /\ FlattenSeq(c) = u \o last /\ FlattenSeq(e) = u \o (last \o <<x>>)
  BY <1>8, <1>9
<1> HIDE DEF u
<1>11. u \o last \in Seq(X)
  BY <1>10, ConcatProperties
<1>12. Append(u \o last, x) = (u \o last) \o <<x>>
  BY <1>11, AppendIsConcat
<1>13. (u \o last) \o <<x>> = u \o (last \o <<x>>)
  <2> DEFINE v == <<x>>
             a == u \o last
             b == last \o v
             s == a \o v
             t == u \o b
  <2>1. u \in Seq(X) /\ v \in Seq(X) /\ last \in Seq(X)
    BY <1>2, <1>10
  <2> HIDE DEF v
  <2>2. a \in Seq(X) /\ b \in Seq(X)
    BY <2>1, ConcatProperties
  <2>3. s \in Seq(X) /\ t \in Seq(X) /\ Len(s) = Len(t) /\ \A i \in 1 .. Len(s) : s[i] = t[i]
    BY <2>1
  <2> HIDE DEF s, t
  <2>4. s = t
    BY <2>3, SeqEqual
  <2> QED BY <2>4 DEF s, t, a, b, v
<1> QED BY <1>6, <1>7, <1>10, <1>12, <1>13 DEF d

\* Induction over sequences, by one element more.
LEMMA SeqGrows ==
  ASSUME NEW X, NEW S, <<>> \in S, \A s \in Seq(X), c \in X : s \in S => Append(s, c) \in S
  PROVE  Seq(X) \subseteq S
<1> SUFFICES ASSUME NEW t \in Seq(X) PROVE t \in S
  OBVIOUS
<1> DEFINE N == Len(t)
           T == {n \in 0 .. N : SubSeq(t, 1, n) \in S}
<1>1. N \in Nat /\ SubSeq(t, 1, N) = t
  BY LenProperties, SubSeqFull
<1>2. SubSeq(t, 1, 0) = <<>>
  BY SubSeqEmpty
<1>3. ASSUME NEW n \in 0 .. N - 1, n \in T PROVE n + 1 \in T
  <2>1. n + 1 \in 1 .. N /\ 1 \in 1 .. N /\ n + 1 \in 0 .. N /\ (n + 1) - 1 = n /\ n \in Int
        /\ n + 1 \in 1 .. Len(t)
    BY <1>1
  <2>2. t[n + 1] \in X /\ \A i \in 1 .. n : t[i] \in X
    BY <2>1, ElementOfSeq
  <2>3. SubSeq(t, 1, n) \in Seq(X)
    BY <2>1, <2>2, SubSeqProperties
  <2>4. SubSeq(t, 1, n + 1) = SubSeq(t, 1, n) \o <<t[n + 1]>>
    BY <2>1, SubSeqRecursiveSecond
  <2>5. SubSeq(t, 1, n) \o <<t[n + 1]>> = Append(SubSeq(t, 1, n), t[n + 1])
    BY <2>2, <2>3, AppendIsConcat
  <2>6. SubSeq(t, 1, n) \in S
    BY <1>3
  <2> HIDE DEF N
  <2>7. SubSeq(t, 1, n + 1) \in S
    BY <2>2, <2>3, <2>4, <2>5, <2>6
  <2> QED BY <2>1, <2>7
<1>4. 0 \in T /\ N \in 0 .. N
  <2>1. 0 \in 0 .. N /\ N \in 0 .. N
    BY <1>1
  <2>2. SubSeq(t, 1, 0) \in S
    BY <1>2
  <2> HIDE DEF N
  <2> QED BY <2>1, <2>2
<1>5. 0 .. N \subseteq T
  <2> HIDE DEF T, N
  <2> QED BY <1>1, <1>3, <1>4, UpTo
<1> QED BY <1>1, <1>4, <1>5

\* The first n elements.
LEMMA FirstOf ==
  ASSUME NEW X, NEW s, s \in Seq(X), NEW n, n \in 0 .. Len(s)
  PROVE  /\ SubSeq(s, 1, n) \in Seq(X) /\ Len(SubSeq(s, 1, n)) = n
         /\ \A i \in 1 .. n : SubSeq(s, 1, n)[i] = s[i]
<1> DEFINE N == Len(s)
<1>1. \A i \in 1 .. N : s[i] \in X
  BY ElementOfSeq
<1>2. N \in Nat
  BY LenProperties
<1> HIDE DEF N
<1>3. n \in 0 .. N
  BY DEF N
<1>4. \A i \in 1 .. n : s[i] \in X
  BY <1>1, <1>2, <1>3
<1>5. n \in Int /\ (IF 1 <= n THEN n - 1 + 1 ELSE 0) = n
  BY <1>2, <1>3
<1>6. /\ SubSeq(s, 1, n) \in Seq(X) /\ Len(SubSeq(s, 1, n)) = (IF 1 <= n THEN n - 1 + 1 ELSE 0)
      /\ \A i \in 1 .. n - 1 + 1 : SubSeq(s, 1, n)[i] = s[1 + i - 1]
  BY <1>4, <1>5, SubSeqProperties
<1>7. \A i \in 1 .. n : i \in 1 .. n - 1 + 1 /\ 1 + i - 1 = i
  BY <1>5
<1> QED BY <1>5, <1>6, <1>7
================================================================================
