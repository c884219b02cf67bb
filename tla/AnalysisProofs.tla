------------------------------ MODULE AnalysisProofs ------------------------------
(***************************************************************************)
(* Proofs about what the analysis makes of every list of entries, and so   *)
(* of every capture that is recorded: clusters, redirect chains, polling   *)
(* groups, flows and the document.                                         *)
(***************************************************************************)
EXTENDS InputsProofs, FiniteSetTheorems

---------------------------------------------------------------------------
(* Clusters                                                                *)

\* Entries with times, in the order they were recorded.
Timed(es, n) == n \in Nat /\ DOMAIN es = 1 .. n /\ \A i \in 1 .. n : es[i].at \in Int

LEMMA BeforeIsOrder ==
  ASSUME NEW es, NEW n, Timed(es, n)
  PROVE  /\ \A i \in 1 .. n : ~Before(es, i, i)
         /\ \A i, j \in 1 .. n : i # j => Before(es, i, j) \/ Before(es, j, i)
         /\ \A i, j, k \in 1 .. n : Before(es, i, j) /\ Before(es, j, k) => Before(es, i, k)
<1> DEFINE at == [i \in 1 .. n |-> es[i].at]
<1>1. n \in Nat /\ \A i \in 1 .. n : at[i] \in Int
  BY DEF Timed
<1>2. \A i, j \in 1 .. n : Before(es, i, j) <=> at[i] < at[j] \/ (at[i] = at[j] /\ i < j)
  BY DEF Before
<1> HIDE DEF at
<1>3. \A i \in 1 .. n : ~Before(es, i, i)
  BY <1>1, <1>2
<1>4. \A i, j \in 1 .. n : i # j => Before(es, i, j) \/ Before(es, j, i)
  BY <1>1, <1>2
<1>5. ASSUME NEW i \in 1 .. n, NEW j \in 1 .. n, NEW k \in 1 .. n, Before(es, i, j), Before(es, j, k)
      PROVE  Before(es, i, k)
  <2>1. at[i] \in Int /\ at[j] \in Int /\ at[k] \in Int
    BY <1>1
  <2>2. at[i] < at[j] \/ (at[i] = at[j] /\ i < j)
    BY <1>2, <1>5
  <2>3. at[j] < at[k] \/ (at[j] = at[k] /\ j < k)
    BY <1>2, <1>5
  <2>4. at[i] < at[k] \/ (at[i] = at[k] /\ i < k)
    BY <1>1, <2>1, <2>2, <2>3
  <2> QED BY <1>2, <2>4
<1> QED BY <1>3, <1>4, <1>5

\* sorted() of entries, by time and of equal times as they were recorded: a permutation.
THEOREM ByTimeSorts ==
  ASSUME NEW es, NEW n, Timed(es, n)
  PROVE  /\ ByTime(es) \in [1 .. n -> 1 .. n]
         /\ \A i \in 1 .. n : \E k \in 1 .. n : ByTime(es)[k] = i
         /\ \A k, l \in 1 .. n : k < l => Before(es, ByTime(es)[k], ByTime(es)[l])
<1> DEFINE D == 1 .. n
           Earlier(i) == {j \in D : Before(es, j, i)}
           rank == [i \in D |-> Cardinality(Earlier(i))]
<1>1. n \in Nat /\ DOMAIN es = D /\ IsFiniteSet(D) /\ Cardinality(D) = n
  BY FS_Interval DEF Timed
<1>2. /\ \A i \in D : ~Before(es, i, i)
      /\ \A i, j \in D : i # j => Before(es, i, j) \/ Before(es, j, i)
      /\ \A i, j, k \in D : Before(es, i, j) /\ Before(es, j, k) => Before(es, i, k)
  BY BeforeIsOrder
<1>3. ASSUME NEW i \in D
      PROVE  IsFiniteSet(Earlier(i)) /\ Cardinality(Earlier(i)) \in 0 .. n - 1
  <2>1. Earlier(i) \in SUBSET (D \ {i})
    BY <1>2
  <2>2. IsFiniteSet(D \ {i}) /\ Cardinality(D \ {i}) = n - 1
    <3> HIDE DEF D
    <3> QED BY <1>1, FS_RemoveElement
  <2> HIDE DEF D, Earlier
  <2>3. IsFiniteSet(Earlier(i)) /\ Cardinality(Earlier(i)) <= n - 1
    BY <2>1, <2>2, FS_Subset
  <2>4. Cardinality(Earlier(i)) \in Nat
    BY <2>3, FS_CardinalityType
  <2> QED BY <1>1, <2>3, <2>4
<1>4. ASSUME NEW i \in D, NEW j \in D, Before(es, i, j)
      PROVE  Cardinality(Earlier(i)) < Cardinality(Earlier(j))
  <2>1. Earlier(i) \in SUBSET Earlier(j) /\ i \in Earlier(j) /\ i \notin Earlier(i)
    BY <1>2, <1>4
  <2>2. Cardinality(Earlier(i)) \in Nat /\ Cardinality(Earlier(j)) \in Nat /\ IsFiniteSet(Earlier(j))
    BY <1>3
  <2> HIDE DEF Earlier
  <2>3. Cardinality(Earlier(i)) <= Cardinality(Earlier(j)) /\ Cardinality(Earlier(i)) # Cardinality(Earlier(j))
    BY <2>1, <2>2, FS_Subset
  <2> QED BY <2>2, <2>3
<1> HIDE DEF Earlier
<1>5. rank \in [D -> 0 .. n - 1] /\ \A i, j \in D : Before(es, i, j) => rank[i] < rank[j]
  BY <1>3, <1>4
<1> HIDE DEF rank
<1>6. rank \in Injection(D, 0 .. n - 1)
  <2>1. ASSUME NEW i \in D, NEW j \in D, rank[i] = rank[j] PROVE i = j
    <3>1. rank[i] \in Int /\ rank[j] \in Int
      BY <1>1, <1>5
    <3>2. ~(rank[i] < rank[j]) /\ ~(rank[j] < rank[i])
      BY <2>1, <3>1
    <3> QED BY <1>2, <1>5, <3>2
  <2> QED BY <1>5, <2>1 DEF Injection, IsInjective
<1>7. rank \in Surjection(D, 0 .. n - 1)
  <2>1. IsFiniteSet(0 .. n - 1) /\ Cardinality(0 .. n - 1) = n
    <3>1. 0 \in Int /\ n - 1 \in Int /\ (IF 0 > n - 1 THEN 0 ELSE n - 1 - 0 + 1) = n
      BY <1>1
    <3> QED BY <3>1, FS_Interval
  <2> HIDE DEF D
  <2> QED BY <1>1, <1>6, <2>1, FS_Injection
<1>8. \A m \in 0 .. n - 1 : \E i \in D : rank[i] = m
  BY <1>7 DEF Surjection
<1> DEFINE order == ByTime(es)
<1>9. \A i \in D : Cardinality({j \in DOMAIN es : Before(es, j, i)}) = rank[i]
  BY <1>1 DEF rank, Earlier
<1>10. order = [k \in D |-> CHOOSE i \in D : Cardinality({j \in DOMAIN es : Before(es, j, i)}) = k - 1]
  BY <1>1 DEF ByTime
<1>11. ASSUME NEW k \in D PROVE order[k] \in D /\ rank[order[k]] = k - 1
  <2>1. k - 1 \in 0 .. n - 1
    BY <1>1
  <2>2. \E i \in D : rank[i] = k - 1
    BY <1>8, <2>1
  <2>3. \E i \in D : Cardinality({j \in DOMAIN es : Before(es, j, i)}) = k - 1
    BY <1>9, <2>2
  <2> DEFINE i == CHOOSE i \in D : Cardinality({j \in DOMAIN es : Before(es, j, i)}) = k - 1
  <2>4. i \in D /\ Cardinality({j \in DOMAIN es : Before(es, j, i)}) = k - 1
    BY <2>3
  <2>5. order[k] = i
    BY <1>10
  <2> HIDE DEF i
  <2> QED BY <1>9, <2>4, <2>5
<1>12. order \in [D -> D]
  BY <1>10, <1>11
<1> HIDE DEF order
<1>13. ASSUME NEW i \in D PROVE \E k \in D : order[k] = i
  <2>1. rank[i] \in 0 .. n - 1
    BY <1>5
  <2>2. rank[i] + 1 \in D /\ (rank[i] + 1) - 1 = rank[i]
    BY <1>1, <2>1
  <2>3. order[rank[i] + 1] \in D /\ rank[order[rank[i] + 1]] = rank[i]
    BY <1>11, <2>2
  <2>4. order[rank[i] + 1] = i
    BY <1>6, <2>3 DEF Injection, IsInjective
  <2> QED BY <2>2, <2>4
<1>14. ASSUME NEW k \in D, NEW l \in D, k < l PROVE Before(es, order[k], order[l])
  <2>1. order[k] \in D /\ order[l] \in D /\ rank[order[k]] = k - 1 /\ rank[order[l]] = l - 1
    BY <1>11
  <2>2. k - 1 \in Int /\ l - 1 \in Int /\ ~(l - 1 < k - 1) /\ k - 1 # l - 1
    BY <1>1, <1>14
  <2>3. order[k] # order[l]
    BY <2>1, <2>2
  <2>4. ~Before(es, order[l], order[k])
    BY <1>5, <2>1, <2>2
  <2> QED BY <1>2, <2>1, <2>3, <2>4
<1> QED BY <1>12, <1>13, <1>14 DEF order

\* Where ClustersAreActivities says that one cluster ends and the next one begins.
Parted(es, i, j, anchor) ==
  \/ Category(es[j]) = "navigation"
  \/ es[j].at > es[i].at + Window
  \/ Referer(es[j]) # IF Category(es[anchor]) = "navigation" THEN <<es[anchor].url>>
                      ELSE Referer(es[anchor])

LEMMA JoinsUnlessParted ==
  ASSUME NEW es, NEW n, Timed(es, n), NEW c \in Seq(1 .. n), c # <<>>, NEW i \in 1 .. n
  PROVE  Joins(es, c, i) <=> ~Parted(es, c[Len(c)], i, c[1])
<1>1. Len(c) \in 1 .. Len(c) /\ 1 \in 1 .. Len(c)
  BY EmptySeq
<1>2. c[Len(c)] \in 1 .. n /\ c[1] \in 1 .. n
  BY <1>1, ElementOfSeq
<1> DEFINE a == es[c[Len(c)]].at
           b == es[i].at
<1>3. a \in Int /\ b \in Int /\ Window \in Int
  BY <1>2, WindowAssumption DEF Timed
<1> HIDE DEF a, b
<1>4. b - a <= Window <=> ~(b > a + Window)
  BY <1>3
<1>5. ClusterReferer(es[c[1]]) =
        IF Category(es[c[1]]) = "navigation" THEN <<es[c[1]].url>> ELSE Referer(es[c[1]])
  BY DEF ClusterReferer
<1> DEFINE pause == es[i].at - es[c[Len(c)]].at <= Window
           long == es[i].at > es[c[Len(c)]].at + Window
<1>6. pause <=> ~long
  BY <1>4 DEF a, b
<1>7. Joins(es, c, i) <=>
        Category(es[i]) # "navigation" /\ pause /\ Referer(es[i]) = ClusterReferer(es[c[1]])
  BY DEF Joins, Is, Last
<1>8. Parted(es, c[Len(c)], i, c[1]) <=>
        Category(es[i]) = "navigation" \/ long \/ Referer(es[i]) # ClusterReferer(es[c[1]])
  BY <1>5 DEF Parted
<1> HIDE DEF pause, long
<1> QED BY <1>6, <1>7, <1>8

\* Clusters are cut where an activity ends, and nowhere else.
AreActivities(es, clusters) ==
  /\ \A k \in 1 .. Len(clusters) : clusters[k] # <<>>
  /\ \A k \in 1 .. Len(clusters) : \A m \in 2 .. Len(clusters[k]) :
       ~Parted(es, clusters[k][m - 1], clusters[k][m], clusters[k][1])
  /\ \A k \in 2 .. Len(clusters) :
       Parted(es, clusters[k - 1][Len(clusters[k - 1])], clusters[k][1], clusters[k - 1][1])

\* One entry more is appended to what there is, and parted from it rightly.
LEMMA JoinOrBeginKeeps ==
  ASSUME NEW es, NEW n, Timed(es, n), NEW cl \in Seq(Seq(1 .. n)), AreActivities(es, cl),
         NEW i \in 1 .. n
  PROVE  LET d == JoinOrBegin(es, cl, i)
         IN  /\ d \in Seq(Seq(1 .. n))
             /\ AreActivities(es, d)
             /\ FlattenSeq(d) = Append(FlattenSeq(cl), i)
<1> DEFINE D == 1 .. n
           d == JoinOrBegin(es, cl, i)
           l == Len(cl)
           c == cl[l]
<1>1. l \in Nat /\ \A k \in 1 .. l : cl[k] \in Seq(D) /\ cl[k] # <<>>
  BY LenProperties, ElementOfSeq DEF AreActivities
<1>2. \A k \in 1 .. l : Len(cl[k]) \in Nat \ {0}
  BY <1>1, EmptySeq
<1>3. i \in D
  OBVIOUS
<1> HIDE DEF D
<1>4. CASE cl # <<>> /\ Joins(es, c, i)
  <2>1. l \in 1 .. l
    BY <1>1, <1>4, EmptySeq
  <2>2. d = [cl EXCEPT ![l] = Append(c, i)]
    BY <1>4 DEF JoinOrBegin, Last
  <2>3. d = [cl EXCEPT ![Len(cl)] = Append(@, i)]
    BY <1>4 DEF JoinOrBegin, Last
  <2>4. d \in Seq(Seq(D)) /\ FlattenSeq(d) = Append(FlattenSeq(cl), i)
    <3>1. cl \in Seq(Seq(D)) /\ cl # <<>>
      BY <1>4 DEF D
    <3> HIDE DEF d, l
    <3> QED BY <1>3, <2>3, <3>1, FlattenGrow
  <2>5. c \in Seq(D) /\ c # <<>> /\ Len(c) \in Nat \ {0}
    BY <1>1, <1>2, <2>1
  <2>6. ~Parted(es, c[Len(c)], i, c[1])
    BY <1>4, <2>5, JoinsUnlessParted DEF D
  <2> DEFINE e == Append(c, i)
  <2>7. e \in Seq(D) /\ Len(e) = Len(c) + 1 /\ e[Len(c) + 1] = i /\ \A m \in 1 .. Len(c) : e[m] = c[m]
    BY <1>3, <2>5, AppendProperties
  <2>8. Len(d) = l /\ d[l] = e /\ \A k \in 1 .. l - 1 : d[k] = cl[k]
    <3>1. cl \in Seq(Seq(D)) /\ l = Len(cl) /\ d = [cl EXCEPT ![l] = e]
      BY <2>2 DEF D
    <3> HIDE DEF d, l, e
    <3>2. Len(d) = l /\ \A k \in 1 .. l : d[k] = IF k = l THEN e ELSE cl[k]
      BY <2>1, <2>7, <3>1, ExceptSeq
    <3> QED BY <1>1, <2>1, <3>2
  <2>9. l = Len(cl) /\ c = cl[l]
    OBVIOUS
  <2> HIDE DEF d, e, l, c
  <2>10. ASSUME NEW m \in 2 .. Len(e) PROVE ~Parted(es, e[m - 1], e[m], e[1])
    <3>1. e[1] = c[1] /\ Len(c) \in 1 .. Len(c)
      BY <2>5, <2>7
    <3>2. CASE m = Len(c) + 1
      <4>1. m - 1 = Len(c) /\ e[m - 1] = c[Len(c)] /\ e[m] = i
        BY <2>5, <2>7, <3>1, <3>2
      <4> QED BY <2>6, <3>1, <4>1
    <3>3. CASE m \in 2 .. Len(c)
      <4>1. m - 1 \in 1 .. Len(c) /\ m \in 1 .. Len(c)
        BY <2>5, <3>3
      <4>2. e[m - 1] = c[m - 1] /\ e[m] = c[m]
        BY <2>7, <4>1
      <4>3. ~Parted(es, c[m - 1], c[m], c[1])
        BY <2>1, <2>9, <3>3 DEF AreActivities
      <4> QED BY <3>1, <4>2, <4>3
    <3> QED BY <2>5, <2>7, <3>2, <3>3
  <2>11. ASSUME NEW k \in 1 .. l
         PROVE  d[k] # <<>> /\ \A m \in 2 .. Len(d[k]) : ~Parted(es, d[k][m - 1], d[k][m], d[k][1])
    <3>1. CASE k = l
      <4>1. d[k] = e
        BY <2>8, <3>1
      <4>2. e # <<>>
        BY <2>5, <2>7, EmptySeq
      <4> QED BY <2>10, <4>1, <4>2
    <3>2. CASE k # l
      <4>1. k \in 1 .. l - 1
        BY <1>1, <3>2
      <4>2. d[k] = cl[k]
        BY <2>8, <4>1
      <4> QED BY <1>1, <2>9, <4>2 DEF AreActivities
    <3> QED BY <3>1, <3>2
  <2>12. ASSUME NEW k \in 2 .. l
         PROVE  Parted(es, d[k - 1][Len(d[k - 1])], d[k][1], d[k - 1][1])
    <3>1. k \in 1 .. l /\ k - 1 \in 1 .. l - 1
      BY <1>1
    <3>2. d[k - 1] = cl[k - 1]
      BY <2>8, <3>1
    <3>3. d[k][1] = cl[k][1]
      <4>1. CASE k = l
        <5>1. d[k] = e /\ cl[k] = c
          BY <4>1, <2>8, <2>9
        <5>2. 1 \in 1 .. Len(c)
          BY <2>5
        <5> QED BY <5>1, <5>2, <2>7
      <4>2. CASE k \in 1 .. l - 1
        BY <4>2, <2>8
      <4> QED BY <1>1, <3>1, <4>1, <4>2
    <3>4. Parted(es, cl[k - 1][Len(cl[k - 1])], cl[k][1], cl[k - 1][1])
      BY <2>9 DEF AreActivities
    <3> QED BY <3>2, <3>3, <3>4
  <2>13. AreActivities(es, d)
    BY <2>8, <2>11, <2>12 DEF AreActivities
  <2> QED BY <2>4, <2>13 DEF d, D
<1>5. CASE ~(cl # <<>> /\ Joins(es, c, i))
  <2> DEFINE e == <<i>>
  <2>1. d = Append(cl, e)
    BY <1>5 DEF JoinOrBegin, Last
  <2>2. e \in Seq(D) /\ Len(e) = 1 /\ e[1] = i
    BY <1>3
  <2>3. l = Len(cl) /\ c = cl[l] /\ cl \in Seq(Seq(D))
    BY DEF D
  <2>4. i \in 1 .. n /\ D = 1 .. n
    BY DEF D
  <2> HIDE DEF d, l, c, e
  <2>5. d \in Seq(Seq(D)) /\ Len(d) = l + 1 /\ d[l + 1] = e /\ \A k \in 1 .. l : d[k] = cl[k]
    BY <2>1, <2>2, <2>3, AppendProperties
  <2>6. FlattenSeq(d) = Append(FlattenSeq(cl), i)
    <3>1. FlattenSeq(cl) \in Seq(D) /\ FlattenSeq(d) = FlattenSeq(cl) \o e
      BY <2>1, <2>2, <2>3, FlattenAppend
    <3> QED BY <1>3, <3>1, AppendIsConcat DEF e
  <2>7. ASSUME NEW k \in 1 .. l + 1
        PROVE  d[k] # <<>> /\ \A m \in 2 .. Len(d[k]) : ~Parted(es, d[k][m - 1], d[k][m], d[k][1])
    <3>1. CASE k = l + 1
      <4>1. d[k] = e
        BY <2>5, <3>1
      <4>2. e # <<>>
        BY DEF e
      <4>3. \A m \in 2 .. Len(e) : FALSE
        BY <2>2
      <4> QED BY <4>1, <4>2, <4>3
    <3>2. CASE k # l + 1
      <4>1. k \in 1 .. l
        BY <1>1, <3>2
      <4>2. d[k] = cl[k]
        BY <2>5, <4>1
      <4> QED BY <1>1, <2>3, <4>1, <4>2 DEF AreActivities
    <3> QED BY <3>1, <3>2
  <2>8. ASSUME NEW k \in 2 .. l + 1
        PROVE  Parted(es, d[k - 1][Len(d[k - 1])], d[k][1], d[k - 1][1])
    <3>1. k - 1 \in 1 .. l
      BY <1>1
    <3>2. d[k - 1] = cl[k - 1]
      BY <2>5, <3>1
    <3>3. CASE k = l + 1
      <4>1. k - 1 = l /\ l \in 1 .. l /\ d[k] = e
        BY <1>1, <2>5, <3>1, <3>3
      <4>2. cl # <<>> /\ d[k - 1] = c /\ c \in Seq(D) /\ c # <<>>
        BY <1>1, <2>3, <3>2, <4>1, EmptySeq
      <4>3. ~Joins(es, c, i)
        BY <1>5, <4>2
      <4>4. Parted(es, c[Len(c)], i, c[1])
        BY <2>4, <4>2, <4>3, JoinsUnlessParted
      <4> QED BY <2>2, <4>1, <4>2, <4>4
    <3>4. CASE k # l + 1
      <4>1. k \in 2 .. l /\ k \in 1 .. l
        BY <1>1, <3>4
      <4>2. d[k] = cl[k]
        BY <2>5, <4>1
      <4> QED BY <2>3, <3>2, <4>1, <4>2 DEF AreActivities
    <3> QED BY <3>3, <3>4
  <2>9. AreActivities(es, d)
    BY <2>5, <2>7, <2>8 DEF AreActivities
  <2> QED BY <2>4, <2>5, <2>6, <2>9 DEF d
<1> QED BY <1>4, <1>5 DEF d, c, l

\* The clusters of the first m entries, in order of time.
ClustersUpTo(f, es, order) ==
  /\ f[0] = <<>>
  /\ \A m \in 1 .. Len(order) : f[m] = JoinOrBegin(es, f[m - 1], order[m])

LEMMA JoinOrBeginType ==
  ASSUME NEW es, NEW n, NEW cl \in Seq(Seq(1 .. n)), NEW i \in 1 .. n
  PROVE  JoinOrBegin(es, cl, i) \in Seq(Seq(1 .. n))
<1> DEFINE D == 1 .. n
<1>1. cl \in Seq(Seq(D)) /\ i \in D
  OBVIOUS
<1> HIDE DEF D
<1>2. CASE cl # <<>> /\ Joins(es, Last(cl), i)
  <2>1. JoinOrBegin(es, cl, i) = [cl EXCEPT ![Len(cl)] = Append(@, i)]
    BY <1>2 DEF JoinOrBegin
  <2> QED BY <1>1, <1>2, <2>1, FlattenGrow DEF D
<1>3. CASE ~(cl # <<>> /\ Joins(es, Last(cl), i))
  <2>1. JoinOrBegin(es, cl, i) = Append(cl, <<i>>) /\ <<i>> \in Seq(D)
    BY <1>1, <1>3 DEF JoinOrBegin
  <2>2. Append(cl, <<i>>) \in Seq(Seq(D))
    BY <1>1, <2>1, AppendProperties
  <2> QED BY <2>1, <2>2 DEF D
<1> QED BY <1>2, <1>3

LEMMA ClustersExist ==
  ASSUME NEW es, NEW n, Timed(es, n)
  PROVE  \E f : ClustersUpTo(f, es, ByTime(es)) /\ ClusterEntries(es) = f[n]
<1> DEFINE order == ByTime(es)
           A == Seq(Seq(1 .. n))
           E(f, m) == IF m = 0 THEN <<>> ELSE JoinOrBegin(es, f[m - 1], order[m])
           Solves(f) == f = [m \in 0 .. Len(order) |-> E(f, m)]
<1>1. n \in Nat /\ order \in [1 .. n -> 1 .. n]
  BY ByTimeSorts DEF Timed
<1>2. Len(order) = n
  <2> HIDE DEF order
  <2>1. order \in Seq(1 .. n)
    BY <1>1
  <2> QED BY <1>1, <2>1, LenProperties
<1>3. ClusterEntries(es) = (CHOOSE f : Solves(f))[Len(order)]
  BY DEF ClusterEntries
<1> HIDE DEF order
<1>4. <<>> \in A
  BY EmptySeq
<1>5. \E f \in [0 .. n -> A] : \A m \in 0 .. n : f[m] = E(f, m)
  <2> DEFINE step == [p \in A \X (1 .. n) |-> JoinOrBegin(es, p[1], order[p[2]])]
  <2>1. \A cl \in A, m \in 1 .. n : JoinOrBegin(es, cl, order[m]) \in A
    BY <1>1, JoinOrBeginType
  <2> HIDE DEF A
  <2>2. step \in [A \X (1 .. n) -> A]
    BY <2>1
  <2>3. \A cl \in A, m \in 1 .. n : step[<<cl, m>>] = JoinOrBegin(es, cl, order[m])
    OBVIOUS
  <2> HIDE DEF step
  <2>4. PICK f : IsLoop(f, A, n, <<>>, step)
    BY <1>1, <1>4, <2>2, LoopExists
  <2>5. f \in [0 .. n -> A] /\ f[0] = <<>> /\ \A m \in 1 .. n : f[m] = step[<<f[m - 1], m>>]
    BY <2>4 DEF IsLoop
  <2>6. ASSUME NEW m \in 0 .. n PROVE f[m] = E(f, m)
    <3>1. CASE m = 0
      BY <2>5, <3>1
    <3>2. CASE m # 0
      <4>1. m \in 1 .. n /\ m - 1 \in 0 .. n
        BY <1>1, <3>2
      <4>2. f[m - 1] \in A /\ f[m] = step[<<f[m - 1], m>>]
        BY <2>5, <4>1
      <4> QED BY <2>3, <3>2, <4>1, <4>2
    <3> QED BY <3>1, <3>2
  <2> HIDE DEF E
  <2> QED BY <2>5, <2>6
<1> HIDE DEF E
<1>6. \E f : Solves(f)
  <2>1. PICK f \in [0 .. n -> A] : \A m \in 0 .. n : f[m] = E(f, m)
    BY <1>5
  <2>2. f = [m \in 0 .. n |-> f[m]]
    BY <2>1
  <2>3. f = [m \in 0 .. Len(order) |-> E(f, m)]
    BY <1>2, <2>1, <2>2
  <2> QED BY <2>3
<1> DEFINE g == CHOOSE f : Solves(f)
<1>7. Solves(g)
  <2> HIDE DEF Solves
  <2> QED BY <1>6
<1>8. ClusterEntries(es) = g[n]
  BY <1>2, <1>3
<1> HIDE DEF g
<1>9. \A m \in 0 .. n : g[m] = E(g, m)
  BY <1>2, <1>7
<1>10. g[0] = <<>> /\ \A m \in 1 .. n : g[m] = JoinOrBegin(es, g[m - 1], order[m])
  <2>1. 0 \in 0 .. n /\ \A m \in 1 .. n : m \in 0 .. n /\ m # 0
    BY <1>1
  <2> QED BY <1>9, <2>1 DEF E
<1> QED BY <1>2, <1>8, <1>10 DEF ClustersUpTo, order

LEMMA ClustersAre ==
  ASSUME NEW es, NEW n, Timed(es, n)
  PROVE  /\ ClusterEntries(es) \in Seq(Seq(1 .. n))
         /\ AreActivities(es, ClusterEntries(es))
         /\ FlattenSeq(ClusterEntries(es)) = ByTime(es)
<1> DEFINE order == ByTime(es)
           D == 1 .. n
<1>1. n \in Nat /\ order \in [D -> D]
  BY ByTimeSorts DEF Timed
<1>2. order \in Seq(D) /\ Len(order) = n
  <2> HIDE DEF order
  <2>1. order \in Seq(D)
    BY <1>1
  <2> QED BY <1>1, <2>1, LenProperties
<1>3. PICK f : ClustersUpTo(f, es, order) /\ ClusterEntries(es) = f[n]
  BY ClustersExist
<1> DEFINE Good(m) == /\ f[m] \in Seq(Seq(D))
                      /\ AreActivities(es, f[m])
                      /\ FlattenSeq(f[m]) = SubSeq(order, 1, m)
           S == {m \in 0 .. n : Good(m)}
<1> HIDE DEF order
<1>4. 0 \in S
  <2>1. f[0] = <<>> /\ <<>> \in Seq(Seq(D)) /\ Len(<<>>) = 0
    BY <1>3, EmptySeq DEF ClustersUpTo
  <2>2. AreActivities(es, <<>>)
    BY <2>1 DEF AreActivities
  <2>3. SubSeq(order, 1, 0) = <<>>
    BY SubSeqEmpty
  <2>4. FlattenSeq(<<>>) = <<>>
    BY DEF FlattenSeq
  <2>5. Good(0)
    BY <2>1, <2>2, <2>3, <2>4
  <2>6. 0 \in 0 .. n
    BY <1>1
  <2> HIDE DEF Good
  <2> QED BY <2>5, <2>6
<1>5. ASSUME NEW k \in 0 .. n - 1, k \in S PROVE k + 1 \in S
  <2>1. k \in 0 .. n /\ k + 1 \in 1 .. n /\ k + 1 \in 0 .. n /\ (k + 1) - 1 = k /\ 1 <= k + 1
    BY <1>1
  <2>2. Good(k)
    BY <1>5
  <2>3. f[k + 1] = JoinOrBegin(es, f[k], order[k + 1]) /\ order[k + 1] \in D
    BY <1>1, <1>2, <1>3, <2>1 DEF ClustersUpTo
  <2> DEFINE d == f[k + 1]
             i == order[k + 1]
             c == f[k]
  <2>4. /\ d \in Seq(Seq(D))
        /\ AreActivities(es, d)
        /\ FlattenSeq(d) = Append(FlattenSeq(c), i)
    <3>1. d = JoinOrBegin(es, c, i) /\ c \in Seq(Seq(D)) /\ AreActivities(es, c) /\ i \in D
      BY <2>2, <2>3
    <3> HIDE DEF d, i, c
    <3> QED BY <3>1, JoinOrBeginKeeps
  <2>5. SubSeq(order, 1, k + 1) = Append(SubSeq(order, 1, k), i)
    <3>1. 1 \in 1 .. Len(order) /\ k + 1 \in 1 .. Len(order) /\ (k + 1) - 1 = k
      BY <1>1, <1>2, <2>1
    <3>2. SubSeq(order, 1, k + 1) = SubSeq(order, 1, k) \o <<order[k + 1]>>
      BY <1>2, <3>1, SubSeqRecursiveSecond
    <3>3. SubSeq(order, 1, k) \in Seq(D)
      <4>1. \A j \in 1 .. k : order[j] \in D
        BY <1>1, <2>1
      <4>2. k \in Int /\ 1 \in Int
        BY <2>1
      <4> QED BY <4>1, <4>2, SubSeqProperties
    <3> QED BY <2>3, <3>2, <3>3, AppendIsConcat
  <2> QED BY <2>1, <2>2, <2>4, <2>5
<1>6. Good(n)
  <2>1. 0 .. n \subseteq S
    <3> HIDE DEF S
    <3> QED BY <1>1, <1>4, <1>5, UpTo
  <2>2. n \in 0 .. n
    BY <1>1
  <2> HIDE DEF Good
  <2> QED BY <2>1, <2>2
<1>7. FlattenSeq(f[n]) = order
  BY <1>2, <1>6, SubSeqFull
<1> QED BY <1>3, <1>6, <1>7 DEF order

\* Of every capture, clusters are the entries in order of time, cut exactly where an
\* entry is a navigation, comes after a pause, or was not sent from the same page.
THEOREM ClustersCut ==
  ASSUME NEW es, NEW n, Timed(es, n)
  PROVE  ClustersAreActivities(es)
<1> DEFINE cl == ClusterEntries(es)
           D == 1 .. n
<1>1. cl \in Seq(Seq(D)) /\ AreActivities(es, cl) /\ FlattenSeq(cl) = ByTime(es)
  BY ClustersAre
<1> HIDE DEF cl
<1>2. \A c \in ToSet(cl) : \E k \in 1 .. Len(cl) : c = cl[k]
  BY <1>1, LenProperties DEF ToSet
<1>3. \A c \in ToSet(cl) : \A m \in 2 .. Len(c) : ~Parted(es, c[m - 1], c[m], c[1])
  BY <1>1, <1>2 DEF AreActivities
<1>4. \A k \in 2 .. Len(cl) : Parted(es, Last(cl[k - 1]), cl[k][1], cl[k - 1][1])
  BY <1>1 DEF AreActivities, Last
<1> QED BY <1>1, <1>3, <1>4 DEF ClustersAreActivities, Parted, cl

\* Every capture that is recorded is cut where its activities end.
THEOREM ClustersAreCut == Spec => []ClustersCutActivities
<1>1. InputsOK => ClustersCutActivities
  <2> SUFFICES ASSUME InputsOK, subject = "capture" PROVE ClustersAreActivities(input)
    BY DEF ClustersCutActivities
  <2>1. given \in Kinds /\ input \in Seq(Recorded(given))
    BY DEF InputsOK
  <2>2. Len(input) \in Nat /\ DOMAIN input = 1 .. Len(input)
        /\ \A i \in 1 .. Len(input) : input[i] \in Recorded(given)
    BY <2>1, LenProperties, ElementOfSeq
  <2>3. Timed(input, Len(input))
    BY <2>1, <2>2, RecordedIsEntry DEF Timed
  <2> QED BY <2>3, ClustersCut
<1> QED BY <1>1, InputsInductive, PTL

---------------------------------------------------------------------------
(* Redirect chains                                                         *)

\* r is the elements of s that are in S, in their order: its k-th is s[at[k]].
Selects(at, r, s, S) ==
  /\ r \in Seq(S)
  /\ at \in [1 .. Len(r) -> 1 .. Len(s)]
  /\ \A k \in 1 .. Len(r) : r[k] = s[at[k]]
  /\ \A k, l \in 1 .. Len(r) : k < l => at[k] < at[l]
  /\ \A m \in 1 .. Len(s) : s[m] \in S => \E k \in 1 .. Len(r) : at[k] = m

\* The same of the first n elements.
SelectsUpTo(at, r, s, S, n) ==
  /\ r \in Seq(S)
  /\ at \in [1 .. Len(r) -> 1 .. n]
  /\ \A k \in 1 .. Len(r) : r[k] = s[at[k]]
  /\ \A k, l \in 1 .. Len(r) : k < l => at[k] < at[l]
  /\ \A m \in 1 .. n : s[m] \in S => \E k \in 1 .. Len(r) : at[k] = m

KeepStep(r, x, S) == IF x \in S THEN Append(r, x) ELSE r

LEMMA KeepLoop ==
  ASSUME NEW D, NEW s \in Seq(D), NEW S
  PROVE  \E f : /\ f[0] = <<>>
                /\ \A m \in 1 .. Len(s) : f[m] = KeepStep(f[m - 1], s[m], S)
                /\ Keep(s, S) = f[Len(s)]
<1> DEFINE n == Len(s)
           A == Seq(S)
           E(f, m) == IF m = 0 THEN <<>>
                      ELSE IF s[m] \in S THEN Append(f[m - 1], s[m]) ELSE f[m - 1]
           Solves(f) == f = [m \in 0 .. n |-> E(f, m)]
           step == [p \in A \X (1 .. n) |-> KeepStep(p[1], s[p[2]], S)]
<1>1. n \in Nat /\ <<>> \in A
  BY LenProperties, EmptySeq
<1>2. Keep(s, S) = (CHOOSE f : Solves(f))[n]
  BY DEF Keep
<1> HIDE DEF n
<1>3. \A r \in A, m \in 1 .. n : KeepStep(r, s[m], S) \in A
  BY AppendProperties DEF KeepStep
<1> HIDE DEF A
<1>4. /\ step \in [A \X (1 .. n) -> A]
      /\ \A r \in A, m \in 1 .. n : step[<<r, m>>] = KeepStep(r, s[m], S)
  BY <1>3
<1> HIDE DEF step
<1>5. PICK f : IsLoop(f, A, n, <<>>, step)
  BY <1>1, <1>4, LoopExists
<1>6. f \in [0 .. n -> A] /\ f[0] = <<>> /\ \A m \in 1 .. n : f[m] = step[<<f[m - 1], m>>]
  BY <1>5 DEF IsLoop
<1>7. ASSUME NEW m \in 0 .. n PROVE f[m] = E(f, m)
  <2>1. CASE m = 0
    BY <1>6, <2>1
  <2>2. CASE m # 0
    <3>1. m \in 1 .. n /\ m - 1 \in 0 .. n
      BY <1>1, <2>2
    <3>2. f[m - 1] \in A /\ f[m] = KeepStep(f[m - 1], s[m], S)
      BY <1>4, <1>6, <3>1
    <3> QED BY <2>2, <3>2 DEF KeepStep
  <2> QED BY <2>1, <2>2
<1>8. Solves(f)
  <2>1. f = [m \in 0 .. n |-> f[m]]
    BY <1>6
  <2> HIDE DEF E
  <2> QED BY <1>7, <2>1
<1> DEFINE g == CHOOSE h : Solves(h)
<1>9. Solves(g)
  <2> HIDE DEF Solves
  <2> QED BY <1>8
<1>10. Keep(s, S) = g[n]
  BY <1>2
<1> HIDE DEF g
<1>11. \A m \in 0 .. n : g[m] = E(g, m)
  <2> HIDE DEF E
  <2> QED BY <1>9
<1>12. 0 \in 0 .. n /\ \A m \in 1 .. n : m \in 0 .. n /\ m # 0
  BY <1>1
<1>13. g[0] = <<>> /\ \A m \in 1 .. n : g[m] = KeepStep(g[m - 1], s[m], S)
  BY <1>11, <1>12 DEF KeepStep
<1> QED BY <1>10, <1>13 DEF n

LEMMA KeepOneMore ==
  ASSUME NEW at, NEW r, NEW s, NEW S, NEW n \in Nat, SelectsUpTo(at, r, s, S, n)
  PROVE  \E al : SelectsUpTo(al, KeepStep(r, s[n + 1], S), s, S, n + 1)
<1>1. Len(r) \in Nat /\ r \in [1 .. Len(r) -> S] /\ at \in [1 .. Len(r) -> 1 .. n]
  BY LenProperties DEF SelectsUpTo
<1>2. CASE s[n + 1] \notin S
  <2>1. KeepStep(r, s[n + 1], S) = r
    BY <1>2 DEF KeepStep
  <2>2. at \in [1 .. Len(r) -> 1 .. n + 1]
    BY <1>1
  <2>3. \A m \in 1 .. n + 1 : s[m] \in S => m \in 1 .. n
    BY <1>2
  <2>4. SelectsUpTo(at, r, s, S, n + 1)
    <3>1. /\ r \in Seq(S)
          /\ \A k \in 1 .. Len(r) : r[k] = s[at[k]]
          /\ \A k, l \in 1 .. Len(r) : k < l => at[k] < at[l]
          /\ \A m \in 1 .. n : s[m] \in S => \E k \in 1 .. Len(r) : at[k] = m
      BY DEF SelectsUpTo
    <3> QED BY <2>2, <2>3, <3>1 DEF SelectsUpTo
  <2> QED BY <2>1, <2>4
<1>3. CASE s[n + 1] \in S
  <2> DEFINE L == Len(r)
             t == Append(r, s[n + 1])
             al == [k \in 1 .. L + 1 |-> IF k = L + 1 THEN n + 1 ELSE at[k]]
  <2>1. KeepStep(r, s[n + 1], S) = t
    BY <1>3 DEF KeepStep
  <2>2. /\ t \in Seq(S) /\ Len(t) = L + 1 /\ t[L + 1] = s[n + 1]
        /\ \A k \in 1 .. L : t[k] = r[k]
    BY <1>3, AppendProperties DEF SelectsUpTo
  <2>3. L \in Nat /\ at \in [1 .. L -> 1 .. n]
    BY <1>1
  <2>4. /\ \A k \in 1 .. L : r[k] = s[at[k]]
        /\ \A k, l \in 1 .. L : k < l => at[k] < at[l]
        /\ \A m \in 1 .. n : s[m] \in S => \E k \in 1 .. L : at[k] = m
    BY DEF SelectsUpTo
  <2> HIDE DEF L, t
  <2>5. al \in [1 .. L + 1 -> 1 .. n + 1] /\ al[L + 1] = n + 1 /\ \A k \in 1 .. L : al[k] = at[k]
    BY <2>3
  <2> HIDE DEF al
  <2>6. \A k \in 1 .. L + 1 : t[k] = s[al[k]]
    BY <2>2, <2>3, <2>4, <2>5
  <2>7. \A k, l \in 1 .. L + 1 : k < l => al[k] < al[l]
    BY <2>3, <2>4, <2>5
  <2>8. \A m \in 1 .. n + 1 : s[m] \in S => \E k \in 1 .. L + 1 : al[k] = m
    <3>1. L + 1 \in 1 .. L + 1 /\ \A k \in 1 .. L : k \in 1 .. L + 1
      BY <2>3
    <3>2. \A m \in 1 .. n + 1 : m = n + 1 \/ m \in 1 .. n
      OBVIOUS
    <3> QED BY <2>4, <2>5, <3>1, <3>2
  <2>9. SelectsUpTo(al, t, s, S, n + 1)
    BY <2>2, <2>5, <2>6, <2>7, <2>8 DEF SelectsUpTo
  <2> QED BY <2>1, <2>9
<1> QED BY <1>2, <1>3

\* What Keep returns.
LEMMA KeepSelects ==
  ASSUME NEW D, NEW s \in Seq(D), NEW S
  PROVE  \E at : Selects(at, Keep(s, S), s, S)
<1> DEFINE n == Len(s)
<1>1. n \in Nat
  BY LenProperties
<1>2. PICK f : /\ f[0] = <<>>
               /\ \A m \in 1 .. Len(s) : f[m] = KeepStep(f[m - 1], s[m], S)
               /\ Keep(s, S) = f[Len(s)]
  BY KeepLoop
<1> DEFINE Good(m) == \E at : SelectsUpTo(at, f[m], s, S, m)
           T == {m \in 0 .. n : Good(m)}
<1>3. 0 \in T
  <2>1. <<>> \in Seq(S) /\ Len(<<>>) = 0
    BY EmptySeq
  <2>2. SelectsUpTo([k \in 1 .. 0 |-> 0], <<>>, s, S, 0)
    BY <2>1 DEF SelectsUpTo
  <2>3. Good(0)
    BY <1>2, <2>2
  <2> HIDE DEF Good
  <2> QED BY <1>1, <2>3
<1>4. ASSUME NEW m \in 0 .. n - 1, m \in T PROVE m + 1 \in T
  <2>1. m \in Nat /\ m + 1 \in 1 .. n /\ m + 1 \in 0 .. n /\ (m + 1) - 1 = m
    BY <1>1
  <2>2. PICK at : SelectsUpTo(at, f[m], s, S, m)
    BY <1>4
  <2>3. f[m + 1] = KeepStep(f[m], s[m + 1], S)
    BY <1>2, <2>1
  <2>4. Good(m + 1)
    BY <2>1, <2>2, <2>3, KeepOneMore
  <2> HIDE DEF Good
  <2> QED BY <2>1, <2>4
<1>5. 0 .. n \subseteq T
  <2> HIDE DEF T, n
  <2> QED BY <1>1, <1>3, <1>4, UpTo
<1>6. Good(n)
  <2> HIDE DEF Good, n
  <2> QED BY <1>1, <1>5
<1>7. PICK at : SelectsUpTo(at, f[n], s, S, n)
  BY <1>6
<1>8. Selects(at, f[n], s, S)
  BY <1>7 DEF Selects, SelectsUpTo
<1> QED BY <1>2, <1>8

\* The p-th navigation redirects to the next one.
Leads(es, nav, p) == p < Len(nav) /\ Follows(es, nav[p], nav[p + 1])

\* nav[a] .. nav[b] is a run of redirects that goes on neither before nor after it.
IsRun(es, nav, a, b) ==
  /\ \A p \in a .. b - 1 : Leads(es, nav, p)
  /\ ~Leads(es, nav, b)
  /\ a > 1 => ~Leads(es, nav, a - 1)

\* No entry is there twice.
Once(nav, D) == nav \in Seq(D) /\ \A p, q \in 1 .. Len(nav) : nav[p] = nav[q] => p = q

\* A part of such a sequence.
LEMMA PartOf ==
  ASSUME NEW D, NEW nav, Once(nav, D), NEW a \in 1 .. Len(nav), NEW b \in a .. Len(nav)
  PROVE  /\ SubSeq(nav, a, b) \in Seq(D)
         /\ Len(SubSeq(nav, a, b)) = b - a + 1
         /\ \A h \in 1 .. b - a + 1 : SubSeq(nav, a, b)[h] = nav[a + h - 1]
         /\ \A p \in 1 .. Len(nav) : nav[p] \in ToSet(SubSeq(nav, a, b)) <=> p \in a .. b
<1> DEFINE t == SubSeq(nav, a, b)
<1>1. Len(nav) \in Nat /\ \A p \in 1 .. Len(nav) : nav[p] \in D
  BY LenProperties DEF Once
<1>2. a \in Int /\ b \in Int /\ a <= b /\ b - a + 1 \in Nat
      /\ \A p \in a .. b : p \in 1 .. Len(nav) /\ p - a + 1 \in 1 .. b - a + 1 /\ a + (p - a + 1) - 1 = p
  BY <1>1
<1>3. \A p \in a .. b : nav[p] \in D
  BY <1>1, <1>2
<1>4. t \in Seq(D) /\ Len(t) = b - a + 1 /\ \A h \in 1 .. b - a + 1 : t[h] = nav[a + h - 1]
  BY <1>2, <1>3, SubSeqProperties
<1> HIDE DEF t
<1>5. DOMAIN t = 1 .. b - a + 1
  BY <1>4, LenProperties
<1>6. ASSUME NEW p \in 1 .. Len(nav) PROVE nav[p] \in ToSet(t) <=> p \in a .. b
  <2>1. ASSUME p \in a .. b PROVE nav[p] \in ToSet(t)
    <3>1. p - a + 1 \in DOMAIN t /\ t[p - a + 1] = nav[p]
      BY <1>2, <1>4, <1>5, <2>1
    <3> QED BY <3>1 DEF ToSet
  <2>2. ASSUME nav[p] \in ToSet(t) PROVE p \in a .. b
    <3>1. PICK h \in 1 .. b - a + 1 : t[h] = nav[p]
      BY <1>5, <2>2 DEF ToSet
    <3>2. a + h - 1 \in a .. b
      BY <1>2
    <3>3. a + h - 1 \in 1 .. Len(nav) /\ nav[a + h - 1] = nav[p]
      BY <1>2, <1>4, <3>1, <3>2
    <3>4. a + h - 1 = p
      BY <3>3 DEF Once
    <3> QED BY <3>2, <3>4
  <2> QED BY <2>1, <2>2
<1> QED BY <1>4, <1>6 DEF t

\* The longest chain from a navigation ends where the run does that it is in.
LEMMA HopsEnd ==
  ASSUME NEW es, NEW nav, Len(nav) \in Nat, NEW p \in 1 .. Len(nav)
  PROVE  \E q \in p .. Len(nav) :
           /\ HopsFrom(es, nav, p) = SubSeq(nav, p, q)
           /\ \A k \in p .. q - 1 : Leads(es, nav, k)
           /\ ~Leads(es, nav, q)
<1> DEFINE n == Len(nav)
           Linked(q) == \A k \in p .. q - 1 : Follows(es, nav[k], nav[k + 1])
           Ends(q) == Linked(q) /\ (q = n \/ ~Linked(q + 1))
           T == {q \in p .. n : ~Leads(es, nav, q)}
<1>1. n \in Nat /\ n \in p .. n /\ n \in T
  BY DEF Leads
<1>2. T \subseteq Nat
  OBVIOUS
<1>3. PICK q \in T : \A m \in T : q <= m
  <2> HIDE DEF T
  <2> QED BY <1>1, <1>2, LeastExists
<1>4. q \in p .. n /\ ~Leads(es, nav, q) /\ \A k \in p .. q - 1 : Leads(es, nav, k)
  <2>1. q \in p .. n /\ ~Leads(es, nav, q)
    OBVIOUS
  <2>2. \A k \in p .. q - 1 : k \in p .. n /\ ~(q <= k)
    BY <1>1, <2>1
  <2>3. \A k \in p .. q - 1 : Leads(es, nav, k)
    BY <1>3, <2>2
  <2> QED BY <2>1, <2>3
<1> HIDE DEF T, n
<1>5. Ends(q)
  <2>1. Linked(q)
    BY <1>4 DEF Leads
  <2>2. ASSUME q # n PROVE ~Linked(q + 1)
    <3>1. q < n /\ q \in p .. (q + 1) - 1
      BY <1>1, <1>4, <2>2
    <3>2. ~Follows(es, nav[q], nav[q + 1])
      BY <1>4, <3>1 DEF Leads, n
    <3> QED BY <3>1, <3>2
  <2> QED BY <2>1, <2>2
<1> DEFINE r == CHOOSE z \in p .. n : Ends(z)
<1>6. r \in p .. n /\ Ends(r)
  <2> HIDE DEF Ends
  <2> QED BY <1>4, <1>5
<1>7. HopsFrom(es, nav, p) = SubSeq(nav, p, r)
  BY DEF HopsFrom, n
<1> HIDE DEF r
<1>8. \A k \in p .. r - 1 : Leads(es, nav, k)
  <2>1. \A k \in p .. r - 1 : k < n
    BY <1>1, <1>6
  <2> QED BY <1>6, <2>1 DEF Leads, n
<1>9. ~Leads(es, nav, r)
  <2>1. SUFFICES ASSUME Leads(es, nav, r) PROVE FALSE
    OBVIOUS
  <2>2. r # n /\ Follows(es, nav[r], nav[r + 1])
    BY <1>1, <1>6, <2>1 DEF Leads, n
  <2>3. \A k \in p .. (r + 1) - 1 : k = r \/ k \in p .. r - 1
    BY <1>1, <1>6
  <2>4. Linked(r + 1)
    BY <1>6, <2>2, <2>3
  <2> QED BY <1>6, <2>2, <2>4
<1> QED BY <1>6, <1>7, <1>8, <1>9 DEF n

\* Two runs with a navigation in common are the same.
LEMMA RunsMeet ==
  ASSUME NEW es, NEW nav, Len(nav) \in Nat,
         NEW a \in 1 .. Len(nav), NEW b \in a .. Len(nav), IsRun(es, nav, a, b),
         NEW c \in 1 .. Len(nav), NEW d \in c .. Len(nav), IsRun(es, nav, c, d),
         NEW p \in a .. b, p \in c .. d
  PROVE  a = c /\ b = d
<1> DEFINE n == Len(nav)
           leads == {q \in 1 .. n : Leads(es, nav, q)}
<1>1. n \in Nat /\ a \in 1 .. n /\ b \in a .. n /\ c \in 1 .. n /\ d \in c .. n
  OBVIOUS
<1>2. (\A q \in a .. b - 1 : q \in leads) /\ b \notin leads /\ (a > 1 => a - 1 \notin leads)
  BY <1>1 DEF IsRun
<1>3. (\A q \in c .. d - 1 : q \in leads) /\ d \notin leads /\ (c > 1 => c - 1 \notin leads)
  BY <1>1 DEF IsRun
<1> HIDE DEF leads, n
<1>4. ~(a < c)
  <2>1. SUFFICES ASSUME a < c PROVE FALSE
    OBVIOUS
  <2>2. c - 1 \in a .. b - 1 /\ c > 1
    BY <1>1, <2>1
  <2> QED BY <1>2, <1>3, <2>2
<1>5. ~(c < a)
  <2>1. SUFFICES ASSUME c < a PROVE FALSE
    OBVIOUS
  <2>2. a - 1 \in c .. d - 1 /\ a > 1
    BY <1>1, <2>1
  <2> QED BY <1>2, <1>3, <2>2
<1>6. ~(b < d)
  <2>1. SUFFICES ASSUME b < d PROVE FALSE
    OBVIOUS
  <2>2. b \in c .. d - 1
    BY <1>1, <2>1
  <2> QED BY <1>2, <1>3, <2>2
<1>7. ~(d < b)
  <2>1. SUFFICES ASSUME d < b PROVE FALSE
    OBVIOUS
  <2>2. d \in a .. b - 1
    BY <1>1, <2>1
  <2> QED BY <1>2, <1>3, <2>2
<1> QED BY <1>1, <1>4, <1>5, <1>6, <1>7

\* A chain is a run of redirects that begins at one of the first n navigations, and
\* each of these that redirects to the next is in a chain.
IsChainFrom(es, nav, c, n) ==
  \E a \in 1 .. n, b \in 1 .. Len(nav) : a < b /\ IsRun(es, nav, a, b) /\ c = SubSeq(nav, a, b)

ChainsAreRuns(es, nav, chains, n) ==
  /\ \A c \in ToSet(chains) : IsChainFrom(es, nav, c, n)
  /\ \A p \in 1 .. n : Leads(es, nav, p) => \E c \in ToSet(chains) : nav[p] \in ToSet(c)

LEMMA AppendSet ==
  ASSUME NEW A, NEW s \in Seq(A), NEW x \in A
  PROVE  ToSet(Append(s, x)) = ToSet(s) \cup {x}
<1> DEFINE n == Len(s)
           t == Append(s, x)
<1>1. /\ n \in Nat /\ DOMAIN s = 1 .. n
      /\ t \in Seq(A) /\ Len(t) = n + 1 /\ t[n + 1] = x /\ \A i \in 1 .. n : t[i] = s[i]
  BY LenProperties, AppendProperties
<1>2. DOMAIN t = 1 .. n + 1
  BY <1>1, LenProperties
<1> HIDE DEF n, t
<1>3. ASSUME NEW y \in ToSet(t) PROVE y \in ToSet(s) \cup {x}
  <2>1. PICK i \in 1 .. n + 1 : y = t[i]
    BY <1>2 DEF ToSet
  <2>2. i = n + 1 \/ i \in 1 .. n
    BY <1>1
  <2> QED BY <1>1, <2>1, <2>2 DEF ToSet
<1>4. \A i \in 1 .. n : i \in 1 .. n + 1
  BY <1>1
<1>5. ToSet(s) \subseteq ToSet(t)
  BY <1>1, <1>2, <1>4 DEF ToSet
<1>6. n + 1 \in 1 .. n + 1
  BY <1>1
<1>7. x \in ToSet(t)
  BY <1>1, <1>2, <1>6 DEF ToSet
<1> QED BY <1>3, <1>5, <1>7 DEF t

LEMMA AddChainKeeps ==
  ASSUME NEW es, NEW D, NEW nav, Once(nav, D), NEW chains \in Seq(Seq(D)),
         NEW m \in 0 .. Len(nav) - 1, ChainsAreRuns(es, nav, chains, m)
  PROVE  /\ AddChain(es, nav, chains, m + 1) \in Seq(Seq(D))
         /\ ChainsAreRuns(es, nav, AddChain(es, nav, chains, m + 1), m + 1)
<1> DEFINE n == Len(nav)
           p == m + 1
           told == \E c \in ToSet(chains) : nav[p] \in ToSet(c)
<1>1. n \in Nat /\ p \in 1 .. n /\ \A k \in 1 .. p : k \in 1 .. m \/ k = p
  BY LenProperties DEF Once
<1>1a. \A k \in 1 .. m : k \in 1 .. p
  BY <1>1
<1>2. PICK q \in p .. n : /\ HopsFrom(es, nav, p) = SubSeq(nav, p, q)
                          /\ \A k \in p .. q - 1 : Leads(es, nav, k)
                          /\ ~Leads(es, nav, q)
  BY <1>1, HopsEnd
<1> DEFINE hops == SubSeq(nav, p, q)
<1>3. hops \in Seq(D) /\ Len(hops) = q - p + 1 /\ nav[p] \in ToSet(hops)
  <2>1. q \in p .. Len(nav) /\ p \in 1 .. Len(nav) /\ p \in p .. q
    BY <1>1
  <2> HIDE DEF p
  <2> QED BY <2>1, PartOf
<1>7. AddChain(es, nav, chains, p) = IF told \/ Len(hops) = 1 THEN chains ELSE Append(chains, hops)
  <2>1. HopsFrom(es, nav, p) = hops
    BY <1>2
  <2> HIDE DEF hops, p
  <2> QED BY <2>1 DEF AddChain
<1>4. \A c \in ToSet(chains) : IsChainFrom(es, nav, c, p)
  BY <1>1a DEF ChainsAreRuns, IsChainFrom
<1>5. CASE told \/ q = p
  <2>1. AddChain(es, nav, chains, p) = chains
    <3>1. q = p => q - p + 1 = 1
      BY <1>1
    <3> HIDE DEF hops, p, told
    <3> QED BY <1>3, <1>5, <1>7, <3>1
  <2>2. Leads(es, nav, p) => told
    BY <1>2, <1>5
  <2>3. ChainsAreRuns(es, nav, chains, p)
    BY <1>1, <1>4, <2>2 DEF ChainsAreRuns
  <2> QED BY <2>1, <2>3
<1>6. CASE ~told /\ q # p
  <2>1. AddChain(es, nav, chains, p) = Append(chains, hops)
    <3>1. q - p + 1 # 1
      BY <1>1, <1>6
    <3> HIDE DEF hops, p, told
    <3> QED BY <1>3, <1>6, <1>7, <3>1
  <2>2. Append(chains, hops) \in Seq(Seq(D)) /\ ToSet(Append(chains, hops)) = ToSet(chains) \cup {hops}
    <3> DEFINE A == Seq(D)
    <3>1. hops \in A /\ chains \in Seq(A)
      BY <1>3
    <3> HIDE DEF hops, A
    <3>2. Append(chains, hops) \in Seq(A) /\ ToSet(Append(chains, hops)) = ToSet(chains) \cup {hops}
      BY <3>1, AppendProperties, AppendSet
    <3> QED BY <3>2 DEF A
  <2>3. ASSUME p > 1, Leads(es, nav, p - 1) PROVE FALSE
    <3>1. p - 1 \in 1 .. m /\ p - 1 \in 1 .. n
      BY <1>1, <2>3
    <3>2. PICK c \in ToSet(chains) : nav[p - 1] \in ToSet(c)
      BY <2>3, <3>1 DEF ChainsAreRuns
    <3>3. PICK a \in 1 .. m, b \in 1 .. n : a < b /\ IsRun(es, nav, a, b) /\ c = SubSeq(nav, a, b)
      BY DEF ChainsAreRuns, IsChainFrom
    <3>4. a \in 1 .. n /\ b \in a .. n
      BY <1>1, <3>3
    <3>5. \A k \in 1 .. n : nav[k] \in ToSet(c) <=> k \in a .. b
      <4>1. \A k \in 1 .. n : nav[k] \in ToSet(SubSeq(nav, a, b)) <=> k \in a .. b
        BY <3>4, PartOf
      <4> QED BY <3>3, <4>1
    <3>6. p - 1 \in a .. b
      BY <3>1, <3>2, <3>5
    <3>7. p - 1 # b
      BY <2>3, <3>3 DEF IsRun
    <3>8. p \in a .. b
      BY <1>1, <3>4, <3>6, <3>7
    <3>9. nav[p] \in ToSet(c)
      BY <1>1, <3>5, <3>8
    <3> QED BY <1>6, <3>9
  <2>4. IsRun(es, nav, p, q) /\ p < q /\ q \in 1 .. n /\ p \in 1 .. p
    <3>1. p < q /\ q \in 1 .. n /\ p \in 1 .. p
      BY <1>1, <1>6
    <3> HIDE DEF p
    <3> QED BY <1>2, <2>3, <3>1 DEF IsRun
  <2>5. IsChainFrom(es, nav, hops, p)
    BY <2>4 DEF IsChainFrom
  <2>6. ChainsAreRuns(es, nav, Append(chains, hops), p)
    <3>1. \A k \in 1 .. p : Leads(es, nav, k) => \E c \in ToSet(chains) \cup {hops} : nav[k] \in ToSet(c)
      BY <1>1, <1>3 DEF ChainsAreRuns
    <3> HIDE DEF hops, p
    <3> QED BY <1>4, <2>2, <2>5, <3>1 DEF ChainsAreRuns
  <2> QED BY <2>1, <2>2, <2>6
<1> QED BY <1>5, <1>6

LEMMA AddChainType ==
  ASSUME NEW es, NEW D, NEW nav, Once(nav, D), NEW chains \in Seq(Seq(D)), NEW p \in 1 .. Len(nav)
  PROVE  AddChain(es, nav, chains, p) \in Seq(Seq(D))
<1>1. Len(nav) \in Nat
  BY LenProperties DEF Once
<1>2. PICK q \in p .. Len(nav) : HopsFrom(es, nav, p) = SubSeq(nav, p, q)
  BY <1>1, HopsEnd
<1>3. HopsFrom(es, nav, p) \in Seq(D)
  BY <1>2, PartOf
<1> DEFINE A == Seq(D)
           hops == HopsFrom(es, nav, p)
<1>4. hops \in A /\ chains \in Seq(A)
  BY <1>3
<1> HIDE DEF A, hops
<1>5. Append(chains, hops) \in Seq(A)
  BY <1>4, AppendProperties
<1>6. AddChain(es, nav, chains, p) \in {chains, Append(chains, hops)}
  BY DEF AddChain, hops
<1> QED BY <1>4, <1>5, <1>6 DEF A

LEMMA ChainsLoop ==
  ASSUME NEW es, NEW D, NEW nav, Once(nav, D), Navigations(es) = nav
  PROVE  \E f : /\ f[0] = <<>>
                /\ \A p \in 1 .. Len(nav) : f[p] = AddChain(es, nav, f[p - 1], p)
                /\ RedirectChains(es) = f[Len(nav)]
<1> DEFINE n == Len(nav)
           A == Seq(Seq(D))
           E(f, p) == IF p = 0 THEN <<>> ELSE AddChain(es, nav, f[p - 1], p)
           Solves(f) == f = [p \in 0 .. n |-> E(f, p)]
           step == [x \in A \X (1 .. n) |-> AddChain(es, nav, x[1], x[2])]
<1>1. n \in Nat /\ <<>> \in A
  BY LenProperties, EmptySeq DEF Once
<1>2. RedirectChains(es) = (CHOOSE f : Solves(f))[n]
  BY DEF RedirectChains
<1>3. \A chains \in A, p \in 1 .. n : AddChain(es, nav, chains, p) \in A
  BY AddChainType
<1> HIDE DEF n
<1> HIDE DEF A
<1>4. /\ step \in [A \X (1 .. n) -> A]
      /\ \A chains \in A, p \in 1 .. n : step[<<chains, p>>] = AddChain(es, nav, chains, p)
  BY <1>3
<1> HIDE DEF step
<1>5. PICK f : IsLoop(f, A, n, <<>>, step)
  BY <1>1, <1>4, LoopExists
<1>6. f \in [0 .. n -> A] /\ f[0] = <<>> /\ \A p \in 1 .. n : f[p] = step[<<f[p - 1], p>>]
  BY <1>5 DEF IsLoop
<1>7. ASSUME NEW p \in 0 .. n PROVE f[p] = E(f, p)
  <2>1. CASE p = 0
    BY <1>6, <2>1
  <2>2. CASE p # 0
    <3>1. p \in 1 .. n /\ p - 1 \in 0 .. n
      BY <1>1, <2>2
    <3>2. f[p - 1] \in A /\ f[p] = AddChain(es, nav, f[p - 1], p)
      BY <1>4, <1>6, <3>1
    <3> QED BY <2>2, <3>2
  <2> QED BY <2>1, <2>2
<1>8. Solves(f)
  <2>1. f = [p \in 0 .. n |-> f[p]]
    BY <1>6
  <2> HIDE DEF E
  <2> QED BY <1>7, <2>1
<1> DEFINE g == CHOOSE h : Solves(h)
<1>9. Solves(g)
  <2> HIDE DEF Solves
  <2> QED BY <1>8
<1>10. RedirectChains(es) = g[n]
  BY <1>2
<1> HIDE DEF g
<1>11. \A p \in 0 .. n : g[p] = E(g, p)
  <2> HIDE DEF E
  <2> QED BY <1>9
<1>12. 0 \in 0 .. n /\ \A p \in 1 .. n : p \in 0 .. n /\ p # 0
  BY <1>1
<1>13. g[0] = <<>> /\ \A p \in 1 .. n : g[p] = AddChain(es, nav, g[p - 1], p)
  BY <1>11, <1>12
<1> QED BY <1>10, <1>13 DEF n

\* Chains are the maximal runs of redirects between successive navigations, and
\* every navigation that redirects to the next one is in one of them.
THEOREM ChainsRun ==
  ASSUME NEW es, NEW D, NEW nav, Once(nav, D), Navigations(es) = nav
  PROVE  /\ RedirectChains(es) \in Seq(Seq(D))
         /\ ChainsAreRuns(es, nav, RedirectChains(es), Len(nav))
<1> DEFINE n == Len(nav)
<1>1. n \in Nat
  BY LenProperties DEF Once
<1>2. PICK f : /\ f[0] = <<>>
               /\ \A p \in 1 .. Len(nav) : f[p] = AddChain(es, nav, f[p - 1], p)
               /\ RedirectChains(es) = f[Len(nav)]
  BY ChainsLoop
<1> DEFINE Good(p) == f[p] \in Seq(Seq(D)) /\ ChainsAreRuns(es, nav, f[p], p)
           S == {p \in 0 .. n : Good(p)}
<1>3. 0 \in S
  <2>1. <<>> \in Seq(Seq(D)) /\ ToSet(<<>>) = {}
    BY EmptySeq DEF ToSet
  <2>2. Good(0)
    BY <1>2, <2>1 DEF ChainsAreRuns
  <2> HIDE DEF Good
  <2> QED BY <1>1, <2>2
<1>4. ASSUME NEW p \in 0 .. n - 1, p \in S PROVE p + 1 \in S
  <2>1. p + 1 \in 1 .. n /\ p + 1 \in 0 .. n /\ (p + 1) - 1 = p
    BY <1>1
  <2>2. f[p + 1] = AddChain(es, nav, f[p], p + 1)
    BY <1>2, <2>1
  <2>3. f[p] \in Seq(Seq(D)) /\ ChainsAreRuns(es, nav, f[p], p)
    BY <1>4
  <2>4. Good(p + 1)
    BY <2>2, <2>3, AddChainKeeps
  <2> HIDE DEF Good
  <2> QED BY <2>1, <2>4
<1>5. 0 .. n \subseteq S
  <2> HIDE DEF S, n
  <2> QED BY <1>1, <1>3, <1>4, UpTo
<1>6. Good(n)
  <2> HIDE DEF Good, n
  <2> QED BY <1>1, <1>5
<1> QED BY <1>2, <1>6

LEMMA NavigationsAreOnce ==
  ASSUME NEW es, NEW n, Timed(es, n)
  PROVE  Once(Navigations(es), 1 .. n)
<1> DEFINE order == ByTime(es)
           S == {i \in DOMAIN es : Is("navigation", es, i)}
           nav == Keep(order, S)
<1>1. /\ n \in Nat /\ DOMAIN es = 1 .. n
      /\ order \in [1 .. n -> 1 .. n]
      /\ \A k, l \in 1 .. n : k < l => Before(es, order[k], order[l])
      /\ \A i \in 1 .. n : ~Before(es, i, i)
  BY ByTimeSorts, BeforeIsOrder DEF Timed
<1>2. Navigations(es) = nav
  BY DEF Navigations
<1>3. S \subseteq 1 .. n
  BY <1>1
<1> HIDE DEF order, S
<1>4. order \in Seq(1 .. n) /\ Len(order) = n
  <2>1. order \in Seq(1 .. n)
    BY <1>1
  <2> QED BY <1>1, <2>1, LenProperties
<1>5. PICK at : Selects(at, nav, order, S)
  BY <1>4, KeepSelects
<1> HIDE DEF nav
<1>6. /\ nav \in Seq(S) /\ at \in [1 .. Len(nav) -> 1 .. n]
      /\ \A k \in 1 .. Len(nav) : nav[k] = order[at[k]]
      /\ \A k, l \in 1 .. Len(nav) : k < l => at[k] < at[l]
  BY <1>4, <1>5 DEF Selects
<1>7. nav \in Seq(1 .. n) /\ Len(nav) \in Nat
  BY <1>3, <1>6, SeqMonotonic, LenProperties
<1>8. ASSUME NEW k \in 1 .. Len(nav), NEW l \in 1 .. Len(nav), k < l PROVE nav[k] # nav[l]
  <2>1. at[k] \in 1 .. n /\ at[l] \in 1 .. n /\ at[k] < at[l]
    BY <1>6, <1>8
  <2>2. Before(es, nav[k], nav[l]) /\ nav[k] \in 1 .. n
    BY <1>1, <1>6, <2>1
  <2> QED BY <1>1, <2>2
<1>9. \A k, l \in 1 .. Len(nav) : nav[k] = nav[l] => k = l
  <2>1. \A k, l \in 1 .. Len(nav) : k < l \/ l < k \/ k = l
    BY <1>7
  <2> QED BY <1>8, <2>1
<1> QED BY <1>2, <1>7, <1>9 DEF Once

\* In every capture, two successive navigations are successive hops of exactly one
\* chain if the first redirects to the second, and of none otherwise.
THEOREM ChainsFollow ==
  ASSUME NEW es, NEW n, Timed(es, n)
  PROVE  ChainsAreRedirects(es)
<1> DEFINE nav == Navigations(es)
           chains == RedirectChains(es)
           N == Len(nav)
           D == 1 .. n
           Hops(i, j) == {h \in ToSet(chains) \X DOMAIN nav :
                            h[2] < Len(h[1]) /\ h[1][h[2]] = i /\ h[1][h[2] + 1] = j}
           Successive(p, i, j) == nav[p] = i /\ nav[p + 1] = j
<1>1. Once(nav, D)
  BY NavigationsAreOnce
<1>2. chains \in Seq(Seq(D)) /\ ChainsAreRuns(es, nav, chains, N)
  BY <1>1, ChainsRun
<1> HIDE DEF nav, chains, D
<1>3. N \in Nat /\ DOMAIN nav = 1 .. N /\ ToSet(nav) = {nav[p] : p \in 1 .. N}
  BY <1>1, LenProperties DEF Once, ToSet
<1>4. ASSUME NEW c \in ToSet(chains)
      PROVE  \E a \in 1 .. N, b \in 1 .. N :
               /\ a < b /\ b \in a .. N /\ IsRun(es, nav, a, b) /\ c = SubSeq(nav, a, b)
               /\ Len(c) = b - a + 1
               /\ \A h \in 1 .. b - a + 1 : c[h] = nav[a + h - 1]
               /\ \A p \in 1 .. N : nav[p] \in ToSet(c) <=> p \in a .. b
  <2>1. PICK a \in 1 .. N, b \in 1 .. N : a < b /\ IsRun(es, nav, a, b) /\ c = SubSeq(nav, a, b)
    BY <1>2 DEF ChainsAreRuns, IsChainFrom
  <2>2. b \in a .. N
    BY <1>3, <2>1
  <2>3. /\ Len(SubSeq(nav, a, b)) = b - a + 1
        /\ \A h \in 1 .. b - a + 1 : SubSeq(nav, a, b)[h] = nav[a + h - 1]
        /\ \A p \in 1 .. N : nav[p] \in ToSet(SubSeq(nav, a, b)) <=> p \in a .. b
    BY <1>1, <2>2, PartOf
  <2> QED BY <2>1, <2>2, <2>3
\* A hop is a redirect of a navigation to the next.
<1>5. ASSUME NEW c \in ToSet(chains), NEW k \in 1 .. N, NEW a \in 1 .. N, NEW b \in a .. N,
             Len(c) = b - a + 1, IsRun(es, nav, a, b),
             \A h \in 1 .. b - a + 1 : c[h] = nav[a + h - 1],
             k < Len(c)
      PROVE  /\ a + k - 1 \in 1 .. N - 1 /\ a + k - 1 \in a .. b
             /\ c[k] = nav[a + k - 1] /\ c[k + 1] = nav[(a + k - 1) + 1]
             /\ Follows(es, c[k], c[k + 1])
  <2>1. /\ k \in 1 .. b - a + 1 /\ k + 1 \in 1 .. b - a + 1 /\ a + (k + 1) - 1 = (a + k - 1) + 1
        /\ a + k - 1 \in a .. b - 1 /\ a + k - 1 \in 1 .. N - 1 /\ a + k - 1 \in a .. b
    BY <1>3, <1>5
  <2>2. c[k] = nav[a + k - 1] /\ c[k + 1] = nav[(a + k - 1) + 1]
    BY <1>5, <2>1
  <2>3. Leads(es, nav, a + k - 1)
    BY <1>5, <2>1 DEF IsRun
  <2> QED BY <2>1, <2>2, <2>3 DEF Leads
<1>6. ASSUME NEW i, NEW j, NEW x \in Hops(i, j)
      PROVE  Follows(es, i, j) /\ \E p \in 1 .. N - 1 : Successive(p, i, j)
  <2>1. x[1] \in ToSet(chains) /\ x[2] \in 1 .. N /\ x[2] < Len(x[1])
        /\ x[1][x[2]] = i /\ x[1][x[2] + 1] = j
    BY <1>3, <1>6
  <2> DEFINE c == x[1]
             k == x[2]
  <2>2. PICK a \in 1 .. N, b \in 1 .. N :
               /\ b \in a .. N /\ Len(c) = b - a + 1 /\ IsRun(es, nav, a, b)
               /\ \A h \in 1 .. b - a + 1 : c[h] = nav[a + h - 1]
    BY <1>4, <2>1
  <2>3. c \in ToSet(chains) /\ k \in 1 .. N /\ k < Len(c) /\ c[k] = i /\ c[k + 1] = j
    BY <2>1
  <2> HIDE DEF c, k, Hops
  <2>4. /\ a + k - 1 \in 1 .. N - 1 /\ c[k] = nav[a + k - 1] /\ c[k + 1] = nav[(a + k - 1) + 1]
        /\ Follows(es, c[k], c[k + 1])
    BY <1>5, <2>2, <2>3
  <2> QED BY <2>3, <2>4
<1>7. ASSUME NEW i, NEW j, NEW p \in 1 .. N - 1, Successive(p, i, j), Follows(es, i, j)
      PROVE  \E x : Hops(i, j) = {x}
  <2>1. p \in 1 .. N /\ Leads(es, nav, p) /\ p + 1 \in 1 .. N /\ p < p + 1
    BY <1>3, <1>7 DEF Leads
  <2>2. PICK c \in ToSet(chains) : nav[p] \in ToSet(c)
    BY <1>2, <2>1 DEF ChainsAreRuns
  <2>3. PICK a \in 1 .. N, b \in 1 .. N :
               /\ a < b /\ b \in a .. N /\ IsRun(es, nav, a, b) /\ c = SubSeq(nav, a, b)
               /\ Len(c) = b - a + 1
               /\ \A h \in 1 .. b - a + 1 : c[h] = nav[a + h - 1]
               /\ \A q \in 1 .. N : nav[q] \in ToSet(c) <=> q \in a .. b
    BY <1>4
  <2>4. p \in a .. b /\ p # b
    BY <2>1, <2>2, <2>3 DEF IsRun
  <2> DEFINE h == p - a + 1
  <2>5. h \in 1 .. b - a + 1 /\ h + 1 \in 1 .. b - a + 1 /\ h < b - a + 1 /\ h \in 1 .. N
        /\ a + h - 1 = p /\ a + (h + 1) - 1 = p + 1
    <3>1. a \in Int /\ b \in Int /\ p \in Int /\ N \in Int
          /\ 1 <= a /\ b <= N /\ a <= p /\ p < b
      BY <1>3, <2>3, <2>4
    <3> HIDE DEF N, Hops, Successive
    <3> QED BY <3>1
  <2> HIDE DEF h
  <2>6. <<c, h>> \in Hops(i, j)
    BY <1>3, <1>7, <2>3, <2>5
  <2>7. ASSUME NEW x \in Hops(i, j) PROVE x = <<c, h>>
    <3>1. x[1] \in ToSet(chains) /\ x[2] \in 1 .. N /\ x[2] < Len(x[1])
          /\ x[1][x[2]] = i /\ x[1][x[2] + 1] = j /\ x = <<x[1], x[2]>>
      BY <1>3, <2>7
    <3>2. PICK u \in 1 .. N, v \in 1 .. N :
               /\ u < v /\ v \in u .. N /\ IsRun(es, nav, u, v) /\ x[1] = SubSeq(nav, u, v)
               /\ Len(x[1]) = v - u + 1
               /\ \A k \in 1 .. v - u + 1 : x[1][k] = nav[u + k - 1]
               /\ \A q \in 1 .. N : nav[q] \in ToSet(x[1]) <=> q \in u .. v
      BY <1>4, <3>1
    <3>3. u + x[2] - 1 \in 1 .. N - 1 /\ u + x[2] - 1 \in u .. v /\ nav[u + x[2] - 1] = i
      <4> DEFINE y == x[1]
                 k == x[2]
      <4>1. y \in ToSet(chains) /\ k \in 1 .. N /\ k < Len(y) /\ y[k] = i
            /\ v \in u .. N /\ IsRun(es, nav, u, v) /\ Len(y) = v - u + 1
            /\ \A l \in 1 .. v - u + 1 : y[l] = nav[u + l - 1]
        BY <3>1, <3>2
      <4> HIDE DEF y, k, Hops
      <4>2. u + k - 1 \in 1 .. N - 1 /\ u + k - 1 \in u .. v /\ nav[u + k - 1] = i
        BY <1>5, <4>1
      <4> QED BY <4>2 DEF k
    <3>4. u + x[2] - 1 = p
      <4>1. u + x[2] - 1 \in 1 .. N /\ nav[u + x[2] - 1] = nav[p]
        BY <1>3, <1>7, <3>3
      <4> QED BY <1>1, <2>1, <4>1 DEF Once
    <3>5. a = u /\ b = v
      BY <1>3, <2>3, <2>4, <3>2, <3>3, <3>4, RunsMeet
    <3>6. x[1] = c
      BY <2>3, <3>2, <3>5
    <3>7. x[2] = h
      <4> DEFINE k == x[2]
      <4>1. k \in Int /\ a \in Int /\ p \in Int /\ a + k - 1 = p
        BY <2>1, <2>3, <3>1, <3>4, <3>5
      <4>2. k = p - a + 1
        <5> HIDE DEF k, N, Hops, Successive
        <5> QED BY <4>1
      <4> QED BY <4>2 DEF h
    <3> QED BY <3>1, <3>6, <3>7
  <2> HIDE DEF Hops
  <2>8. Hops(i, j) = {<<c, h>>}
    BY <2>6, <2>7
  <2> QED BY <2>8
<1>8. Cardinality({}) = 0 /\ \A x : Cardinality({x}) = 1
  BY FS_EmptySet, FS_Singleton
<1>9. ASSUME NEW i \in ToSet(nav), NEW j \in ToSet(nav)
      PROVE  Cardinality(Hops(i, j)) =
               IF Follows(es, i, j) /\ \E p \in 1 .. N - 1 : Successive(p, i, j) THEN 1 ELSE 0
  <2>1. CASE Follows(es, i, j) /\ \E p \in 1 .. N - 1 : Successive(p, i, j)
    <3>1. PICK p \in 1 .. N - 1 : Successive(p, i, j)
      BY <2>1
    <3>2. \E x : Hops(i, j) = {x}
      <4> HIDE DEF Hops, Successive
      <4> QED BY <1>7, <2>1, <3>1
    <3> HIDE DEF Hops, Successive
    <3> QED BY <1>8, <2>1, <3>2
  <2>2. CASE ~(Follows(es, i, j) /\ \E p \in 1 .. N - 1 : Successive(p, i, j))
    <3>1. Hops(i, j) = {}
      BY <1>6, <2>2
    <3> QED BY <1>8, <2>2, <3>1
  <2> QED BY <2>1, <2>2
<1> QED BY <1>9 DEF ChainsAreRedirects, nav, chains

\* Redirect chains of every capture that is recorded.
THEOREM ChainsAreFollowed == Spec => []ChainsFollowRedirects
<1>1. InputsOK => ChainsFollowRedirects
  <2> SUFFICES ASSUME InputsOK, subject = "capture" PROVE ChainsAreRedirects(input)
    BY DEF ChainsFollowRedirects
  <2>1. given \in Kinds /\ input \in Seq(Recorded(given))
    BY DEF InputsOK
  <2>2. Len(input) \in Nat /\ DOMAIN input = 1 .. Len(input)
        /\ \A i \in 1 .. Len(input) : input[i] \in Recorded(given)
    BY <2>1, LenProperties, ElementOfSeq
  <2>3. Timed(input, Len(input))
    BY <2>1, <2>2, RecordedIsEntry DEF Timed
  <2> QED BY <2>3, ChainsFollow
<1> QED BY <1>1, InputsInductive, PTL

---------------------------------------------------------------------------
(* Sequences without repetitions                                           *)

Disjoint(S, T) == S \cap T = {}

LEMMA Elements ==
  ASSUME NEW D, NEW s \in Seq(D)
  PROVE  \A x : x \in ToSet(s) <=> \E i \in 1 .. Len(s) : s[i] = x
<1>1. DOMAIN s = 1 .. Len(s)
  BY LenProperties
<1> QED BY <1>1 DEF ToSet

\* Of sequences that follow each other in one without repetitions, none has any, no
\* two have anything in common, and nothing else is in it.
LEMMA PartsOnce ==
  ASSUME NEW D, NEW c \in Seq(Seq(D)), Once(FlattenSeq(c), D)
  PROVE  /\ \A k \in 1 .. Len(c) : Once(c[k], D)
         /\ \A k, l \in 1 .. Len(c) : \A x : x \in ToSet(c[k]) /\ x \in ToSet(c[l]) => k = l
         /\ \A k \in 1 .. Len(c) : ToSet(c[k]) \subseteq ToSet(FlattenSeq(c))
<1> DEFINE s == FlattenSeq(c)
           n == Len(c)
<1>1. n \in Nat /\ s \in Seq(D) /\ Len(s) \in Nat /\ DOMAIN s = 1 .. Len(s)
      /\ \A k \in 1 .. n : c[k] \in Seq(D) /\ Len(c[k]) \in Nat /\ DOMAIN c[k] = 1 .. Len(c[k])
  BY LenProperties, ElementOfSeq DEF Once
<1>2. PICK p : ArePositions(p, c, s)
  BY FlattenPositions
<1> HIDE DEF s, n
<1>3. /\ p \in [1 .. n + 1 -> Nat]
      /\ \A k \in 1 .. n :
           /\ p[k + 1] = p[k] + Len(c[k])
           /\ p[k + 1] <= Len(s)
           /\ \A j \in 1 .. Len(c[k]) : s[p[k] + j] = c[k][j]
  BY <1>2 DEF ArePositions, n
<1>4. ASSUME NEW k \in 1 .. n, NEW j \in 1 .. Len(c[k])
      PROVE  p[k] + j \in 1 .. Len(s) /\ s[p[k] + j] = c[k][j] /\ p[k] + j <= p[k + 1]
  <2>1. p[k] \in Nat /\ p[k + 1] \in Nat /\ Len(c[k]) \in Nat
        /\ p[k + 1] = p[k] + Len(c[k]) /\ p[k + 1] <= Len(s) /\ s[p[k] + j] = c[k][j]
    BY <1>1, <1>3
  <2> DEFINE a == p[k]
             b == p[k + 1]
             z == Len(c[k])
             l == Len(s)
  <2>2. a \in Nat /\ b = a + z /\ b <= l /\ j \in 1 .. z /\ z \in Nat /\ l \in Nat
    BY <1>1, <2>1
  <2> HIDE DEF a, b, z, l
  <2>3. a + j \in 1 .. l /\ a + j <= b
    BY <2>2
  <2> QED BY <2>1, <2>3 DEF a, b, l
<1>5. \A k, l \in 1 .. n : k < l => p[k + 1] <= p[l]
  <2>1. SUFFICES ASSUME NEW k \in 1 .. n PROVE \A l \in k + 1 .. n : p[k + 1] <= p[l]
    BY <1>1
  <2> DEFINE S == {d \in 0 .. n - (k + 1) : p[k + 1] <= p[k + 1 + d]}
  <2>2. CASE n < k + 1
    BY <1>1, <2>2
  <2>3. CASE k + 1 <= n
    <3>1. n - (k + 1) \in Nat /\ k + 1 \in 1 .. n + 1 /\ p[k + 1] \in Nat
      BY <1>1, <1>3, <2>3
    <3>2. 0 \in S
      BY <3>1
    <3>3. ASSUME NEW d \in 0 .. n - (k + 1) - 1, d \in S PROVE d + 1 \in S
      <4>1. k + 1 + d \in 1 .. n /\ (k + 1 + d) + 1 = k + 1 + (d + 1) /\ d + 1 \in 0 .. n - (k + 1)
            /\ k + 1 + d \in 1 .. n + 1 /\ (k + 1 + d) + 1 \in 1 .. n + 1
        BY <1>1, <3>1
      <4>2. p[k + 1 + d] \in Nat /\ p[(k + 1 + d) + 1] \in Nat /\ Len(c[k + 1 + d]) \in Nat
            /\ p[(k + 1 + d) + 1] = p[k + 1 + d] + Len(c[k + 1 + d])
        BY <1>1, <1>3, <4>1
      <4>3. p[k + 1] <= p[k + 1 + d]
        BY <3>3
      <4> DEFINE a == p[k + 1]
                 b == p[k + 1 + d]
                 e == p[(k + 1 + d) + 1]
                 z == Len(c[k + 1 + d])
      <4>4. a \in Nat /\ b \in Nat /\ z \in Nat /\ e = b + z /\ a <= b
        BY <3>1, <4>2, <4>3
      <4>5. a <= e
        <5> HIDE DEF a, b, e, z
        <5> QED BY <4>4
      <4> QED BY <4>1, <4>5
    <3>4. 0 .. n - (k + 1) \subseteq S
      <4> HIDE DEF S
      <4> QED BY <3>1, <3>2, <3>3, UpTo
    <3>5. \A l \in k + 1 .. n : l - (k + 1) \in 0 .. n - (k + 1) /\ k + 1 + (l - (k + 1)) = l
      BY <1>1
    <3> QED BY <3>4, <3>5
  <2> QED BY <1>1, <2>2, <2>3
<1>6. ASSUME NEW k \in 1 .. n, NEW l \in 1 .. n,
             NEW i \in 1 .. Len(c[k]), NEW j \in 1 .. Len(c[l]), c[k][i] = c[l][j]
      PROVE  k = l /\ i = j
  <2>1. p[k] + i = p[l] + j
    <3>1. p[k] + i \in 1 .. Len(s) /\ s[p[k] + i] = c[k][i]
      BY <1>4
    <3>2. p[l] + j \in 1 .. Len(s) /\ s[p[l] + j] = c[l][j]
      BY <1>4
    <3> QED BY <1>6, <3>1, <3>2 DEF Once, s
  <2>2. p[k] \in Nat /\ p[l] \in Nat /\ p[k + 1] \in Nat /\ p[l + 1] \in Nat
        /\ p[k] + i <= p[k + 1] /\ p[l] + j <= p[l + 1]
    <3>1. k \in 1 .. n + 1 /\ k + 1 \in 1 .. n + 1 /\ l \in 1 .. n + 1 /\ l + 1 \in 1 .. n + 1
      BY <1>1
    <3>2. p[k] \in Nat /\ p[l] \in Nat /\ p[k + 1] \in Nat /\ p[l + 1] \in Nat
      BY <1>3, <3>1
    <3>3. p[k] + i <= p[k + 1]
      BY <1>4
    <3>4. p[l] + j <= p[l + 1]
      BY <1>4
    <3> QED BY <3>2, <3>3, <3>4
  <2>3. ~(k < l)
    <3>1. SUFFICES ASSUME k < l, p[k + 1] <= p[l] PROVE FALSE
      BY <1>5
    <3> QED BY <1>1, <2>1, <2>2, <3>1
  <2>4. ~(l < k)
    <3>1. SUFFICES ASSUME l < k, p[l + 1] <= p[k] PROVE FALSE
      BY <1>5
    <3> QED BY <1>1, <2>1, <2>2, <3>1
  <2>5. k = l
    BY <1>1, <2>3, <2>4
  <2> QED BY <1>1, <2>1, <2>2, <2>5
<1>7. \A k \in 1 .. n : Once(c[k], D)
  BY <1>1, <1>6 DEF Once
<1>8. \A k, l \in 1 .. n : \A x : x \in ToSet(c[k]) /\ x \in ToSet(c[l]) => k = l
  <2>1. ASSUME NEW k \in 1 .. n, NEW l \in 1 .. n, NEW x, x \in ToSet(c[k]), x \in ToSet(c[l])
        PROVE  k = l
    <3>1. c[k] \in Seq(D) /\ c[l] \in Seq(D)
      BY <1>1
    <3>2. PICK i \in 1 .. Len(c[k]) : c[k][i] = x
      BY <2>1, <3>1, Elements
    <3>3. PICK j \in 1 .. Len(c[l]) : c[l][j] = x
      BY <2>1, <3>1, Elements
    <3> QED BY <1>6, <3>2, <3>3
  <2> QED BY <2>1
<1>9. \A k \in 1 .. n : ToSet(c[k]) \subseteq ToSet(s)
  <2>1. ASSUME NEW k \in 1 .. n, NEW x \in ToSet(c[k]) PROVE x \in ToSet(s)
    <3>1. c[k] \in Seq(D)
      BY <1>1
    <3>2. PICK i \in 1 .. Len(c[k]) : c[k][i] = x
      BY <3>1, Elements
    <3>3. \E j \in 1 .. Len(s) : s[j] = x
      BY <1>4, <3>2
    <3> QED BY <1>1, <3>3, Elements
  <2> QED BY <2>1
<1> QED BY <1>7, <1>8, <1>9 DEF n, s

\* A sequence without repetitions is as long as it has elements.
LEMMA OnceCount ==
  ASSUME NEW D, NEW s, Once(s, D)
  PROVE  IsFiniteSet(ToSet(s)) /\ Cardinality(ToSet(s)) = Len(s)
<1> DEFINE n == Len(s)
<1>1. n \in Nat /\ DOMAIN s = 1 .. n /\ s \in [1 .. n -> D]
  BY LenProperties DEF Once
<1>2. s \in Bijection(1 .. n, ToSet(s))
  <2>1. s \in [1 .. n -> ToSet(s)]
    BY <1>1 DEF ToSet
  <2>2. \A y \in ToSet(s) : \E i \in 1 .. n : s[i] = y
    BY <1>1 DEF ToSet
  <2>3. \A i, j \in 1 .. n : s[i] = s[j] => i = j
    BY DEF Once
  <2> HIDE DEF n
  <2> QED BY <1>1, <2>1, <2>2, <2>3 DEF Bijection, Injection, Surjection, IsInjective
<1>3. ExistsBijection(1 .. n, ToSet(s))
  BY <1>2 DEF ExistsBijection
<1>4. IsFiniteSet(1 .. n) /\ Cardinality(1 .. n) = n
  <2>1. 1 \in Int /\ n \in Int /\ (IF 1 > n THEN 0 ELSE n - 1 + 1) = n
    BY <1>1
  <2> QED BY <2>1, FS_Interval
<1> HIDE DEF n
<1> QED BY <1>3, <1>4, FS_Bijection DEF n

LEMMA DisjointCount ==
  ASSUME NEW S, NEW T, IsFiniteSet(S), IsFiniteSet(T), Disjoint(S, T)
  PROVE  IsFiniteSet(S \cup T) /\ Cardinality(S \cup T) = Cardinality(S) + Cardinality(T)
<1>1. IsFiniteSet(S \cup T)
      /\ Cardinality(S \cup T) = Cardinality(S) + Cardinality(T) - Cardinality(S \cap T)
  BY FS_Union
<1>2. Cardinality(S \cap T) = 0
  BY FS_EmptySet DEF Disjoint
<1>3. Cardinality(S) \in Nat /\ Cardinality(T) \in Nat
  BY FS_CardinalityType
<1> QED BY <1>1, <1>2, <1>3

\* One without repetitions after another that has no element of it.
LEMMA OnceConcat ==
  ASSUME NEW D, NEW s, NEW t, Once(s, D), Once(t, D), Disjoint(ToSet(s), ToSet(t))
  PROVE  Once(s \o t, D) /\ \A x : x \in ToSet(s \o t) <=> x \in ToSet(s) \/ x \in ToSet(t)
<1> DEFINE r == s \o t
           m == Len(s)
           n == Len(t)
<1>1. /\ r \in Seq(D) /\ m \in Nat /\ n \in Nat /\ Len(r) = m + n
      /\ \A i \in 1 .. m : r[i] = s[i]
      /\ \A i \in 1 .. n : r[m + i] = t[i]
  BY ConcatAt DEF Once
<1>2. DOMAIN r = 1 .. m + n /\ DOMAIN s = 1 .. m /\ DOMAIN t = 1 .. n
  BY <1>1, LenProperties DEF Once
<1> HIDE DEF r
<1>3. (\A i \in 1 .. m : s[i] \in ToSet(s)) /\ (\A i \in 1 .. n : t[i] \in ToSet(t))
  BY <1>2 DEF ToSet
<1>4. \A i \in 1 .. m + n : i \in 1 .. m \/ (i - m \in 1 .. n /\ m + (i - m) = i)
  BY <1>1
<1>5. \A i \in 1 .. m + n : i \in 1 .. m \/ (i - m \in 1 .. n /\ r[i] = t[i - m])
  BY <1>1, <1>4
<1>6. (\A i, j \in 1 .. m : s[i] = s[j] => i = j) /\ (\A i, j \in 1 .. n : t[i] = t[j] => i = j)
  BY DEF Once
<1>7. ASSUME NEW i \in 1 .. m + n, NEW j \in 1 .. m + n, r[i] = r[j] PROVE i = j
  <2>1. CASE i \in 1 .. m /\ j \in 1 .. m
    BY <1>1, <1>6, <1>7, <2>1
  <2>2. CASE i \in 1 .. m /\ j \notin 1 .. m
    BY <1>1, <1>3, <1>5, <1>7, <2>2 DEF Disjoint
  <2>3. CASE i \notin 1 .. m /\ j \in 1 .. m
    BY <1>1, <1>3, <1>5, <1>7, <2>3 DEF Disjoint
  <2>4. CASE i \notin 1 .. m /\ j \notin 1 .. m
    <3>1. i - m \in 1 .. n /\ j - m \in 1 .. n /\ t[i - m] = t[j - m]
      BY <1>5, <1>7, <2>4
    <3>2. i - m = j - m
      BY <1>6, <3>1
    <3> QED BY <1>1, <3>2
  <2> QED BY <2>1, <2>2, <2>3, <2>4
<1>8. \A x : x \in ToSet(r) <=> x \in ToSet(s) \/ x \in ToSet(t)
  <2>1. ASSUME NEW x \in ToSet(r) PROVE x \in ToSet(s) \cup ToSet(t)
    <3>1. PICK i \in 1 .. m + n : r[i] = x
      BY <1>1, Elements
    <3> QED BY <1>1, <1>3, <1>5, <3>1
  <2>2. ASSUME NEW x \in ToSet(s) PROVE x \in ToSet(r)
    <3>1. PICK i \in 1 .. m : s[i] = x
      BY Elements DEF Once
    <3>2. i \in 1 .. m + n /\ r[i] = x
      BY <1>1, <3>1
    <3> QED BY <1>1, <3>2, Elements
  <2>3. ASSUME NEW x \in ToSet(t) PROVE x \in ToSet(r)
    <3>1. PICK i \in 1 .. n : t[i] = x
      BY Elements DEF Once
    <3>2. m + i \in 1 .. m + n /\ r[m + i] = x
      BY <1>1, <3>1
    <3> QED BY <1>1, <3>2, Elements
  <2> QED BY <2>1, <2>2, <2>3
<1> QED BY <1>1, <1>7, <1>8 DEF Once, r

---------------------------------------------------------------------------
(* What is told, counted                                                   *)

LEMMA TotalLoop ==
  ASSUME NEW s \in Seq(Nat)
  PROVE  \E f : /\ f[0] = 0
                /\ \A m \in 1 .. Len(s) : f[m - 1] \in Nat /\ f[m] = f[m - 1] + s[m]
                /\ Total(s) = f[Len(s)]
<1> DEFINE n == Len(s)
           E(f, m) == IF m = 0 THEN 0 ELSE f[m - 1] + s[m]
           Solves(f) == f = [m \in 0 .. n |-> E(f, m)]
           step == [p \in Nat \X (1 .. n) |-> p[1] + s[p[2]]]
<1>1. n \in Nat /\ \A m \in 1 .. n : s[m] \in Nat
  BY LenProperties
<1>2. Total(s) = (CHOOSE f : Solves(f))[n]
  BY DEF Total
<1> HIDE DEF n
<1>3. /\ step \in [Nat \X (1 .. n) -> Nat]
      /\ \A t \in Nat, m \in 1 .. n : step[<<t, m>>] = t + s[m]
  <2>1. \A t \in Nat, m \in 1 .. n : t + s[m] \in Nat
    BY <1>1
  <2> QED BY <2>1
<1> HIDE DEF step
<1>4. PICK f : IsLoop(f, Nat, n, 0, step)
  BY <1>1, <1>3, LoopExists
<1>5. f \in [0 .. n -> Nat] /\ f[0] = 0 /\ \A m \in 1 .. n : f[m] = step[<<f[m - 1], m>>]
  BY <1>4 DEF IsLoop
<1>6. \A m \in 1 .. n : m \in 0 .. n /\ m - 1 \in 0 .. n /\ m # 0
  BY <1>1
<1>7. \A m \in 1 .. n : f[m - 1] \in Nat /\ f[m] = f[m - 1] + s[m]
  BY <1>3, <1>5, <1>6
<1>8. Solves(f)
  <2>1. ASSUME NEW m \in 0 .. n PROVE f[m] = E(f, m)
    <3>1. m = 0 \/ m \in 1 .. n
      BY <1>1
    <3> QED BY <1>5, <1>6, <1>7, <3>1
  <2>2. f = [m \in 0 .. n |-> f[m]]
    BY <1>5
  <2> HIDE DEF E
  <2> QED BY <2>1, <2>2
<1> DEFINE g == CHOOSE h : Solves(h)
<1>9. Solves(g)
  <2> HIDE DEF Solves
  <2> QED BY <1>8
<1>10. Total(s) = g[n]
  BY <1>2
<1> HIDE DEF g
<1>11. \A m \in 0 .. n : g[m] = E(g, m)
  <2> HIDE DEF E
  <2> QED BY <1>9
<1>12. g[0] = 0 /\ \A m \in 1 .. n : g[m] = g[m - 1] + s[m]
  <2>1. 0 \in 0 .. n
    BY <1>1
  <2> QED BY <1>6, <1>11, <2>1
<1> DEFINE S == {m \in 0 .. n : g[m] \in Nat}
<1>13. 0 \in S
  BY <1>1, <1>12
<1>14. ASSUME NEW m \in 0 .. n - 1, m \in S PROVE m + 1 \in S
  <2>1. m + 1 \in 1 .. n /\ m + 1 \in 0 .. n /\ (m + 1) - 1 = m
    BY <1>1
  <2>2. g[m + 1] = g[m] + s[m + 1] /\ g[m] \in Nat /\ s[m + 1] \in Nat
    BY <1>1, <1>12, <1>14, <2>1
  <2>3. g[m] + s[m + 1] \in Nat
    BY <2>2
  <2> QED BY <2>1, <2>2, <2>3
<1>15. 0 .. n \subseteq S
  <2> HIDE DEF S
  <2> QED BY <1>1, <1>13, <1>14, UpTo
<1>16. \A m \in 1 .. n : g[m - 1] \in Nat /\ g[m] = g[m - 1] + s[m]
  BY <1>6, <1>12, <1>15
<1> QED BY <1>10, <1>12, <1>16 DEF n

\* The first m of c, and one more.
LEMMA FlattenNext ==
  ASSUME NEW D, NEW c \in Seq(Seq(D)), NEW m \in 0 .. Len(c) - 1
  PROVE  /\ c[m + 1] \in Seq(D)
         /\ FlattenSeq(SubSeq(c, 1, m + 1)) = FlattenSeq(SubSeq(c, 1, m)) \o c[m + 1]
<1> DEFINE A == Seq(D)
<1>1. Len(c) \in Nat /\ \A k \in 1 .. Len(c) : c[k] \in A
  BY LenProperties, ElementOfSeq
<1>2. m \in Int /\ 1 \in Int /\ m + 1 \in 1 .. Len(c) /\ (m + 1) - 1 = m /\ 1 \in 1 .. Len(c)
      /\ m + 1 \in 1 .. Len(c) /\ \A k \in 1 .. m : k \in 1 .. Len(c)
  BY <1>1
<1>3. c \in Seq(A)
  OBVIOUS
<1> HIDE DEF A
<1>4. SubSeq(c, 1, m) \in Seq(A)
  BY <1>1, <1>2, SubSeqProperties
<1>5. SubSeq(c, 1, m + 1) = SubSeq(c, 1, m) \o <<c[m + 1]>>
  BY <1>2, <1>3, SubSeqRecursiveSecond
<1>6. SubSeq(c, 1, m + 1) = Append(SubSeq(c, 1, m), c[m + 1])
  BY <1>1, <1>2, <1>4, <1>5, AppendIsConcat
<1> QED BY <1>1, <1>2, <1>4, <1>6, FlattenAppend DEF A

\* Parts with hops and repetitions, of which some are named and the others counted.
AreTold(E, P, A, M, D) ==
  LET n == Len(E) IN
  /\ E \in Seq(Seq(D)) /\ P \in Seq(Seq(D)) /\ A \in Seq(Seq(D)) /\ M \in Seq(Nat)
  /\ Len(P) = n /\ Len(A) = n /\ Len(M) = n
  /\ \A k \in 1 .. n :
       /\ Once(E[k], D) /\ Once(P[k], D) /\ Once(A[k], D)
       /\ ToSet(A[k]) \subseteq ToSet(P[k])
       /\ Len(A[k]) + M[k] = Len(P[k])
       /\ Disjoint(ToSet(E[k]), ToSet(P[k]))
  /\ \A k, l \in 1 .. n : \A x :
       (x \in ToSet(E[k]) \cup ToSet(P[k])) /\ (x \in ToSet(E[l]) \cup ToSet(P[l])) => k = l

ToldBy(E, P, m) == UNION {ToSet(E[k]) \cup ToSet(P[k]) : k \in 1 .. m}

\* What is told up to the m-th part, if t is counted.
Tallied(E, P, A, t, m, D) ==
  LET hops == FlattenSeq(SubSeq(E, 1, m))
      named == FlattenSeq(SubSeq(A, 1, m))
  IN /\ Once(hops, D) /\ Once(named, D)
     /\ Disjoint(ToSet(hops), ToSet(named))
     /\ ToSet(hops) \cup ToSet(named) \subseteq ToldBy(E, P, m)
     /\ IsFiniteSet(ToldBy(E, P, m))
     /\ t \in Nat
     /\ Len(hops) + Len(named) + t = Cardinality(ToldBy(E, P, m))

LEMMA TallyOneMore ==
  ASSUME NEW D, NEW E, NEW P, NEW A, NEW M, AreTold(E, P, A, M, D),
         NEW m \in 0 .. Len(E) - 1, NEW t, Tallied(E, P, A, t, m, D)
  PROVE  Tallied(E, P, A, t + M[m + 1], m + 1, D)
<1> DEFINE n == Len(E)
           e == E[m + 1]
           p == P[m + 1]
           a == A[m + 1]
           hops == FlattenSeq(SubSeq(E, 1, m))
           named == FlattenSeq(SubSeq(A, 1, m))
           U == ToldBy(E, P, m)
           V == ToSet(e) \cup ToSet(p)
<1>1. n \in Nat /\ m \in Nat /\ m + 1 \in 1 .. n /\ \A k \in 1 .. m : k \in 1 .. n /\ k # m + 1
  BY LenProperties DEF AreTold
<1>2. /\ FlattenSeq(SubSeq(E, 1, m + 1)) = hops \o e
      /\ FlattenSeq(SubSeq(A, 1, m + 1)) = named \o a
  BY FlattenNext DEF AreTold
<1>3. /\ Once(e, D) /\ Once(p, D) /\ Once(a, D) /\ ToSet(a) \subseteq ToSet(p)
      /\ Len(a) + M[m + 1] = Len(p) /\ M[m + 1] \in Nat
      /\ Disjoint(ToSet(e), ToSet(p))
  BY <1>1, ElementOfSeq DEF AreTold
<1>4. Disjoint(U, V)
  <2>1. ASSUME NEW x \in U, x \in V PROVE FALSE
    <3>1. PICK k \in 1 .. m : x \in ToSet(E[k]) \cup ToSet(P[k])
      BY <2>1 DEF ToldBy
    <3> QED BY <1>1, <2>1, <3>1 DEF AreTold
  <2> QED BY <2>1 DEF Disjoint
<1>5. ToldBy(E, P, m + 1) = U \cup V
  <2>1. \A k : k \in 1 .. m + 1 <=> k \in 1 .. m \/ k = m + 1
    BY <1>1
  <2> QED BY <2>1 DEF ToldBy
<1>6. /\ Once(hops, D) /\ Once(named, D)
      /\ Disjoint(ToSet(hops), ToSet(named))
      /\ ToSet(hops) \subseteq U /\ ToSet(named) \subseteq U
      /\ IsFiniteSet(U) /\ t \in Nat
      /\ Len(hops) + Len(named) + t = Cardinality(U)
  BY DEF Tallied
<1> HIDE DEF e, p, a, hops, named, U
<1>7. Once(hops \o e, D) /\ \A x : x \in ToSet(hops \o e) <=> x \in ToSet(hops) \/ x \in ToSet(e)
  <2>1. Disjoint(ToSet(hops), ToSet(e))
    BY <1>4, <1>6 DEF Disjoint
  <2> HIDE DEF V
  <2>2. Once(hops, D) /\ Once(e, D)
    BY <1>3, <1>6
  <2>3. Once(hops \o e, D)
    BY <2>1, <2>2, OnceConcat
  <2>4. \A x : x \in ToSet(hops \o e) <=> x \in ToSet(hops) \/ x \in ToSet(e)
    BY <2>1, <2>2, OnceConcat
  <2> QED BY <2>3, <2>4
<1>8. Once(named \o a, D) /\ \A x : x \in ToSet(named \o a) <=> x \in ToSet(named) \/ x \in ToSet(a)
  <2>1. Disjoint(ToSet(named), ToSet(a))
    BY <1>3, <1>4, <1>6 DEF Disjoint
  <2> HIDE DEF V
  <2>2. Once(named, D) /\ Once(a, D)
    BY <1>3, <1>6
  <2>3. Once(named \o a, D)
    BY <2>1, <2>2, OnceConcat
  <2>4. \A x : x \in ToSet(named \o a) <=> x \in ToSet(named) \/ x \in ToSet(a)
    BY <2>1, <2>2, OnceConcat
  <2> QED BY <2>3, <2>4
<1>9. Disjoint(ToSet(hops \o e), ToSet(named \o a))
  BY <1>3, <1>4, <1>6, <1>7, <1>8 DEF Disjoint
<1>10. ToSet(hops \o e) \cup ToSet(named \o a) \subseteq U \cup V
  BY <1>3, <1>6, <1>7, <1>8
<1>11. IsFiniteSet(V) /\ Cardinality(V) = Len(e) + Len(p)
  <2>1. IsFiniteSet(ToSet(e)) /\ IsFiniteSet(ToSet(p))
        /\ Cardinality(ToSet(e)) = Len(e) /\ Cardinality(ToSet(p)) = Len(p)
    BY <1>3, OnceCount
  <2>2. IsFiniteSet(ToSet(e) \cup ToSet(p))
    BY <1>3, <2>1, DisjointCount
  <2>3. Cardinality(ToSet(e) \cup ToSet(p)) = Cardinality(ToSet(e)) + Cardinality(ToSet(p))
    BY <1>3, <2>1, DisjointCount
  <2> QED BY <2>1, <2>2, <2>3
<1> HIDE DEF V
<1>12. IsFiniteSet(U \cup V) /\ Cardinality(U \cup V) = Cardinality(U) + Cardinality(V)
  BY <1>4, <1>6, <1>11, DisjointCount
<1>13. /\ Len(hops \o e) = Len(hops) + Len(e) /\ Len(named \o a) = Len(named) + Len(a)
       /\ Len(hops) \in Nat /\ Len(e) \in Nat /\ Len(named) \in Nat /\ Len(a) \in Nat /\ Len(p) \in Nat
  BY <1>3, <1>6, ConcatLen, LenProperties DEF Once
<1>14. t + M[m + 1] \in Nat
       /\ Len(hops \o e) + Len(named \o a) + (t + M[m + 1]) = Cardinality(U \cup V)
  <2> DEFINE u == Cardinality(U)
             w == Cardinality(U \cup V)
             more == M[m + 1]
             he == Len(hops \o e)
             na == Len(named \o a)
  <2>1. /\ w = u + (Len(e) + Len(p)) /\ Len(hops) + Len(named) + t = u
        /\ he = Len(hops) + Len(e) /\ na = Len(named) + Len(a) /\ Len(a) + more = Len(p)
    BY <1>3, <1>6, <1>11, <1>12, <1>13
  <2>2. more \in Nat /\ t \in Nat
    BY <1>3, <1>6
  <2>5. u \in Nat /\ w \in Nat
    BY <1>6, <1>12, FS_CardinalityType
  <2> DEFINE h == Len(hops)
             o == Len(named)
             ee == Len(e)
             aa == Len(a)
             pp == Len(p)
  <2>4. /\ w = u + (ee + pp) /\ h + o + t = u /\ he = h + ee /\ na = o + aa /\ aa + more = pp
         /\ h \in Nat /\ o \in Nat /\ ee \in Nat /\ aa \in Nat /\ pp \in Nat
    BY <1>13, <2>1
  <2> HIDE DEF u, w, more, he, na, h, o, ee, aa, pp
  <2>3. t + more \in Nat /\ he + na + (t + more) = w
    BY <2>2, <2>5, <2>4
  <2> QED BY <2>3 DEF w, more, he, na
<1> QED BY <1>2, <1>5, <1>7, <1>8, <1>9, <1>10, <1>12, <1>14 DEF Tallied, hops, named, e, a, U

\* Nothing is told twice, and every one is told or counted.
LEMMA Tally ==
  ASSUME NEW D, NEW E, NEW P, NEW A, NEW M, AreTold(E, P, A, M, D)
  PROVE  LET hops == FlattenSeq(E)
             named == FlattenSeq(A)
         IN  /\ Once(hops \o named, D)
             /\ ToSet(hops \o named) \subseteq ToldBy(E, P, Len(E))
             /\ IsFiniteSet(ToldBy(E, P, Len(E)))
             /\ Len(hops) + Len(named) + Total(M) = Cardinality(ToldBy(E, P, Len(E)))
<1> DEFINE n == Len(E)
<1>1. n \in Nat
  BY LenProperties DEF AreTold
<1>2. PICK f : /\ f[0] = 0
               /\ \A m \in 1 .. n : f[m - 1] \in Nat /\ f[m] = f[m - 1] + M[m]
               /\ Total(M) = f[n]
  <2>1. M \in Seq(Nat) /\ Len(M) = n
    BY DEF AreTold
  <2>2. \E f : /\ f[0] = 0
               /\ \A m \in 1 .. Len(M) : f[m - 1] \in Nat /\ f[m] = f[m - 1] + M[m]
               /\ Total(M) = f[Len(M)]
    BY <2>1, TotalLoop
  <2> QED BY <2>1, <2>2
<1> DEFINE Good(m) == Tallied(E, P, A, f[m], m, D)
           S == {m \in 0 .. n : Good(m)}
<1>3. 0 \in S
  <2>1. SubSeq(E, 1, 0) = <<>> /\ SubSeq(A, 1, 0) = <<>> /\ FlattenSeq(<<>>) = <<>>
    BY SubSeqEmpty DEF FlattenSeq
  <2>2. Len(<<>>) = 0 /\ ToSet(<<>>) = {} /\ Once(<<>>, D)
    BY EmptySeq DEF ToSet, Once, Disjoint
  <2>3. ToldBy(E, P, 0) = {}
    BY DEF ToldBy
  <2>4. Cardinality({}) = 0 /\ IsFiniteSet({})
    BY FS_EmptySet
  <2>5. f[0] = 0 /\ 0 \in Nat /\ 0 + 0 + 0 = 0
    BY <1>2
  <2>6. Tallied(E, P, A, 0, 0, D)
    <3> DEFINE none == <<>>
    <3>1. FlattenSeq(SubSeq(E, 1, 0)) = none /\ FlattenSeq(SubSeq(A, 1, 0)) = none
      BY <2>1
    <3>2. Len(none) = 0 /\ ToSet(none) = {} /\ Once(none, D)
      BY <2>2
    <3> HIDE DEF none
    <3> QED BY <2>3, <2>4, <2>5, <3>1, <3>2 DEF Tallied, Disjoint
  <2>7. Good(0)
    BY <2>5, <2>6
  <2> HIDE DEF Good
  <2> QED BY <1>1, <2>7
<1>4. ASSUME NEW m \in 0 .. n - 1, m \in S PROVE m + 1 \in S
  <2>1. m + 1 \in 1 .. n /\ m + 1 \in 0 .. n /\ (m + 1) - 1 = m
    BY <1>1
  <2>2. f[m + 1] = f[m] + M[m + 1] /\ Good(m)
    BY <1>2, <1>4, <2>1
  <2>3. Good(m + 1)
    BY <2>2, TallyOneMore
  <2> HIDE DEF Good
  <2> QED BY <2>1, <2>3
<1>5. 0 .. n \subseteq S
  <2> HIDE DEF S
  <2> QED BY <1>1, <1>3, <1>4, UpTo
<1>6. Good(n)
  <2> HIDE DEF Good
  <2> QED BY <1>1, <1>5
<1>7. SubSeq(E, 1, n) = E /\ SubSeq(A, 1, n) = A
  BY SubSeqFull DEF AreTold
<1> DEFINE hops == FlattenSeq(E)
           named == FlattenSeq(A)
<1>8. /\ Once(hops, D) /\ Once(named, D)
      /\ Disjoint(ToSet(hops), ToSet(named))
      /\ ToSet(hops) \cup ToSet(named) \subseteq ToldBy(E, P, n)
      /\ IsFiniteSet(ToldBy(E, P, n))
      /\ Len(hops) + Len(named) + Total(M) = Cardinality(ToldBy(E, P, n))
  BY <1>2, <1>6, <1>7 DEF Tallied
<1> HIDE DEF hops, named, n, Good
<1>9. Once(hops \o named, D) /\ \A x : x \in ToSet(hops \o named) <=> x \in ToSet(hops) \/ x \in ToSet(named)
  <2>1. Once(hops, D) /\ Once(named, D) /\ Disjoint(ToSet(hops), ToSet(named))
    BY <1>8
  <2>2. Once(hops \o named, D)
    BY <2>1, OnceConcat
  <2>3. \A x : x \in ToSet(hops \o named) <=> x \in ToSet(hops) \/ x \in ToSet(named)
    BY <2>1, OnceConcat
  <2> QED BY <2>2, <2>3
<1> QED BY <1>8, <1>9 DEF hops, named, n

---------------------------------------------------------------------------
(* Runs of matching bodies                                                 *)

\* Occurrences that all got the answer the first one got.
IsRunOfOne(es, run) ==
  run # <<>> /\ \A m \in 2 .. Len(run) : BodiesMatch(es[run[1]].body, es[run[m]].body)

AreRuns(es, runs) == \A k \in 1 .. Len(runs) : IsRunOfOne(es, runs[k])

LEMMA AddToRunsKeeps ==
  ASSUME NEW es, NEW D, NEW rs \in Seq(Seq(D)), AreRuns(es, rs), NEW i \in D
  PROVE  LET d == AddToRuns(es, rs, i)
         IN  /\ d \in Seq(Seq(D))
             /\ AreRuns(es, d)
             /\ FlattenSeq(d) = Append(FlattenSeq(rs), i)
<1> DEFINE d == AddToRuns(es, rs, i)
           l == Len(rs)
           c == rs[l]
           joins == BodiesMatch(es[c[1]].body, es[i].body)
<1>1. l \in Nat /\ \A k \in 1 .. l : rs[k] \in Seq(D) /\ rs[k] # <<>> /\ IsRunOfOne(es, rs[k])
  BY LenProperties, ElementOfSeq DEF AreRuns, IsRunOfOne
<1>2. \A k \in 1 .. l : Len(rs[k]) \in Nat \ {0}
  BY <1>1, EmptySeq
<1>3. CASE rs # <<>> /\ joins
  <2>1. l \in 1 .. l
    BY <1>1, <1>3, EmptySeq
  <2>2. d = [rs EXCEPT ![l] = Append(c, i)]
    BY <1>3 DEF AddToRuns, Last
  <2>3. d = [rs EXCEPT ![Len(rs)] = Append(@, i)]
    BY <1>3 DEF AddToRuns, Last
  <2>4. d \in Seq(Seq(D)) /\ FlattenSeq(d) = Append(FlattenSeq(rs), i)
    <3>1. rs \in Seq(Seq(D)) /\ rs # <<>>
      BY <1>3
    <3> HIDE DEF d, l
    <3> QED BY <2>3, <3>1, FlattenGrow
  <2>5. c \in Seq(D) /\ c # <<>> /\ Len(c) \in Nat \ {0} /\ IsRunOfOne(es, c)
    BY <1>1, <1>2, <2>1
  <2> DEFINE e == Append(c, i)
  <2>6. e \in Seq(D) /\ Len(e) = Len(c) + 1 /\ e[Len(c) + 1] = i /\ \A m \in 1 .. Len(c) : e[m] = c[m]
    BY <2>5, AppendProperties
  <2>7. Len(d) = l /\ d[l] = e /\ \A k \in 1 .. l - 1 : d[k] = rs[k]
    <3>1. rs \in Seq(Seq(D)) /\ l = Len(rs) /\ d = [rs EXCEPT ![l] = e]
      BY <2>2
    <3> HIDE DEF d, l, e
    <3>2. Len(d) = l /\ \A k \in 1 .. l : d[k] = IF k = l THEN e ELSE rs[k]
      BY <2>1, <2>6, <3>1, ExceptSeq
    <3> QED BY <1>1, <2>1, <3>2
  <2>8. BodiesMatch(es[c[1]].body, es[i].body)
    BY <1>3
  <2> HIDE DEF d, e, l, c, joins
  <2>9. IsRunOfOne(es, e)
    <3>1. e # <<>> /\ e[1] = c[1]
      BY <2>5, <2>6, EmptySeq
    <3>2. ASSUME NEW m \in 2 .. Len(e) PROVE BodiesMatch(es[e[1]].body, es[e[m]].body)
      <4>1. m = Len(c) + 1 \/ (m \in 2 .. Len(c) /\ m \in 1 .. Len(c))
        BY <2>5, <2>6
      <4>2. CASE m = Len(c) + 1
        BY <2>6, <2>8, <3>1, <4>2
      <4>3. CASE m \in 2 .. Len(c) /\ m \in 1 .. Len(c)
        BY <2>5, <2>6, <3>1, <4>3 DEF IsRunOfOne
      <4> QED BY <4>1, <4>2, <4>3
    <3> QED BY <3>1, <3>2 DEF IsRunOfOne
  <2>10. ASSUME NEW k \in 1 .. l PROVE IsRunOfOne(es, d[k])
    <3>1. k = l \/ k \in 1 .. l - 1
      BY <1>1
    <3> QED BY <1>1, <2>7, <2>9, <3>1
  <2> QED BY <2>4, <2>7, <2>10 DEF AreRuns, d
<1>4. CASE ~(rs # <<>> /\ joins)
  <2> DEFINE e == <<i>>
  <2>1. d = Append(rs, e)
    BY <1>4 DEF AddToRuns, Last
  <2>2. e \in Seq(D) /\ Len(e) = 1 /\ e # <<>> /\ rs \in Seq(Seq(D))
    OBVIOUS
  <2>3. IsRunOfOne(es, e)
    BY <2>2 DEF IsRunOfOne
  <2> HIDE DEF d, e
  <2>4. d \in Seq(Seq(D)) /\ Len(d) = l + 1 /\ d[l + 1] = e /\ \A k \in 1 .. l : d[k] = rs[k]
    BY <2>1, <2>2, AppendProperties
  <2>5. FlattenSeq(d) = Append(FlattenSeq(rs), i)
    <3>1. FlattenSeq(rs) \in Seq(D) /\ FlattenSeq(d) = FlattenSeq(rs) \o e
      BY <2>1, <2>2, FlattenAppend
    <3> QED BY <3>1, AppendIsConcat DEF e
  <2>6. ASSUME NEW k \in 1 .. l + 1 PROVE IsRunOfOne(es, d[k])
    <3>1. k = l + 1 \/ k \in 1 .. l
      BY <1>1
    <3> QED BY <1>1, <2>3, <2>4, <3>1
  <2> QED BY <2>4, <2>5, <2>6 DEF AreRuns, d
<1> QED BY <1>3, <1>4 DEF d

LEMMA RunsLoop ==
  ASSUME NEW es, NEW D, NEW s \in Seq(D)
  PROVE  \E f : /\ f[0] = <<>>
                /\ \A m \in 1 .. Len(s) : f[m] = AddToRuns(es, f[m - 1], s[m])
                /\ RunsOf(es, s) = f[Len(s)]
<1> DEFINE n == Len(s)
           A == {rs \in Seq(Seq(D)) : AreRuns(es, rs)}
           E(f, m) == IF m = 0 THEN <<>> ELSE AddToRuns(es, f[m - 1], s[m])
           Solves(f) == f = [m \in 0 .. n |-> E(f, m)]
           step == [p \in A \X (1 .. n) |-> AddToRuns(es, p[1], s[p[2]])]
<1>1. n \in Nat /\ <<>> \in A
  BY LenProperties, EmptySeq DEF AreRuns
<1>2. RunsOf(es, s) = (CHOOSE f : Solves(f))[n]
  BY DEF RunsOf
<1>3. \A rs \in A, m \in 1 .. n : AddToRuns(es, rs, s[m]) \in A
  <2>1. ASSUME NEW rs \in A, NEW m \in 1 .. n PROVE AddToRuns(es, rs, s[m]) \in A
    <3>1. rs \in Seq(Seq(D)) /\ AreRuns(es, rs) /\ s[m] \in D
      BY ElementOfSeq
    <3> QED BY <3>1, AddToRunsKeeps
  <2> HIDE DEF A
  <2> QED BY <2>1
<1> HIDE DEF n
<1> HIDE DEF A
<1>4. /\ step \in [A \X (1 .. n) -> A]
      /\ \A rs \in A, m \in 1 .. n : step[<<rs, m>>] = AddToRuns(es, rs, s[m])
  BY <1>3
<1> HIDE DEF step
<1>5. PICK f : IsLoop(f, A, n, <<>>, step)
  BY <1>1, <1>4, LoopExists
<1>6. f \in [0 .. n -> A] /\ f[0] = <<>> /\ \A m \in 1 .. n : f[m] = step[<<f[m - 1], m>>]
  BY <1>5 DEF IsLoop
<1>7. \A m \in 1 .. n : m \in 0 .. n /\ m - 1 \in 0 .. n /\ m # 0
  BY <1>1
<1>8. \A m \in 1 .. n : f[m] = AddToRuns(es, f[m - 1], s[m])
  BY <1>4, <1>6, <1>7
<1>9. Solves(f)
  <2>1. ASSUME NEW m \in 0 .. n PROVE f[m] = E(f, m)
    <3>1. m = 0 \/ m \in 1 .. n
      BY <1>1
    <3> QED BY <1>6, <1>7, <1>8, <3>1
  <2>2. f = [m \in 0 .. n |-> f[m]]
    BY <1>6
  <2> HIDE DEF E
  <2> QED BY <2>1, <2>2
<1> DEFINE g == CHOOSE h : Solves(h)
<1>10. Solves(g)
  <2> HIDE DEF Solves
  <2> QED BY <1>9
<1>11. RunsOf(es, s) = g[n]
  BY <1>2
<1> HIDE DEF g
<1>12. \A m \in 0 .. n : g[m] = E(g, m)
  <2> HIDE DEF E
  <2> QED BY <1>10
<1>13. g[0] = <<>> /\ \A m \in 1 .. n : g[m] = AddToRuns(es, g[m - 1], s[m])
  <2>1. 0 \in 0 .. n
    BY <1>1
  <2> QED BY <1>7, <1>12, <2>1
<1> QED BY <1>11, <1>13 DEF n

\* The runs of some occurrences are these, in their order, cut where the answer changes.
LEMMA RunsAreRuns ==
  ASSUME NEW es, NEW D, NEW s \in Seq(D)
  PROVE  /\ RunsOf(es, s) \in Seq(Seq(D))
         /\ AreRuns(es, RunsOf(es, s))
         /\ FlattenSeq(RunsOf(es, s)) = s
<1> DEFINE n == Len(s)
<1>1. n \in Nat /\ \A m \in 1 .. n : s[m] \in D
  BY LenProperties, ElementOfSeq
<1>2. PICK f : /\ f[0] = <<>>
               /\ \A m \in 1 .. Len(s) : f[m] = AddToRuns(es, f[m - 1], s[m])
               /\ RunsOf(es, s) = f[Len(s)]
  BY RunsLoop
<1> DEFINE Good(m) == /\ f[m] \in Seq(Seq(D))
                      /\ AreRuns(es, f[m])
                      /\ FlattenSeq(f[m]) = SubSeq(s, 1, m)
           S == {m \in 0 .. n : Good(m)}
<1>3. 0 \in S
  <2>1. <<>> \in Seq(Seq(D)) /\ AreRuns(es, <<>>)
    BY EmptySeq DEF AreRuns
  <2>2. FlattenSeq(<<>>) = <<>> /\ SubSeq(s, 1, 0) = <<>>
    BY SubSeqEmpty DEF FlattenSeq
  <2>3. Good(0)
    BY <1>2, <2>1, <2>2
  <2> HIDE DEF Good
  <2> QED BY <1>1, <2>3
<1>4. ASSUME NEW m \in 0 .. n - 1, m \in S PROVE m + 1 \in S
  <2>1. m \in Int /\ m + 1 \in 1 .. n /\ m + 1 \in 0 .. n /\ (m + 1) - 1 = m /\ 1 \in 1 .. n
    BY <1>1
  <2>2. f[m + 1] = AddToRuns(es, f[m], s[m + 1]) /\ s[m + 1] \in D
    BY <1>1, <1>2, <2>1
  <2>3. Good(m)
    BY <1>4
  <2>4. /\ f[m + 1] \in Seq(Seq(D)) /\ AreRuns(es, f[m + 1])
        /\ FlattenSeq(f[m + 1]) = Append(FlattenSeq(f[m]), s[m + 1])
    <3> DEFINE rs == f[m]
               i == s[m + 1]
               d == AddToRuns(es, rs, i)
    <3>1. rs \in Seq(Seq(D)) /\ AreRuns(es, rs) /\ i \in D /\ f[m + 1] = d
      BY <2>2, <2>3
    <3> HIDE DEF rs, i
    <3>2. d \in Seq(Seq(D))
      BY <3>1, AddToRunsKeeps
    <3>3. AreRuns(es, d)
      BY <3>1, AddToRunsKeeps
    <3>4. FlattenSeq(d) = Append(FlattenSeq(rs), i)
      BY <3>1, AddToRunsKeeps
    <3> QED BY <3>1, <3>2, <3>3, <3>4 DEF rs, i
  <2>5. SubSeq(s, 1, m + 1) = Append(SubSeq(s, 1, m), s[m + 1])
    <3>1. m + 1 \in 1 .. n
      BY <2>1
    <3>2. SubSeq(s, 1, m + 1) = SubSeq(s, 1, m) \o <<s[m + 1]>>
      BY <2>1, <3>1, SubSeqRecursiveSecond
    <3>3. SubSeq(s, 1, m) \in Seq(D)
      <4>1. \A j \in 1 .. m : s[j] \in D
        BY <1>1, <2>1
      <4> QED BY <2>1, <4>1, SubSeqProperties
    <3> QED BY <2>2, <3>2, <3>3, AppendIsConcat
  <2>6. Good(m + 1)
    BY <2>3, <2>4, <2>5
  <2> HIDE DEF Good
  <2> QED BY <2>1, <2>6
<1>5. 0 .. n \subseteq S
  <2> HIDE DEF S, n
  <2> QED BY <1>1, <1>3, <1>4, UpTo
<1>6. Good(n)
  <2> HIDE DEF Good
  <2> QED BY <1>1, <1>5
<1> QED BY <1>2, <1>6, SubSeqFull

---------------------------------------------------------------------------
(* The order of time                                                       *)

\* Every entry comes before those after it.
Ordered(es, s, D) == s \in Seq(D) /\ \A k, l \in 1 .. Len(s) : k < l => Before(es, s[k], s[l])

LEMMA OrderedOnce ==
  ASSUME NEW es, NEW n, Timed(es, n), NEW s, Ordered(es, s, 1 .. n)
  PROVE  Once(s, 1 .. n)
<1> DEFINE D == 1 .. n
<1>1. s \in Seq(D) /\ Len(s) \in Nat /\ \A k \in 1 .. Len(s) : s[k] \in D
  BY LenProperties, ElementOfSeq DEF Ordered
<1>2. \A i \in D : ~Before(es, i, i)
  BY BeforeIsOrder
<1> HIDE DEF D
<1>3. \A k, l \in 1 .. Len(s) : k < l => s[k] # s[l]
  BY <1>1, <1>2 DEF Ordered
<1>4. \A k, l \in 1 .. Len(s) : k < l \/ l < k \/ k = l
  BY <1>1
<1>5. \A k, l \in 1 .. Len(s) : s[k] = s[l] => k = l
  BY <1>3, <1>4
<1> QED BY <1>1, <1>5 DEF Once, D

LEMMA ByTimeOrdered ==
  ASSUME NEW es, NEW n, Timed(es, n)
  PROVE  Ordered(es, ByTime(es), 1 .. n) /\ \A x : x \in ToSet(ByTime(es)) <=> x \in 1 .. n
<1> DEFINE order == ByTime(es)
           D == 1 .. n
<1>1. /\ n \in Nat /\ order \in [D -> D]
      /\ \A i \in D : \E k \in D : order[k] = i
      /\ \A k, l \in D : k < l => Before(es, order[k], order[l])
  BY ByTimeSorts DEF Timed
<1> HIDE DEF order
<1>2. order \in Seq(D) /\ Len(order) = n
  <2>1. order \in Seq(D)
    BY <1>1
  <2> QED BY <1>1, <2>1, LenProperties
<1>3. Ordered(es, order, D)
  BY <1>1, <1>2 DEF Ordered
<1>4. \A x : x \in ToSet(order) <=> x \in D
  <2>1. \A x : x \in ToSet(order) <=> \E i \in 1 .. Len(order) : order[i] = x
    BY <1>2, Elements
  <2> QED BY <1>1, <1>2, <2>1
<1> QED BY <1>3, <1>4 DEF order

LEMMA KeepOrdered ==
  ASSUME NEW es, NEW D, NEW s, Ordered(es, s, D), NEW S
  PROVE  /\ Ordered(es, Keep(s, S), D)
         /\ \A x : x \in ToSet(Keep(s, S)) <=> x \in ToSet(s) /\ x \in S
<1> DEFINE r == Keep(s, S)
           n == Len(s)
           m == Len(r)
<1>1. s \in Seq(D) /\ n \in Nat /\ (\A k \in 1 .. n : s[k] \in D)
      /\ \A k, l \in 1 .. n : k < l => Before(es, s[k], s[l])
  BY LenProperties, ElementOfSeq DEF Ordered
<1>2. PICK at : Selects(at, r, s, S)
  BY <1>1, KeepSelects
<1> HIDE DEF r
<1>3. /\ r \in Seq(S) /\ m \in Nat /\ (\A k \in 1 .. m : r[k] \in S)
      /\ at \in [1 .. m -> 1 .. n]
      /\ \A k \in 1 .. m : r[k] = s[at[k]]
      /\ \A k, l \in 1 .. m : k < l => at[k] < at[l]
      /\ \A i \in 1 .. n : s[i] \in S => \E k \in 1 .. m : at[k] = i
  BY <1>2, LenProperties, ElementOfSeq DEF Selects
<1> HIDE DEF n
<1>4. r \in Seq(D)
  <2>1. \A k \in 1 .. m : r[k] \in D
    BY <1>1, <1>3
  <2>2. r \in [1 .. m -> S]
    BY <1>3, LenProperties
  <2> HIDE DEF m
  <2>3. r \in [1 .. m -> D]
    BY <2>1, <2>2
  <2> QED BY <1>3, <2>3, SeqDef
<1>5. \A k, l \in 1 .. m : k < l => Before(es, r[k], r[l])
  <2>1. SUFFICES ASSUME NEW k \in 1 .. m, NEW l \in 1 .. m, k < l PROVE Before(es, r[k], r[l])
    OBVIOUS
  <2>2. at[k] \in 1 .. n /\ at[l] \in 1 .. n /\ at[k] < at[l]
    BY <1>3, <2>1
  <2>3. r[k] = s[at[k]] /\ r[l] = s[at[l]]
    BY <1>3
  <2> QED BY <1>1, <2>2, <2>3
<1>6. ASSUME NEW x PROVE x \in ToSet(r) <=> x \in ToSet(s) /\ x \in S
  <2>1. x \in ToSet(r) <=> \E k \in 1 .. m : r[k] = x
    BY <1>4, Elements
  <2>2. x \in ToSet(s) <=> \E i \in 1 .. n : s[i] = x
    BY <1>1, Elements DEF n
  <2>3. ASSUME NEW k \in 1 .. m, r[k] = x PROVE x \in ToSet(s) /\ x \in S
    BY <1>3, <2>2, <2>3
  <2>4. ASSUME NEW i \in 1 .. n, s[i] = x, x \in S PROVE x \in ToSet(r)
    <3>1. PICK k \in 1 .. m : at[k] = i
      BY <1>3, <2>4
    <3>2. r[k] = x
      BY <1>3, <2>4, <3>1
    <3> QED BY <2>1, <3>2
  <2> QED BY <2>1, <2>2, <2>3, <2>4
<1> QED BY <1>4, <1>5, <1>6 DEF Ordered, r

\* What is in order stays so in parts.
LEMMA PartsOrdered ==
  ASSUME NEW es, NEW D, NEW c \in Seq(Seq(D)), Ordered(es, FlattenSeq(c), D)
  PROVE  \A k \in 1 .. Len(c) : Ordered(es, c[k], D)
<1> DEFINE s == FlattenSeq(c)
           n == Len(c)
<1>1. n \in Nat /\ s \in Seq(D) /\ Len(s) \in Nat
      /\ \A k \in 1 .. n : c[k] \in Seq(D) /\ Len(c[k]) \in Nat
  BY LenProperties, ElementOfSeq DEF Ordered
<1>2. PICK p : ArePositions(p, c, s)
  BY FlattenPositions
<1>3. \A k, l \in 1 .. Len(s) : k < l => Before(es, s[k], s[l])
  BY DEF Ordered
<1> HIDE DEF s, n
<1>4. /\ p \in [1 .. n + 1 -> Nat]
      /\ \A k \in 1 .. n :
           /\ p[k + 1] = p[k] + Len(c[k])
           /\ p[k + 1] <= Len(s)
           /\ \A j \in 1 .. Len(c[k]) : s[p[k] + j] = c[k][j]
  BY <1>2 DEF ArePositions, n
<1>5. ASSUME NEW k \in 1 .. n, NEW i \in 1 .. Len(c[k]), NEW j \in 1 .. Len(c[k]), i < j
      PROVE  Before(es, c[k][i], c[k][j])
  <2>1. p[k] \in Nat /\ p[k + 1] \in Nat /\ Len(c[k]) \in Nat
        /\ p[k + 1] = p[k] + Len(c[k]) /\ p[k + 1] <= Len(s)
        /\ s[p[k] + i] = c[k][i] /\ s[p[k] + j] = c[k][j]
    BY <1>1, <1>4
  <2> DEFINE a == p[k]
             b == Len(c[k])
             z == Len(s)
  <2>2. a \in Nat /\ b \in Nat /\ z \in Nat /\ a + b <= z /\ i \in 1 .. b /\ j \in 1 .. b
    BY <1>1, <2>1
  <2> HIDE DEF a, b, z
  <2>3. a + i \in 1 .. z /\ a + j \in 1 .. z /\ a + i < a + j
    BY <1>5, <2>2
  <2> QED BY <1>3, <2>1, <2>3 DEF a, z
<1>6. ASSUME NEW k \in 1 .. n PROVE Ordered(es, c[k], D)
  <2>1. \A i, j \in 1 .. Len(c[k]) : i < j => Before(es, c[k][i], c[k][j])
    BY <1>5
  <2> QED BY <1>1, <2>1 DEF Ordered
<1> QED BY <1>6 DEF n

---------------------------------------------------------------------------
(* Polling groups                                                          *)

\* Polling groups are runs of three or more calls in order of time, that all got the
\* answer the first one got; no two groups share a call.
AreGroups(es, groups, D) ==
  /\ \A g \in groups :
       /\ Ordered(es, g, D) /\ Once(g, D) /\ Len(g) >= 3 /\ IsRunOfOne(es, g)
       /\ \A x \in ToSet(g) : Is("xhr-api", es, x)
  /\ \A g, h \in groups : \A x : x \in ToSet(g) /\ x \in ToSet(h) => g = h

LEMMA GroupsApart ==
  ASSUME NEW es, NEW n, Timed(es, n)
  PROVE  AreGroups(es, PollingGroups(es), 1 .. n)
<1> DEFINE D == 1 .. n
           X == {i \in DOMAIN es : Is("xhr-api", es, i)}
           xhr == Keep(ByTime(es), X)
           S(s) == {i \in DOMAIN es : Signature(es[i]) = s}
           Of(s) == Keep(xhr, S(s))
           Runs(s) == RunsOf(es, Of(s))
           groups == PollingGroups(es)
<1>1. \A g \in groups : Len(g) >= 3 /\ \E s : g \in ToSet(Runs(s))
  BY DEF PollingGroups, IsPolling
<1>2. Ordered(es, xhr, D) /\ \A x : x \in ToSet(xhr) => x \in X
  <2>1. Ordered(es, ByTime(es), D)
    BY ByTimeOrdered
  <2> HIDE DEF X, D
  <2>2. Ordered(es, xhr, D)
    BY <2>1, KeepOrdered
  <2>3. \A x : x \in ToSet(xhr) <=> x \in ToSet(ByTime(es)) /\ x \in X
    BY <2>1, KeepOrdered
  <2> QED BY <2>2, <2>3
<1> HIDE DEF xhr, groups
<1>3. ASSUME NEW s
      PROVE  Ordered(es, Of(s), D) /\ \A x : x \in ToSet(Of(s)) => x \in X /\ Signature(es[x]) = s
  <2> DEFINE T == S(s)
  <2>1. \A x \in T : Signature(es[x]) = s
    OBVIOUS
  <2> HIDE DEF T, D, X
  <2>2. Ordered(es, Keep(xhr, T), D)
    BY <1>2, KeepOrdered
  <2>3. \A x : x \in ToSet(Keep(xhr, T)) <=> x \in ToSet(xhr) /\ x \in T
    BY <1>2, KeepOrdered
  <2>4. \A x : x \in ToSet(Keep(xhr, T)) => x \in X /\ Signature(es[x]) = s
    BY <1>2, <2>1, <2>3
  <2> QED BY <2>2, <2>4 DEF T
<1>4. \A x \in X : Is("xhr-api", es, x)
  OBVIOUS
<1> HIDE DEF Of, X, D
<1>5. ASSUME NEW s
      PROVE  /\ Runs(s) \in Seq(Seq(D)) /\ AreRuns(es, Runs(s)) /\ FlattenSeq(Runs(s)) = Of(s)
  <2> DEFINE o == Of(s)
  <2>1. o \in Seq(D)
    BY <1>3 DEF Ordered
  <2> HIDE DEF o
  <2>2. RunsOf(es, o) \in Seq(Seq(D))
    BY <2>1, RunsAreRuns
  <2>3. AreRuns(es, RunsOf(es, o))
    BY <2>1, RunsAreRuns
  <2>4. FlattenSeq(RunsOf(es, o)) = o
    BY <2>1, RunsAreRuns
  <2> QED BY <2>2, <2>3, <2>4 DEF o
<1> HIDE DEF Runs
<1>6. ASSUME NEW s, NEW g \in ToSet(Runs(s))
      PROVE  \E k \in 1 .. Len(Runs(s)) : Runs(s)[k] = g
  BY <1>5, Elements
<1>7. ASSUME NEW s
      PROVE  /\ \A k \in 1 .. Len(Runs(s)) :
                  /\ Ordered(es, Runs(s)[k], D)
                  /\ IsRunOfOne(es, Runs(s)[k])
                  /\ ToSet(Runs(s)[k]) \subseteq ToSet(Of(s))
             /\ \A k, l \in 1 .. Len(Runs(s)) : \A x :
                  x \in ToSet(Runs(s)[k]) /\ x \in ToSet(Runs(s)[l]) => k = l
  <2> DEFINE c == Runs(s)
  <2>1. c \in Seq(Seq(D)) /\ AreRuns(es, c) /\ FlattenSeq(c) = Of(s)
    BY <1>5
  <2>2. Ordered(es, FlattenSeq(c), D) /\ Once(FlattenSeq(c), D)
    BY <1>3, <2>1, OrderedOnce DEF D
  <2> HIDE DEF c
  <2>3. \A k \in 1 .. Len(c) : Ordered(es, c[k], D)
    BY <2>1, <2>2, PartsOrdered
  <2>4. \A k, l \in 1 .. Len(c) : \A x : x \in ToSet(c[k]) /\ x \in ToSet(c[l]) => k = l
    BY <2>1, <2>2, PartsOnce
  <2>5. \A k \in 1 .. Len(c) : ToSet(c[k]) \subseteq ToSet(FlattenSeq(c))
    BY <2>1, <2>2, PartsOnce
  <2>6. \A k \in 1 .. Len(c) : IsRunOfOne(es, c[k])
    BY <2>1 DEF AreRuns
  <2> QED BY <2>1, <2>3, <2>4, <2>5, <2>6 DEF c
<1>8. ASSUME NEW g \in groups
      PROVE  /\ Ordered(es, g, D) /\ Once(g, D) /\ Len(g) >= 3 /\ IsRunOfOne(es, g)
             /\ \A x \in ToSet(g) : Is("xhr-api", es, x)
  <2>1. PICK s : g \in ToSet(Runs(s))
    BY <1>1
  <2>2. PICK k \in 1 .. Len(Runs(s)) : Runs(s)[k] = g
    BY <1>6, <2>1
  <2>3. Ordered(es, g, D) /\ IsRunOfOne(es, g) /\ ToSet(g) \subseteq ToSet(Of(s))
    BY <1>7, <2>2
  <2>4. Once(g, D)
    BY <2>3, OrderedOnce DEF D
  <2> QED BY <1>1, <1>3, <1>4, <2>3, <2>4
<1>9. ASSUME NEW g \in groups, NEW h \in groups, NEW x, x \in ToSet(g), x \in ToSet(h)
      PROVE  g = h
  <2>1. PICK s : g \in ToSet(Runs(s))
    BY <1>1
  <2>2. PICK k \in 1 .. Len(Runs(s)) : Runs(s)[k] = g
    BY <1>6, <2>1
  <2>3. PICK t : h \in ToSet(Runs(t))
    BY <1>1
  <2>4. PICK l \in 1 .. Len(Runs(t)) : Runs(t)[l] = h
    BY <1>6, <2>3
  <2>5. x \in ToSet(Of(s)) /\ x \in ToSet(Of(t))
    BY <1>7, <1>9, <2>2, <2>4
  <2>6. s = t
    BY <1>3, <2>5
  <2> QED BY <1>7, <1>9, <2>2, <2>4, <2>6
<1> QED BY <1>8, <1>9 DEF AreGroups, D, groups

---------------------------------------------------------------------------
(* Chains have nothing in common                                           *)

LEMMA TailOnce ==
  ASSUME NEW D, NEW c, Once(c, D), c # <<>>
  PROVE  /\ Len(c) \in Nat \ {0} /\ Head(c) = c[1] /\ c[1] \in D
         /\ Once(Tail(c), D) /\ Len(Tail(c)) = Len(c) - 1
         /\ \A x : x \in ToSet(c) <=> x = c[1] \/ x \in ToSet(Tail(c))
         /\ c[1] \notin ToSet(Tail(c))
<1> DEFINE t == Tail(c)
           n == Len(c)
<1>1. c \in Seq(D) /\ n \in Nat \ {0} /\ Head(c) = c[1]
      /\ \A k, l \in 1 .. n : c[k] = c[l] => k = l
  BY EmptySeq DEF Once
<1>2. c[1] \in D
  BY <1>1, ElementOfSeq
<1>3. t \in Seq(D) /\ Len(t) = n - 1 /\ \A k \in 1 .. n - 1 : t[k] = c[k + 1]
  BY <1>1, HeadTailProperties
<1> HIDE DEF t, n
<1>4. \A x : x \in ToSet(t) <=> \E k \in 1 .. n - 1 : t[k] = x
  BY <1>3, Elements
<1>5. \A x : x \in ToSet(c) <=> \E k \in 1 .. n : c[k] = x
  BY <1>1, Elements DEF n
<1>6. /\ \A k \in 1 .. n - 1 : k + 1 \in 1 .. n /\ k + 1 # 1
      /\ 1 \in 1 .. n
      /\ \A k \in 1 .. n : k = 1 \/ (k - 1 \in 1 .. n - 1 /\ (k - 1) + 1 = k)
      /\ \A k, l \in 1 .. n - 1 : k + 1 = l + 1 => k = l
  BY <1>1
<1>7. \A k, l \in 1 .. n - 1 : t[k] = t[l] => k = l
  BY <1>1, <1>3, <1>6
<1>8. Once(t, D)
  BY <1>3, <1>7 DEF Once
<1>9. \A x : x \in ToSet(c) <=> x = c[1] \/ x \in ToSet(t)
  BY <1>3, <1>4, <1>5, <1>6
<1>10. c[1] \notin ToSet(t)
  BY <1>1, <1>3, <1>4, <1>6
<1> QED BY <1>1, <1>2, <1>3, <1>8, <1>9, <1>10 DEF t, n

\* Chains are two or more navigations; no two chains share one.
AreChains(es, chains, D) ==
  /\ \A c \in chains :
       /\ Once(c, D) /\ Len(c) >= 2
       /\ \A x \in ToSet(c) : Is("navigation", es, x)
  /\ \A c, d \in chains : \A x : x \in ToSet(c) /\ x \in ToSet(d) => c = d

\* c is nav[a] .. nav[b].
IsPart(c, nav, a, b, D) ==
  /\ c \in Seq(D) /\ Len(c) = b - a + 1
  /\ \A h \in 1 .. b - a + 1 : c[h] = nav[a + h - 1]

LEMMA PartIs ==
  ASSUME NEW D, NEW nav, Once(nav, D), NEW a \in 1 .. Len(nav), NEW b \in a .. Len(nav)
  PROVE  IsPart(SubSeq(nav, a, b), nav, a, b, D)
<1>1. SubSeq(nav, a, b) \in Seq(D) /\ Len(SubSeq(nav, a, b)) = b - a + 1
      /\ \A h \in 1 .. b - a + 1 : SubSeq(nav, a, b)[h] = nav[a + h - 1]
  BY PartOf
<1> QED BY <1>1 DEF IsPart

LEMMA PartElements ==
  ASSUME NEW D, NEW nav, Once(nav, D), NEW a \in 1 .. Len(nav), NEW b \in a .. Len(nav),
         NEW c, IsPart(c, nav, a, b, D)
  PROVE  Once(c, D) /\ \A x : x \in ToSet(c) <=> \E p \in a .. b : nav[p] = x
<1> DEFINE m == b - a + 1
           N == Len(nav)
<1>1. c \in Seq(D) /\ Len(c) = m /\ \A h \in 1 .. m : c[h] = nav[a + h - 1]
  BY DEF IsPart
<1>2. N \in Nat /\ \A p, q \in 1 .. N : nav[p] = nav[q] => p = q
  BY LenProperties DEF Once
<1>3. /\ \A h \in 1 .. m : a + h - 1 \in a .. b /\ a + h - 1 \in 1 .. N
      /\ \A p \in a .. b : p - a + 1 \in 1 .. m /\ a + (p - a + 1) - 1 = p
      /\ \A h, l \in 1 .. m : a + h - 1 = a + l - 1 => h = l
  BY <1>2
<1> HIDE DEF m, N
<1>4. \A h, l \in 1 .. m : c[h] = c[l] => h = l
  BY <1>1, <1>2, <1>3
<1>5. \A x : x \in ToSet(c) <=> \E h \in 1 .. m : c[h] = x
  BY <1>1, Elements
<1>6. \A x : x \in ToSet(c) => \E p \in a .. b : nav[p] = x
  BY <1>1, <1>3, <1>5
<1>7. ASSUME NEW p \in a .. b PROVE nav[p] \in ToSet(c)
  <2> DEFINE h == p - a + 1
  <2>1. h \in 1 .. m /\ a + h - 1 = p
    BY <1>3
  <2> HIDE DEF h
  <2>2. c[h] = nav[p]
    BY <1>1, <2>1
  <2> QED BY <1>5, <2>1, <2>2
<1> QED BY <1>1, <1>4, <1>6, <1>7 DEF Once

LEMMA NavigationsAre ==
  ASSUME NEW es, NEW n, Timed(es, n)
  PROVE  /\ Once(Navigations(es), 1 .. n)
         /\ \A x \in ToSet(Navigations(es)) : Is("navigation", es, x)
<1> DEFINE X == {i \in DOMAIN es : Is("navigation", es, i)}
           D == 1 .. n
<1>1. Navigations(es) = Keep(ByTime(es), X)
  BY DEF Navigations
<1>2. Ordered(es, ByTime(es), D)
  BY ByTimeOrdered
<1>3. \A x \in X : Is("navigation", es, x)
  OBVIOUS
<1> HIDE DEF X
<1>4. Ordered(es, Keep(ByTime(es), X), D)
  <2> HIDE DEF D
  <2> QED BY <1>2, KeepOrdered
<1>5. \A x : x \in ToSet(Keep(ByTime(es), X)) <=> x \in ToSet(ByTime(es)) /\ x \in X
  <2> HIDE DEF D
  <2> QED BY <1>2, KeepOrdered
<1>6. Once(Navigations(es), D)
  BY <1>1, <1>4, OrderedOnce
<1> QED BY <1>1, <1>3, <1>5, <1>6

LEMMA ChainsApart ==
  ASSUME NEW es, NEW n, Timed(es, n)
  PROVE  AreChains(es, ToSet(RedirectChains(es)), 1 .. n)
<1> DEFINE D == 1 .. n
           nav == Navigations(es)
           N == Len(nav)
           chains == RedirectChains(es)
<1>1. Once(nav, D) /\ \A x \in ToSet(nav) : Is("navigation", es, x)
  BY NavigationsAre
<1> HIDE DEF D
<1>2. chains \in Seq(Seq(D)) /\ ChainsAreRuns(es, nav, chains, N)
  BY <1>1, ChainsRun
<1> HIDE DEF nav, chains
<1>3. N \in Nat /\ nav \in Seq(D) /\ \A p \in 1 .. N : nav[p] \in ToSet(nav)
  BY <1>1, LenProperties, Elements DEF Once
<1>4. ASSUME NEW c \in ToSet(chains)
      PROVE  \E a \in 1 .. N, b \in 1 .. N :
               a < b /\ b \in a .. N /\ IsRun(es, nav, a, b) /\ c = SubSeq(nav, a, b)
  <2>1. PICK a \in 1 .. N, b \in 1 .. N : a < b /\ IsRun(es, nav, a, b) /\ c = SubSeq(nav, a, b)
    BY <1>2 DEF ChainsAreRuns, IsChainFrom
  <2> QED BY <1>3, <2>1
<1>5. ASSUME NEW c \in ToSet(chains)
      PROVE  \E a \in 1 .. N, b \in 1 .. N :
               /\ a < b /\ b \in a .. N /\ IsRun(es, nav, a, b) /\ c = SubSeq(nav, a, b)
               /\ IsPart(c, nav, a, b, D)
  <2>1. PICK a \in 1 .. N, b \in 1 .. N :
               a < b /\ b \in a .. N /\ IsRun(es, nav, a, b) /\ c = SubSeq(nav, a, b)
    BY <1>4
  <2>2. IsPart(SubSeq(nav, a, b), nav, a, b, D)
    BY <1>1, <2>1, PartIs
  <2> QED BY <2>1, <2>2
<1>6. ASSUME NEW c \in ToSet(chains)
      PROVE  Once(c, D) /\ Len(c) >= 2 /\ \A x \in ToSet(c) : Is("navigation", es, x)
  <2>1. PICK a \in 1 .. N, b \in 1 .. N :
               a < b /\ b \in a .. N /\ IsPart(c, nav, a, b, D)
    BY <1>5
  <2>2. Once(c, D) /\ Len(c) = b - a + 1 /\ \A x \in ToSet(c) : x \in ToSet(nav)
    <3>1. Once(c, D)
      BY <1>1, <2>1, PartElements
    <3>2. \A x : x \in ToSet(c) <=> \E p \in a .. b : nav[p] = x
      BY <1>1, <2>1, PartElements
    <3>3. \A p \in a .. b : p \in 1 .. N
      BY <1>3, <2>1
    <3> QED BY <1>3, <2>1, <3>1, <3>2, <3>3 DEF IsPart
  <2>3. b - a + 1 >= 2
    BY <1>3, <2>1
  <2> QED BY <1>1, <2>2, <2>3
<1>7. ASSUME NEW c \in ToSet(chains), NEW d \in ToSet(chains), NEW x, x \in ToSet(c), x \in ToSet(d)
      PROVE  c = d
  <2>1. PICK a \in 1 .. N, b \in 1 .. N :
               /\ a < b /\ b \in a .. N /\ IsRun(es, nav, a, b) /\ c = SubSeq(nav, a, b)
               /\ IsPart(c, nav, a, b, D)
    BY <1>5
  <2>2. PICK u \in 1 .. N, v \in 1 .. N :
               /\ u < v /\ v \in u .. N /\ IsRun(es, nav, u, v) /\ d = SubSeq(nav, u, v)
               /\ IsPart(d, nav, u, v, D)
    BY <1>5
  <2>3. PICK p \in a .. b : nav[p] = x
    <3>1. \A y : y \in ToSet(c) <=> \E p \in a .. b : nav[p] = y
      BY <1>1, <2>1, PartElements
    <3> QED BY <1>7, <3>1
  <2>4. PICK q \in u .. v : nav[q] = x
    <3>1. \A y : y \in ToSet(d) <=> \E k \in u .. v : nav[k] = y
      BY <1>1, <2>2, PartElements
    <3> QED BY <1>7, <3>1
  <2>5. p = q
    <3>1. p \in 1 .. N /\ q \in 1 .. N
      BY <1>3, <2>1, <2>2
    <3> QED BY <1>1, <2>3, <2>4, <3>1 DEF Once
  <2>6. a = u /\ b = v
    BY <1>3, <2>1, <2>2, <2>3, <2>4, <2>5, RunsMeet
  <2> QED BY <2>1, <2>2, <2>6
<1> QED BY <1>6, <1>7 DEF AreChains, D, chains

---------------------------------------------------------------------------
(* Flows                                                                   *)

LEMMA ToldAre ==
  ASSUME NEW es, NEW n, Timed(es, n)
  PROVE  LET told == Told(es)
             chains == ToSet(RedirectChains(es))
         IN  /\ Ordered(es, told, 1 .. n) /\ Once(told, 1 .. n)
             /\ \A x : x \in ToSet(told) <=>
                  /\ x \in 1 .. n /\ ~Is("static-asset", es, x)
                  /\ \A c \in chains : x \notin ToSet(Tail(c))
<1> DEFINE told == Told(es)
           chains == ToSet(RedirectChains(es))
           D == 1 .. n
           consumed == UNION {ToSet(Tail(c)) : c \in chains}
           X == {i \in DOMAIN es : ~Is("static-asset", es, i)} \ consumed
<1>1. told = Keep(ByTime(es), X)
  BY DEF Told
<1>2. Ordered(es, ByTime(es), D) /\ (\A x : x \in ToSet(ByTime(es)) <=> x \in D) /\ DOMAIN es = D
  BY ByTimeOrdered DEF Timed
<1> HIDE DEF chains
<1>3. \A x : x \in X <=> x \in D /\ ~Is("static-asset", es, x) /\ \A c \in chains : x \notin ToSet(Tail(c))
  BY <1>2
<1> HIDE DEF X, told
<1>4. Ordered(es, told, D)
  <2> HIDE DEF D
  <2> QED BY <1>1, <1>2, KeepOrdered
<1>5. \A x : x \in ToSet(Keep(ByTime(es), X)) <=> x \in ToSet(ByTime(es)) /\ x \in X
  <2> HIDE DEF D
  <2> QED BY <1>2, KeepOrdered
<1>6. Once(told, D)
  BY <1>4, OrderedOnce
<1> QED BY <1>1, <1>2, <1>3, <1>4, <1>5, <1>6 DEF told, chains

\* What build_flows makes of the entry i that gets a flow: a chain, a call on its own, the
\* first of a group, or a repetition.
IsFlow(chains, groups, told, i, flow) ==
  \/ \E c \in chains :
       Head(c) = i /\ flow = [entries |-> c, polled |-> <<>>, collapsedInto |-> None]
  \/ /\ \A c \in chains : Head(c) # i
     /\ \/ /\ \A g \in groups : i \notin ToSet(g)
           /\ flow = [entries |-> <<i>>, polled |-> <<>>, collapsedInto |-> None]
        \/ \E g \in groups :
             /\ i \in ToSet(g) /\ Head(g) = i
             /\ flow = [entries |-> <<i>>, polled |-> Tail(g), collapsedInto |-> None]
        \/ \E g \in groups :
             /\ i \in ToSet(g) /\ Head(g) # i
             /\ flow = [entries |-> <<i>>, polled |-> <<>>,
                        collapsedInto |-> <<CHOOSE k \in DOMAIN told : told[k] = Head(g)>>]

LEMMA FlowsAre ==
  ASSUME NEW es
  PROVE  LET told == Told(es)
             flows == BuildFlows(es)
         IN  /\ DOMAIN flows = DOMAIN told
             /\ flows = [k \in DOMAIN told |-> flows[k]]
             /\ \A k \in DOMAIN told :
                  IsFlow(ToSet(RedirectChains(es)), PollingGroups(es), told, told[k], flows[k])
<1> DEFINE told == Told(es)
           chains == ToSet(RedirectChains(es))
           groups == PollingGroups(es)
           flows == BuildFlows(es)
           Chain(i) == {c \in chains : Head(c) = i}
           Group(i) == {g \in groups : i \in ToSet(g)}
           G(i) == CHOOSE g \in Group(i) : TRUE
           FlowOf(i) ==
             IF Chain(i) # {} THEN [SimpleFlow(i) EXCEPT !.entries = CHOOSE c \in Chain(i) : TRUE]
             ELSE IF Group(i) = {} THEN SimpleFlow(i)
             ELSE IF Head(G(i)) = i THEN [SimpleFlow(i) EXCEPT !.polled = Tail(G(i))]
             ELSE [SimpleFlow(i) EXCEPT
                     !.collapsedInto = <<CHOOSE k \in DOMAIN told : told[k] = Head(G(i))>>]
<1>1. flows = [k \in DOMAIN told |-> FlowOf(told[k])]
  BY DEF BuildFlows
<1> HIDE DEF told, chains, groups, flows
<1>2. ASSUME NEW i PROVE IsFlow(chains, groups, told, i, FlowOf(i))
  <2>1. CASE Chain(i) # {}
    <3> DEFINE c == CHOOSE c \in Chain(i) : TRUE
    <3>1. c \in Chain(i)
      BY <2>1
    <3>2. c \in chains /\ Head(c) = i
      BY <3>1
    <3> HIDE DEF c
    <3>3. [SimpleFlow(i) EXCEPT !.entries = c] = [entries |-> c, polled |-> <<>>, collapsedInto |-> None]
      BY DEF SimpleFlow
    <3>4. FlowOf(i) = [SimpleFlow(i) EXCEPT !.entries = c]
      BY <2>1 DEF c
    <3> HIDE DEF FlowOf
    <3> QED BY <3>2, <3>3, <3>4 DEF IsFlow
  <2>2. CASE Chain(i) = {}
    <3>1. \A c \in chains : Head(c) # i
      BY <2>2
    <3>2. CASE Group(i) = {}
      <4>1. FlowOf(i) = SimpleFlow(i)
        BY <2>2, <3>2
      <4>2. \A g \in groups : i \notin ToSet(g)
        BY <3>2
      <4> HIDE DEF FlowOf
      <4> QED BY <3>1, <4>1, <4>2 DEF IsFlow, SimpleFlow
    <3>3. CASE Group(i) # {}
      <4>1. G(i) \in Group(i)
        BY <3>3
      <4> DEFINE g == G(i)
      <4>2. g \in groups /\ i \in ToSet(g)
        BY <4>1
      <4>3. CASE Head(g) = i
        <5>1. FlowOf(i) = [SimpleFlow(i) EXCEPT !.polled = Tail(g)]
          BY <2>2, <3>3, <4>3
        <5> HIDE DEF FlowOf, g
        <5>2. FlowOf(i) = [entries |-> <<i>>, polled |-> Tail(g), collapsedInto |-> None]
          BY <5>1 DEF SimpleFlow
        <5> QED BY <3>1, <4>2, <4>3, <5>2 DEF IsFlow
      <4>4. CASE Head(g) # i
        <5> DEFINE k == CHOOSE k \in DOMAIN told : told[k] = Head(g)
        <5>1. FlowOf(i) = [SimpleFlow(i) EXCEPT !.collapsedInto = <<k>>]
          BY <2>2, <3>3, <4>4
        <5>2. k = CHOOSE j \in DOMAIN told : told[j] = Head(g)
          OBVIOUS
        <5> HIDE DEF FlowOf, g, k
        <5>3. FlowOf(i) = [entries |-> <<i>>, polled |-> <<>>, collapsedInto |-> <<k>>]
          BY <5>1 DEF SimpleFlow
        <5> QED BY <3>1, <4>2, <4>4, <5>2, <5>3 DEF IsFlow
      <4> QED BY <4>3, <4>4
    <3> QED BY <3>2, <3>3
  <2> QED BY <2>1, <2>2
<1> HIDE DEF FlowOf
<1>3. DOMAIN flows = DOMAIN told /\ \A k \in DOMAIN told : flows[k] = FlowOf(told[k])
  BY <1>1
<1>4. flows = [k \in DOMAIN told |-> flows[k]]
  BY <1>1
<1> QED BY <1>2, <1>3, <1>4 DEF told, chains, groups, flows

---------------------------------------------------------------------------
(* What the flows tell of                                                  *)

AreFlows(es, D, chains, groups, told, flows) ==
  /\ AreChains(es, chains, D)
  /\ AreGroups(es, groups, D)
  /\ Ordered(es, told, D) /\ Once(told, D)
  /\ \A x : x \in ToSet(told) <=>
       x \in D /\ ~Is("static-asset", es, x) /\ \A c \in chains : x \notin ToSet(Tail(c))
  /\ flows = [k \in 1 .. Len(told) |-> flows[k]]
  /\ \A k \in 1 .. Len(told) : IsFlow(chains, groups, told, told[k], flows[k])

LEMMA ManifestIs ==
  ASSUME NEW es, NEW n, Timed(es, n)
  PROVE  AreFlows(es, 1 .. n, ToSet(RedirectChains(es)), PollingGroups(es), Told(es), BuildFlows(es))
<1> DEFINE D == 1 .. n
           told == Told(es)
           chains == ToSet(RedirectChains(es))
           groups == PollingGroups(es)
           flows == BuildFlows(es)
<1>1. AreChains(es, chains, D) /\ AreGroups(es, groups, D)
  BY ChainsApart, GroupsApart
<1>2. /\ Ordered(es, told, D) /\ Once(told, D)
      /\ \A x : x \in ToSet(told) <=>
           x \in D /\ ~Is("static-asset", es, x) /\ \A c \in chains : x \notin ToSet(Tail(c))
  BY ToldAre
<1>3. /\ flows = [k \in DOMAIN told |-> flows[k]]
      /\ \A k \in DOMAIN told : IsFlow(chains, groups, told, told[k], flows[k])
  BY FlowsAre
<1> HIDE DEF told, chains, groups, flows
<1>4. DOMAIN told = 1 .. Len(told)
  BY <1>2, LenProperties DEF Once
<1> QED BY <1>1, <1>2, <1>3, <1>4 DEF AreFlows, told, chains, groups, flows

\* Every flow of the document is of one of three kinds.
IsAlone(chains, groups, i, flow) ==
  /\ flow.entries = <<i>> /\ flow.polled = <<>>
  /\ \A c \in chains : i \notin ToSet(c)
  /\ \A g \in groups : i \notin ToSet(g)

IsChained(chains, i, flow) ==
  \E c \in chains : c # <<>> /\ c[1] = i /\ flow.entries = c /\ flow.polled = <<>>

IsRepeated(groups, i, flow) ==
  \E g \in groups : g # <<>> /\ g[1] = i /\ flow.entries = <<i>> /\ flow.polled = Tail(g)

Narrates(flow) == flow.collapsedInto = None

LEMMA ToldIn ==
  ASSUME NEW es, NEW D, NEW chains, NEW groups, NEW told, NEW flows,
         AreFlows(es, D, chains, groups, told, flows), NEW k \in 1 .. Len(told)
  PROVE  /\ told[k] \in D /\ ~Is("static-asset", es, told[k])
         /\ \A c \in chains : told[k] \notin ToSet(Tail(c))
<1>1. told \in Seq(D)
  BY DEF AreFlows, Once
<1>2. told[k] \in ToSet(told)
  BY <1>1, Elements
<1> QED BY <1>2 DEF AreFlows

LEMMA ChainFacts ==
  ASSUME NEW es, NEW D, NEW chains, AreChains(es, chains, D), NEW c \in chains
  PROVE  /\ Once(c, D) /\ c # <<>> /\ Head(c) = c[1] /\ c[1] \in D
         /\ \A x : x \in ToSet(c) <=> x = c[1] \/ x \in ToSet(Tail(c))
         /\ c[1] \notin ToSet(Tail(c))
<1>1. Once(c, D) /\ Len(c) >= 2
  BY DEF AreChains
<1>2. c # <<>>
  BY <1>1, EmptySeq
<1> QED BY <1>1, <1>2, TailOnce

LEMMA GroupFacts ==
  ASSUME NEW es, NEW D, NEW groups, AreGroups(es, groups, D), NEW c \in groups
  PROVE  /\ Once(c, D) /\ c # <<>> /\ Head(c) = c[1] /\ c[1] \in D
         /\ Once(Tail(c), D)
         /\ \A x : x \in ToSet(c) <=> x = c[1] \/ x \in ToSet(Tail(c))
         /\ c[1] \notin ToSet(Tail(c))
<1>1. Once(c, D) /\ Len(c) >= 3
  BY DEF AreGroups
<1>2. c # <<>>
  BY <1>1, EmptySeq
<1> QED BY <1>1, <1>2, TailOnce

\* What chains, and then groups, consist of.
LEMMA ChainEntries ==
  ASSUME NEW es, NEW D, NEW chains, AreChains(es, chains, D)
  PROVE  /\ \A c \in chains : Head(c) = c[1] /\ c # <<>>
         /\ \A c \in chains : c[1] \notin ToSet(Tail(c))
         /\ \A c \in chains : \A y : y \in ToSet(c) <=> y = c[1] \/ y \in ToSet(Tail(c))
         /\ \A c \in chains : \A y \in ToSet(c) : y \in D /\ Is("navigation", es, y)
<1>1. ASSUME NEW c \in chains
      PROVE  /\ Head(c) = c[1] /\ c # <<>> /\ c[1] \notin ToSet(Tail(c))
             /\ \A y : y \in ToSet(c) <=> y = c[1] \/ y \in ToSet(Tail(c))
  BY ChainFacts
<1>2. ASSUME NEW c \in chains, NEW y \in ToSet(c) PROVE y \in D /\ Is("navigation", es, y)
  <2>1. c \in Seq(D) /\ Is("navigation", es, y)
    BY DEF AreChains, Once
  <2>2. PICK k \in 1 .. Len(c) : c[k] = y
    BY <2>1, Elements
  <2>3. c[k] \in D
    BY <2>1, ElementOfSeq
  <2> QED BY <2>1, <2>2, <2>3
<1> QED BY <1>1, <1>2

LEMMA GroupEntries ==
  ASSUME NEW es, NEW D, NEW groups, AreGroups(es, groups, D)
  PROVE  /\ \A c \in groups : Head(c) = c[1] /\ c # <<>>
         /\ \A c \in groups : c[1] \notin ToSet(Tail(c))
         /\ \A c \in groups : \A y : y \in ToSet(c) <=> y = c[1] \/ y \in ToSet(Tail(c))
         /\ \A c \in groups : \A y \in ToSet(c) : y \in D /\ Is("xhr-api", es, y)
<1>1. ASSUME NEW c \in groups
      PROVE  /\ Head(c) = c[1] /\ c # <<>> /\ c[1] \notin ToSet(Tail(c))
             /\ \A y : y \in ToSet(c) <=> y = c[1] \/ y \in ToSet(Tail(c))
  BY GroupFacts
<1>2. ASSUME NEW c \in groups, NEW y \in ToSet(c) PROVE y \in D /\ Is("xhr-api", es, y)
  <2>1. c \in Seq(D) /\ Is("xhr-api", es, y)
    BY DEF AreGroups, Once
  <2>2. PICK k \in 1 .. Len(c) : c[k] = y
    BY <2>1, Elements
  <2>3. c[k] \in D
    BY <2>1, ElementOfSeq
  <2> QED BY <2>1, <2>2, <2>3
<1> QED BY <1>1, <1>2

LEMMA KindOfFlow ==
  ASSUME NEW es, NEW D, NEW chains, NEW groups, NEW told, NEW flows,
         AreFlows(es, D, chains, groups, told, flows),
         NEW k \in 1 .. Len(told), Narrates(flows[k])
  PROVE  \/ IsAlone(chains, groups, told[k], flows[k])
         \/ IsChained(chains, told[k], flows[k])
         \/ IsRepeated(groups, told[k], flows[k])
<1> DEFINE i == told[k]
           flow == flows[k]
<1>1. AreChains(es, chains, D) /\ AreGroups(es, groups, D) /\ IsFlow(chains, groups, told, i, flow)
  BY DEF AreFlows
<1>2. \A c \in chains : i \notin ToSet(Tail(c))
  BY ToldIn
<1>3. flow.collapsedInto = None
  BY DEF Narrates
<1> HIDE DEF i, flow
<1>4. /\ \A c \in chains : c # <<>> /\ Head(c) = c[1]
      /\ \A c \in chains : \A x : x \in ToSet(c) <=> x = c[1] \/ x \in ToSet(Tail(c))
  BY <1>1, ChainEntries
<1>5. \A g \in groups : g # <<>> /\ Head(g) = g[1]
  BY <1>1, GroupEntries
<1>6. CASE \E c \in chains :
             Head(c) = i /\ flow = [entries |-> c, polled |-> <<>>, collapsedInto |-> None]
  <2>1. IsChained(chains, i, flow)
    BY <1>4, <1>6 DEF IsChained
  <2> QED BY <2>1 DEF i, flow
<1>7. CASE \A c \in chains : Head(c) # i
  <2>1. \A c \in chains : i \notin ToSet(c)
    BY <1>2, <1>4, <1>7
  <2>2. CASE /\ \A g \in groups : i \notin ToSet(g)
             /\ flow = [entries |-> <<i>>, polled |-> <<>>, collapsedInto |-> None]
    <3>1. IsAlone(chains, groups, i, flow)
      BY <2>1, <2>2 DEF IsAlone
    <3> QED BY <3>1 DEF i, flow
  <2>3. CASE \E g \in groups :
               /\ i \in ToSet(g) /\ Head(g) = i
               /\ flow = [entries |-> <<i>>, polled |-> Tail(g), collapsedInto |-> None]
    <3>1. IsRepeated(groups, i, flow)
      BY <1>5, <2>3 DEF IsRepeated
    <3> QED BY <3>1 DEF i, flow
  <2>4. CASE \E g \in groups :
               /\ i \in ToSet(g) /\ Head(g) # i
               /\ flow = [entries |-> <<i>>, polled |-> <<>>,
                          collapsedInto |-> <<CHOOSE j \in DOMAIN told : told[j] = Head(g)>>]
    <3>1. \A x : <<x>> # None
      BY DEF None
    <3> QED BY <1>3, <2>4, <3>1
  <2> HIDE DEF i, flow
  <2> QED BY <1>1, <1>6, <1>7, <2>2, <2>3, <2>4 DEF IsFlow
<1> QED BY <1>1, <1>6, <1>7 DEF IsFlow

Tells(flow) == ToSet(flow.entries) \cup ToSet(flow.polled)

LEMMA Single == \A x, y : y \in ToSet(<<x>>) <=> y = x
<1> TAKE x, y
<1>1. <<x>> \in Seq({x}) /\ Len(<<x>>) = 1 /\ <<x>>[1] = x
  OBVIOUS
<1>2. y \in ToSet(<<x>>) <=> \E i \in 1 .. Len(<<x>>) : <<x>>[i] = y
  BY <1>1, Elements
<1>3. \A i : i \in 1 .. 1 <=> i = 1
  OBVIOUS
<1> QED BY <1>1, <1>2, <1>3

\* What a flow tells of: its entry, its chain or its group.
LEMMA FlowTells ==
  ASSUME NEW es, NEW D, NEW chains, NEW groups, NEW told, NEW flows,
         AreFlows(es, D, chains, groups, told, flows),
         NEW k \in 1 .. Len(told), Narrates(flows[k]), NEW x
  PROVE  x \in Tells(flows[k]) <=>
           \/ x = told[k]
           \/ \E c \in chains : c[1] = told[k] /\ x \in ToSet(c)
           \/ \E g \in groups : g[1] = told[k] /\ x \in ToSet(g)
<1> DEFINE i == told[k]
           flow == flows[k]
<1>1. AreChains(es, chains, D) /\ AreGroups(es, groups, D)
  BY DEF AreFlows
<1>2. IsAlone(chains, groups, i, flow) \/ IsChained(chains, i, flow) \/ IsRepeated(groups, i, flow)
  BY KindOfFlow
<1> HIDE DEF i, flow
<1>3. /\ \A c \in chains : \A y : y \in ToSet(c) <=> y = c[1] \/ y \in ToSet(Tail(c))
      /\ \A c \in chains : \A y \in ToSet(c) : Is("navigation", es, y)
  BY <1>1, ChainEntries
<1>4. /\ \A g \in groups : \A y : y \in ToSet(g) <=> y = g[1] \/ y \in ToSet(Tail(g))
      /\ \A g \in groups : \A y \in ToSet(g) : Is("xhr-api", es, y)
  BY <1>1, GroupEntries
<1>5. \A y : ~(Is("navigation", es, y) /\ Is("xhr-api", es, y))
  BY DEF Is
<1>6. ASSUME NEW c \in chains, NEW d \in chains, c[1] = d[1] PROVE c = d
  <2>1. c[1] \in ToSet(c) /\ d[1] \in ToSet(d)
    BY <1>3
  <2> QED BY <1>1, <1>6, <2>1 DEF AreChains
<1>7. ASSUME NEW g \in groups, NEW h \in groups, g[1] = h[1] PROVE g = h
  <2>1. g[1] \in ToSet(g) /\ h[1] \in ToSet(h)
    BY <1>4
  <2> QED BY <1>1, <1>7, <2>1 DEF AreGroups
<1>8. ToSet(<<>>) = {}
  BY DEF ToSet
<1>9. CASE IsAlone(chains, groups, i, flow)
  <2>1. x \in Tells(flow) <=> x = i
    BY <1>8, <1>9, Single DEF IsAlone, Tells
  <2>2. (\A c \in chains : c[1] # i) /\ (\A g \in groups : g[1] # i)
    BY <1>3, <1>4, <1>9 DEF IsAlone
  <2> QED BY <2>1, <2>2 DEF i, flow
<1>10. CASE IsChained(chains, i, flow)
  <2>1. PICK c \in chains : c[1] = i /\ flow.entries = c /\ flow.polled = <<>>
    BY <1>10 DEF IsChained
  <2>2. x \in Tells(flow) <=> x \in ToSet(c)
    BY <1>8, <2>1 DEF Tells
  <2>3. i \in ToSet(c) /\ \A g \in groups : g[1] # i
    BY <1>3, <1>4, <1>5, <2>1
  <2> QED BY <1>6, <2>1, <2>2, <2>3 DEF i, flow
<1>11. CASE IsRepeated(groups, i, flow)
  <2>1. PICK g \in groups : g[1] = i /\ flow.entries = <<i>> /\ flow.polled = Tail(g)
    BY <1>11 DEF IsRepeated
  <2>2. x \in Tells(flow) <=> x \in ToSet(g)
    BY <1>4, <2>1, Single DEF Tells
  <2>3. i \in ToSet(g) /\ \A c \in chains : c[1] # i
    BY <1>3, <1>4, <1>5, <2>1
  <2> QED BY <1>7, <2>1, <2>2, <2>3 DEF i, flow
<1> QED BY <1>2, <1>9, <1>10, <1>11

\* No two flows of the document tell of the same entry.
LEMMA TellsApart ==
  ASSUME NEW es, NEW D, NEW chains, NEW groups, NEW told, NEW flows,
         AreFlows(es, D, chains, groups, told, flows)
  PROVE  \A k, l \in 1 .. Len(told) : \A x :
           /\ Narrates(flows[k]) /\ x \in Tells(flows[k])
           /\ Narrates(flows[l]) /\ x \in Tells(flows[l])
           => k = l
<1> SUFFICES ASSUME NEW k \in 1 .. Len(told), NEW l \in 1 .. Len(told), NEW x,
                    Narrates(flows[k]), x \in Tells(flows[k]),
                    Narrates(flows[l]), x \in Tells(flows[l])
             PROVE  k = l
  OBVIOUS
<1> DEFINE i == told[k]
           j == told[l]
           Chain(a) == \E c \in chains : c[1] = a /\ x \in ToSet(c)
           Group(a) == \E g \in groups : g[1] = a /\ x \in ToSet(g)
<1>1. AreChains(es, chains, D) /\ AreGroups(es, groups, D) /\ Once(told, D)
  BY DEF AreFlows
<1>2. x = i \/ Chain(i) \/ Group(i)
  BY FlowTells
<1>3. x = j \/ Chain(j) \/ Group(j)
  BY FlowTells
<1>4. \A c \in chains : i \notin ToSet(Tail(c)) /\ j \notin ToSet(Tail(c))
  BY ToldIn
<1>5. IsAlone(chains, groups, i, flows[k]) \/ IsChained(chains, i, flows[k]) \/ IsRepeated(groups, i, flows[k])
  BY KindOfFlow
<1>6. IsAlone(chains, groups, j, flows[l]) \/ IsChained(chains, j, flows[l]) \/ IsRepeated(groups, j, flows[l])
  BY KindOfFlow
<1>7. /\ \A c \in chains : \A y : y \in ToSet(c) <=> y = c[1] \/ y \in ToSet(Tail(c))
      /\ \A c \in chains : \A y \in ToSet(c) : Is("navigation", es, y)
  BY <1>1, ChainEntries
<1>8. /\ \A g \in groups : \A y : y \in ToSet(g) <=> y = g[1] \/ y \in ToSet(Tail(g))
      /\ \A g \in groups : \A y \in ToSet(g) : Is("xhr-api", es, y)
  BY <1>1, GroupEntries
<1>9. \A y : ~(Is("navigation", es, y) /\ Is("xhr-api", es, y))
  BY DEF Is
<1>10. \A c, d \in chains : \A y : y \in ToSet(c) /\ y \in ToSet(d) => c = d
  BY <1>1 DEF AreChains
<1>11. \A g, h \in groups : \A y : y \in ToSet(g) /\ y \in ToSet(h) => g = h
  BY <1>1 DEF AreGroups
\* The entry at the head of a group tells of that group: it is not alone in it.
<1>12. \A g \in groups : i \in ToSet(g) => g[1] = i
  BY <1>5, <1>7, <1>8, <1>9, <1>11 DEF IsAlone, IsChained, IsRepeated
<1>13. \A g \in groups : j \in ToSet(g) => g[1] = j
  BY <1>6, <1>7, <1>8, <1>9, <1>11 DEF IsAlone, IsChained, IsRepeated
<1>14. \A c \in chains : (i \in ToSet(c) => c[1] = i) /\ (j \in ToSet(c) => c[1] = j)
  BY <1>4, <1>7
<1> HIDE DEF i, j
<1>15. i = j
  <2>1. CASE x = i
    BY <1>3, <1>12, <1>14, <2>1
  <2>2. CASE x = j
    BY <1>2, <1>13, <1>14, <2>2
  <2>3. CASE Chain(i) /\ Chain(j)
    BY <1>10, <2>3
  <2>4. CASE Group(i) /\ Group(j)
    BY <1>11, <2>4
  <2>5. CASE (Chain(i) /\ Group(j)) \/ (Group(i) /\ Chain(j))
    BY <1>7, <1>8, <1>9, <2>5
  <2> HIDE DEF Chain, Group
  <2> QED BY <1>2, <1>3, <2>1, <2>2, <2>3, <2>4, <2>5
<1> QED BY <1>1, <1>15 DEF Once, i, j

\* The document's flows tell of all that is no asset, and of nothing else.
LEMMA TellsAll ==
  ASSUME NEW es, NEW D, NEW chains, NEW groups, NEW told, NEW flows,
         AreFlows(es, D, chains, groups, told, flows), NEW x
  PROVE  x \in D /\ ~Is("static-asset", es, x) <=>
           \E k \in 1 .. Len(told) : Narrates(flows[k]) /\ x \in Tells(flows[k])
<1> DEFINE K == 1 .. Len(told)
<1>1. AreChains(es, chains, D) /\ AreGroups(es, groups, D) /\ told \in Seq(D)
  BY DEF AreFlows, Once
<1>2. /\ \A c \in chains : Head(c) = c[1] /\ c[1] \notin ToSet(Tail(c))
      /\ \A c \in chains : \A y : y \in ToSet(c) <=> y = c[1] \/ y \in ToSet(Tail(c))
      /\ \A c \in chains : \A y \in ToSet(c) : y \in D /\ Is("navigation", es, y)
  BY <1>1, ChainEntries
<1>3. /\ \A g \in groups : Head(g) = g[1]
      /\ \A g \in groups : \A y : y \in ToSet(g) <=> y = g[1] \/ y \in ToSet(Tail(g))
      /\ \A g \in groups : \A y \in ToSet(g) : y \in D /\ Is("xhr-api", es, y)
  BY <1>1, GroupEntries
<1>4. \A y : /\ ~(Is("navigation", es, y) /\ Is("xhr-api", es, y))
             /\ ~(Is("navigation", es, y) /\ Is("static-asset", es, y))
             /\ ~(Is("xhr-api", es, y) /\ Is("static-asset", es, y))
  BY DEF Is
<1>5. \A c, d \in chains : \A y : y \in ToSet(c) /\ y \in ToSet(d) => c = d
  BY <1>1 DEF AreChains
<1>6. \A g, h \in groups : \A y : y \in ToSet(g) /\ y \in ToSet(h) => g = h
  BY <1>1 DEF AreGroups
<1>7. ASSUME NEW y \in D, ~Is("static-asset", es, y), \A c \in chains : y \notin ToSet(Tail(c))
      PROVE  \E k \in K : told[k] = y
  <2>1. y \in ToSet(told)
    BY <1>7 DEF AreFlows
  <2> QED BY <1>1, <2>1, Elements
<1>8. ASSUME NEW k \in K
      PROVE  IsFlow(chains, groups, told, told[k], flows[k])
  BY DEF AreFlows
<1>9. ASSUME x \in D, ~Is("static-asset", es, x)
      PROVE  \E k \in K : Narrates(flows[k]) /\ x \in Tells(flows[k])
  <2>1. CASE \E c \in chains : x \in ToSet(c)
    <3>1. PICK c \in chains : x \in ToSet(c)
      BY <2>1
    <3>2. c[1] \in ToSet(c) /\ c[1] \in D /\ ~Is("static-asset", es, c[1])
      BY <1>2, <1>4
    <3>3. \A d \in chains : c[1] \notin ToSet(Tail(d))
      BY <1>2, <1>5, <3>2
    <3>4. PICK k \in K : told[k] = c[1]
      BY <1>7, <3>2, <3>3
    <3>5. Narrates(flows[k])
      <4>1. PICK d \in chains : Head(d) = told[k]
                 /\ flows[k] = [entries |-> d, polled |-> <<>>, collapsedInto |-> None]
        <5>1. Head(c) = told[k]
          BY <1>2, <3>4
        <5> QED BY <1>8, <5>1 DEF IsFlow
      <4> QED BY <4>1 DEF Narrates
    <3> QED BY <3>1, <3>4, <3>5, FlowTells
  <2>2. CASE (\A c \in chains : x \notin ToSet(c)) /\ \E g \in groups : x \in ToSet(g)
    <3>1. PICK g \in groups : x \in ToSet(g)
      BY <2>2
    <3>2. g[1] \in ToSet(g) /\ g[1] \in D /\ ~Is("static-asset", es, g[1])
      BY <1>3, <1>4
    <3>3. \A d \in chains : g[1] \notin ToSet(d)
      BY <1>2, <1>3, <1>4, <3>2
    <3>4. PICK k \in K : told[k] = g[1]
      BY <1>2, <1>7, <3>2, <3>3
    <3>5. Narrates(flows[k])
      <4>1. \A h \in groups : g[1] \in ToSet(h) => Head(h) = g[1]
        BY <1>3, <1>6, <3>2
      <4>2. \A c \in chains : Head(c) # told[k]
        BY <1>2, <3>3, <3>4
      <4>3. \E h : flows[k] = [entries |-> <<told[k]>>, polled |-> h, collapsedInto |-> None]
        BY <1>8, <3>4, <4>1, <4>2 DEF IsFlow
      <4> QED BY <4>3 DEF Narrates
    <3> QED BY <3>1, <3>4, <3>5, FlowTells
  <2>3. CASE (\A c \in chains : x \notin ToSet(c)) /\ \A g \in groups : x \notin ToSet(g)
    <3>1. PICK k \in K : told[k] = x
      BY <1>2, <1>7, <1>9, <2>3
    <3>2. Narrates(flows[k])
      <4>1. \A c \in chains : Head(c) # told[k]
        BY <1>2, <2>3, <3>1
      <4>2. flows[k] = [entries |-> <<told[k]>>, polled |-> <<>>, collapsedInto |-> None]
        BY <1>8, <2>3, <3>1, <4>1 DEF IsFlow
      <4> QED BY <4>2 DEF Narrates
    <3> QED BY <3>1, <3>2, FlowTells
  <2> QED BY <2>1, <2>2, <2>3
<1>10. ASSUME NEW k \in K, Narrates(flows[k]), x \in Tells(flows[k])
       PROVE  x \in D /\ ~Is("static-asset", es, x)
  <2>1. \/ x = told[k]
        \/ \E c \in chains : c[1] = told[k] /\ x \in ToSet(c)
        \/ \E g \in groups : g[1] = told[k] /\ x \in ToSet(g)
    BY <1>10, FlowTells
  <2>2. told[k] \in D /\ ~Is("static-asset", es, told[k])
    BY ToldIn
  <2> QED BY <1>2, <1>3, <1>4, <2>1, <2>2
<1> QED BY <1>9, <1>10

---------------------------------------------------------------------------
(* What the document is made of                                            *)

\* The numbers up to N that are in S.
LEMMA KeepIndices ==
  ASSUME NEW N \in Nat, NEW S
  PROVE  LET r == Keep([i \in 1 .. N |-> i], S)
         IN  /\ Once(r, 1 .. N)
             /\ \A k, l \in 1 .. Len(r) : k < l => r[k] < r[l]
             /\ \A x : x \in ToSet(r) <=> x \in 1 .. N /\ x \in S
<1> DEFINE s == [i \in 1 .. N |-> i]
           r == Keep(s, S)
           D == 1 .. N
           m == Len(r)
<1>1. s \in [D -> D] /\ s \in Seq(D) /\ \A i \in D : s[i] = i
  OBVIOUS
<1>2. Len(s) = N
  BY <1>1, LenProperties
<1> HIDE DEF s
<1>3. PICK at : Selects(at, r, s, S)
  <2> HIDE DEF r, D
  <2> QED BY <1>1, KeepSelects DEF r
<1> HIDE DEF r
<1>4. /\ r \in Seq(S) /\ m \in Nat /\ (\A k \in 1 .. m : r[k] \in S)
      /\ at \in [1 .. m -> D]
      /\ \A k \in 1 .. m : r[k] = s[at[k]]
      /\ \A k, l \in 1 .. m : k < l => at[k] < at[l]
      /\ \A i \in D : s[i] \in S => \E k \in 1 .. m : at[k] = i
  BY <1>2, <1>3, LenProperties, ElementOfSeq DEF Selects
<1>5. \A k \in 1 .. m : r[k] = at[k] /\ r[k] \in D
  BY <1>1, <1>4
<1>6. r \in Seq(D)
  <2>1. r \in [1 .. m -> S]
    BY <1>4, LenProperties
  <2> HIDE DEF m
  <2>2. r \in [1 .. m -> D]
    BY <1>5, <2>1
  <2> QED BY <1>4, <2>2, SeqDef
<1>7. \A k, l \in 1 .. m : k < l => r[k] < r[l]
  BY <1>4, <1>5
<1>8. \A k, l \in 1 .. m : r[k] = r[l] => k = l
  <2>1. \A k, l \in 1 .. m : k < l \/ l < k \/ k = l
    BY <1>4
  <2>2. \A k \in 1 .. m : r[k] \in Int
    BY <1>5
  <2>3. ASSUME NEW k \in 1 .. m, NEW l \in 1 .. m, k < l PROVE r[k] # r[l]
    <3>1. r[k] < r[l] /\ r[k] \in Int /\ r[l] \in Int
      BY <1>7, <2>2, <2>3
    <3> QED BY <3>1
  <2> QED BY <2>1, <2>3
<1>9. ASSUME NEW x PROVE x \in ToSet(r) <=> x \in D /\ x \in S
  <2>1. x \in ToSet(r) <=> \E k \in 1 .. m : r[k] = x
    BY <1>6, Elements
  <2> QED BY <1>1, <1>4, <1>5, <2>1
<1>10. Once(r, D)
  BY <1>6, <1>8 DEF Once
<1> QED BY <1>7, <1>9, <1>10 DEF r, s

\* What the signals look at: every entry that is no asset.
LEMMA SurfaceIs ==
  ASSUME NEW es, NEW n, Timed(es, n)
  PROVE  /\ Once(Surface(es), 1 .. n)
         /\ \A x : x \in ToSet(Surface(es)) <=> x \in 1 .. n /\ ~Is("static-asset", es, x)
<1> DEFINE S == {i \in DOMAIN es : ~Is("static-asset", es, i)}
           s == [i \in 1 .. n |-> i]
<1>1. n \in Nat /\ DOMAIN es = 1 .. n
  BY DEF Timed
<1>2. Surface(es) = Keep(s, S)
  BY <1>1 DEF Surface, Indices
<1>3. \A x : x \in S <=> x \in 1 .. n /\ ~Is("static-asset", es, x)
  BY <1>1
<1> HIDE DEF S
<1>4. Once(Keep(s, S), 1 .. n)
  BY <1>1, KeepIndices
<1>5. \A x : x \in ToSet(Keep(s, S)) <=> x \in 1 .. n /\ x \in S
  BY <1>1, KeepIndices
<1> QED BY <1>2, <1>3, <1>4, <1>5

\* The document tells the flows that are no repetitions, in their order.
LEMMA NarrativeIs ==
  ASSUME NEW flows, NEW N \in Nat, DOMAIN flows = 1 .. N
  PROVE  LET nar == NarrativeFlows(flows)
         IN  /\ Once(nar, 1 .. N)
             /\ \A k, l \in 1 .. Len(nar) : k < l => nar[k] < nar[l]
             /\ \A f : f \in ToSet(nar) <=> f \in 1 .. N /\ Narrates(flows[f])
<1> DEFINE S == {f \in DOMAIN flows : flows[f].collapsedInto = None}
           s == [i \in 1 .. N |-> i]
           nar == NarrativeFlows(flows)
<1>1. nar = Keep(s, S)
  BY DEF NarrativeFlows, Indices
<1>2. \A f : f \in S <=> f \in 1 .. N /\ Narrates(flows[f])
  BY DEF Narrates
<1> HIDE DEF S, nar
<1>3. Once(Keep(s, S), 1 .. N)
  BY KeepIndices
<1>4. \A x : x \in ToSet(Keep(s, S)) <=> x \in 1 .. N /\ x \in S
  BY KeepIndices
<1>5. \A k, l \in 1 .. Len(Keep(s, S)) : k < l => Keep(s, S)[k] < Keep(s, S)[l]
  BY KeepIndices
<1> HIDE DEF s
<1> QED BY <1>1, <1>2, <1>3, <1>4, <1>5 DEF nar

---------------------------------------------------------------------------
LEMMA FlowParts ==
  ASSUME NEW es, NEW D, NEW chains, NEW groups, NEW told, NEW flows,
         AreFlows(es, D, chains, groups, told, flows),
         NEW k \in 1 .. Len(told), Narrates(flows[k])
  PROVE  /\ Once(flows[k].entries, D) /\ Once(flows[k].polled, D)
         /\ Disjoint(ToSet(flows[k].entries), ToSet(flows[k].polled))
         /\ flows[k].entries # <<>>
         /\ flows[k].entries[1] = told[k]
<1> DEFINE i == told[k]
           flow == flows[k]
<1>1. AreChains(es, chains, D) /\ AreGroups(es, groups, D) /\ i \in D
  BY ToldIn DEF AreFlows
<1>2. IsAlone(chains, groups, i, flow) \/ IsChained(chains, i, flow) \/ IsRepeated(groups, i, flow)
  BY KindOfFlow
<1> HIDE DEF i, flow
<1>3. Once(<<i>>, D) /\ <<i>>[1] = i /\ <<i>> # <<>>
  BY <1>1 DEF Once
<1>4. Once(<<>>, D) /\ ToSet(<<>>) = {}
  BY EmptySeq DEF Once, ToSet
<1>5. CASE IsAlone(chains, groups, i, flow)
  BY <1>3, <1>4, <1>5 DEF IsAlone, Disjoint, flow, i
<1>6. CASE IsChained(chains, i, flow)
  <2>1. PICK c \in chains : c # <<>> /\ c[1] = i /\ flow.entries = c /\ flow.polled = <<>>
    BY <1>6 DEF IsChained
  <2>2. Once(c, D)
    BY <1>1, ChainFacts
  <2> QED BY <1>4, <2>1, <2>2 DEF Disjoint, flow, i
<1>7. CASE IsRepeated(groups, i, flow)
  <2>1. PICK g \in groups : g[1] = i /\ flow.entries = <<i>> /\ flow.polled = Tail(g)
    BY <1>7 DEF IsRepeated
  <2>2. Once(Tail(g), D) /\ i \notin ToSet(Tail(g))
    BY <1>1, <2>1, GroupFacts
  <2>3. Disjoint(ToSet(<<i>>), ToSet(Tail(g)))
    BY <2>2, Single DEF Disjoint
  <2> QED BY <1>3, <2>1, <2>2, <2>3 DEF flow, i
<1> QED BY <1>2, <1>5, <1>6, <1>7

\* Of the repetitions up to three are named, and the others counted.
LEMMA NoteOf ==
  ASSUME NEW D, NEW flow, Once(flow.polled, D)
  PROVE  LET note == PollingNote(flow)
         IN  /\ Once(note.named, D)
             /\ \A x \in ToSet(note.named) : x \in ToSet(flow.polled)
             /\ note.more \in Nat
             /\ Len(note.named) + note.more = Len(flow.polled)
<1> DEFINE p == flow.polled
           z == Len(p)
           b == IF z < 3 THEN z ELSE 3
           a == SubSeq(p, 1, b)
           more == IF z > 3 THEN z - 3 ELSE 0
<1>1. PollingNote(flow) = [named |-> a, more |-> more]
  BY DEF PollingNote
<1>2. p \in Seq(D) /\ z \in Nat /\ (\A k \in 1 .. z : p[k] \in D)
      /\ \A k, l \in 1 .. z : p[k] = p[l] => k = l
  BY LenProperties, ElementOfSeq DEF Once
<1> HIDE DEF z, p
<1>3. b \in Nat /\ b <= z /\ more \in Nat /\ b + more = z
  BY <1>2
<1> HIDE DEF b, more
<1>4. 1 \in Int /\ b \in Int /\ \A k \in 1 .. b : k \in 1 .. z
  BY <1>2, <1>3
<1>5. a \in Seq(D) /\ Len(a) = b /\ \A k \in 1 .. b : a[k] = p[k]
  <2>1. \A k \in 1 .. b : p[k] \in D
    BY <1>2, <1>4
  <2>2. SubSeq(p, 1, b) \in Seq(D)
    BY <1>4, <2>1, SubSeqProperties
  <2>3. Len(SubSeq(p, 1, b)) = IF 1 <= b THEN b - 1 + 1 ELSE 0
    BY <1>4, <2>1, SubSeqProperties
  <2>4. \A k \in 1 .. b - 1 + 1 : SubSeq(p, 1, b)[k] = p[1 + k - 1]
    BY <1>4, <2>1, SubSeqProperties
  <2>5. (IF 1 <= b THEN b - 1 + 1 ELSE 0) = b /\ b - 1 + 1 = b /\ \A k \in 1 .. b : 1 + k - 1 = k
    BY <1>3
  <2> QED BY <2>2, <2>3, <2>4, <2>5
<1> HIDE DEF a
<1>6. Once(a, D)
  BY <1>2, <1>4, <1>5 DEF Once
<1>7. ASSUME NEW x \in ToSet(a) PROVE x \in ToSet(p)
  <2>1. PICK k \in 1 .. b : a[k] = x
    BY <1>5, Elements
  <2>2. k \in 1 .. z /\ p[k] = x
    BY <1>4, <1>5, <2>1
  <2> QED BY <1>2, <2>2, Elements DEF z
<1>8. PollingNote(flow).named = a /\ PollingNote(flow).more = more
  BY <1>1
<1> QED BY <1>3, <1>5, <1>6, <1>7, <1>8 DEF p, z

---------------------------------------------------------------------------
(* Assets                                                                  *)

\* Clusters have no entry in common.
LEMMA ClustersApart ==
  ASSUME NEW es, NEW n, Timed(es, n)
  PROVE  LET cl == ClusterEntries(es)
         IN  \A c, d \in ToSet(cl) : \A x : x \in ToSet(c) /\ x \in ToSet(d) => c = d
<1> DEFINE cl == ClusterEntries(es)
           D == 1 .. n
<1>1. cl \in Seq(Seq(D)) /\ FlattenSeq(cl) = ByTime(es)
  BY ClustersAre
<1>2. Ordered(es, ByTime(es), D)
  BY ByTimeOrdered
<1>3. Once(FlattenSeq(cl), D)
  BY <1>1, <1>2, OrderedOnce
<1> HIDE DEF cl, D
<1>4. \A k, l \in 1 .. Len(cl) : \A x : x \in ToSet(cl[k]) /\ x \in ToSet(cl[l]) => k = l
  BY <1>1, <1>3, PartsOnce
<1>5. \A c : c \in ToSet(cl) <=> \E k \in 1 .. Len(cl) : cl[k] = c
  BY <1>1, Elements
<1>6. ASSUME NEW c \in ToSet(cl), NEW d \in ToSet(cl), NEW x, x \in ToSet(c), x \in ToSet(d)
      PROVE  c = d
  <2>1. PICK k \in 1 .. Len(cl) : cl[k] = c
    BY <1>5
  <2>2. PICK l \in 1 .. Len(cl) : cl[l] = d
    BY <1>5
  <2> QED BY <1>4, <1>6, <2>1, <2>2
<1> QED BY <1>6 DEF cl

\* A summary's assets belong to the cluster that the flow's first entry begins, and were
\* loaded by the page it is.
LEMMA AssetsAre ==
  ASSUME NEW es, NEW n, Timed(es, n), NEW flow, NEW i \in AssetsSummary(es, flow)
  PROVE  /\ Is("static-asset", es, i)
         /\ Referer(es[i]) = <<es[Primary(flow)].url>>
         /\ \E c \in ToSet(ClusterEntries(es)) : c[1] = Primary(flow) /\ i \in ToSet(c)
<1> DEFINE cl == ClusterEntries(es)
           D == 1 .. n
           a == Primary(flow)
<1>1. cl \in Seq(Seq(D)) /\ AreActivities(es, cl)
  BY ClustersAre
<1> HIDE DEF cl, a
<1>2. Category(es[a]) = "navigation" /\ Is("static-asset", es, i)
      /\ \E c \in ToSet(cl) : c[1] = a /\ i \in ToSet(Tail(c))
  BY DEF AssetsSummary, cl, a
<1>3. PICK c \in ToSet(cl) : c[1] = a /\ i \in ToSet(Tail(c))
  BY <1>2
<1>4. PICK k \in 1 .. Len(cl) : cl[k] = c
  BY <1>1, Elements
<1>5. c \in Seq(D) /\ c # <<>> /\ Len(c) \in Nat
      /\ \A m \in 2 .. Len(c) : ~Parted(es, c[m - 1], c[m], c[1])
  BY <1>1, <1>4, ElementOfSeq, LenProperties DEF AreActivities
<1> HIDE DEF D
<1>6. Tail(c) \in Seq(D) /\ Len(Tail(c)) = Len(c) - 1
      /\ \A m \in 1 .. Len(c) - 1 : Tail(c)[m] = c[m + 1]
  BY <1>5, HeadTailProperties
<1>7. PICK m \in 1 .. Len(c) - 1 : Tail(c)[m] = i
  <2> DEFINE t == Tail(c)
  <2>1. t \in Seq(D) /\ Len(t) = Len(c) - 1 /\ i \in ToSet(t)
    BY <1>3, <1>6
  <2> HIDE DEF t
  <2>2. \E m \in 1 .. Len(t) : t[m] = i
    BY <2>1, Elements
  <2> QED BY <2>1, <2>2 DEF t
<1>8. m + 1 \in 2 .. Len(c) /\ m + 1 \in 1 .. Len(c) /\ c[m + 1] = i
  BY <1>5, <1>6, <1>7
<1>9. ~Parted(es, c[(m + 1) - 1], i, a)
  BY <1>3, <1>5, <1>8
<1>10. Referer(es[i]) = <<es[a].url>>
  BY <1>2, <1>9 DEF Parted
<1>11. i \in ToSet(c)
  BY <1>5, <1>8, Elements
<1> QED BY <1>2, <1>3, <1>10, <1>11 DEF cl, a

\* What a section tells of a flow, and when it begins.
LEMMA SectionIs ==
  ASSUME NEW es, NEW found, NEW id, NEW flow
  PROVE  LET s == Section(es, found, id, flow)
         IN  /\ s.hops = flow.entries
             /\ s.polling = PollingNote(flow)
             /\ s.assets.assets = AssetsSummary(es, flow)
             /\ s.heading.at = es[Primary(flow)].at
             /\ s.heading.flow = id
             /\ s.notes = Notes(found, Primary(flow))
BY DEF Section, AssetLine, Heading

LEMMA SectionsAre ==
  ASSUME NEW es, NEW flows
  PROVE  LET nar == NarrativeFlows(flows)
             sections == Document(es, flows).sections
         IN  /\ sections = [k \in DOMAIN nar |-> sections[k]]
             /\ \A k \in DOMAIN nar : sections[k].hops = flows[nar[k]].entries
             /\ \A k \in DOMAIN nar : sections[k].polling = PollingNote(flows[nar[k]])
             /\ \A k \in DOMAIN nar : sections[k].assets.assets = AssetsSummary(es, flows[nar[k]])
             /\ \A k \in DOMAIN nar : sections[k].heading.at = es[Primary(flows[nar[k]])].at
             /\ \A k \in DOMAIN nar : sections[k].heading.flow = nar[k]
             /\ \A k \in DOMAIN nar : sections[k].notes = Notes(Found(es), Primary(flows[nar[k]]))
<1> DEFINE nar == NarrativeFlows(flows)
           found == Found(es)
           made == [k \in DOMAIN nar |-> Section(es, found, nar[k], flows[nar[k]])]
           sections == Document(es, flows).sections
<1>1. sections = made
  BY DEF Document
<1>2. \A k \in DOMAIN nar : made[k] = Section(es, found, nar[k], flows[nar[k]])
  OBVIOUS
<1>3. made = [k \in DOMAIN nar |-> made[k]]
  OBVIOUS
<1> HIDE DEF made, sections, found, nar
<1>4. ASSUME NEW k \in DOMAIN nar
      PROVE  /\ sections[k].hops = flows[nar[k]].entries
             /\ sections[k].polling = PollingNote(flows[nar[k]])
             /\ sections[k].assets.assets = AssetsSummary(es, flows[nar[k]])
             /\ sections[k].heading.at = es[Primary(flows[nar[k]])].at
             /\ sections[k].heading.flow = nar[k]
             /\ sections[k].notes = Notes(found, Primary(flows[nar[k]]))
  BY <1>1, <1>2, SectionIs
<1>5. sections = [k \in DOMAIN nar |-> sections[k]]
  BY <1>1, <1>3
<1> QED BY <1>4, <1>5 DEF sections, nar, found

\* The flows that are told, by number, in their order.
IsNarrative(nar, flows, N) ==
  /\ Once(nar, 1 .. N)
  /\ \A k, l \in 1 .. Len(nar) : k < l => nar[k] < nar[l]
  /\ \A f : f \in ToSet(nar) <=> f \in 1 .. N /\ Narrates(flows[f])

LEMMA Narrated ==
  ASSUME NEW nar, NEW flows, NEW N, IsNarrative(nar, flows, N)
  PROVE  /\ Len(nar) \in Nat /\ DOMAIN nar = 1 .. Len(nar)
         /\ \A k \in 1 .. Len(nar) : nar[k] \in 1 .. N
         /\ \A k \in 1 .. Len(nar) : Narrates(flows[nar[k]])
         /\ \A k, l \in 1 .. Len(nar) : nar[k] = nar[l] => k = l
         /\ \A f \in 1 .. N : Narrates(flows[f]) => \E k \in 1 .. Len(nar) : nar[k] = f
<1>1. nar \in Seq(1 .. N)
  BY DEF IsNarrative, Once
<1>2. Len(nar) \in Nat /\ DOMAIN nar = 1 .. Len(nar)
  BY <1>1, LenProperties
<1>3. \A x : x \in ToSet(nar) <=> \E k \in 1 .. Len(nar) : nar[k] = x
  BY <1>1, Elements
<1> QED BY <1>2, <1>3 DEF IsNarrative, Once

LEMMA SequenceOf ==
  ASSUME NEW Q, NEW N \in Nat, NEW F, F = [k \in 1 .. N |-> F[k]], \A k \in 1 .. N : F[k] \in Q
  PROVE  F \in Seq(Q) /\ Len(F) = N
<1>1. F \in [1 .. N -> Q] /\ DOMAIN F = 1 .. N
  OBVIOUS
<1>2. F \in Seq(Q)
  BY <1>1, SeqDef
<1> DEFINE m == Len(F)
<1>3. m \in Nat /\ 1 .. m = 1 .. N
  BY <1>1, <1>2, LenProperties
<1> HIDE DEF m
<1>4. m = N
  BY <1>3
<1> QED BY <1>2, <1>4 DEF m

\* Entries, repetitions, and what is noted of them, flow by flow.
AreParts(E, P, A, M, flows, nar) ==
  /\ E = [k \in 1 .. Len(nar) |-> flows[nar[k]].entries]
  /\ P = [k \in 1 .. Len(nar) |-> flows[nar[k]].polled]
  /\ A = [k \in 1 .. Len(nar) |-> PollingNote(flows[nar[k]]).named]
  /\ M = [k \in 1 .. Len(nar) |-> PollingNote(flows[nar[k]]).more]

\* The sections tell every flow's entries, and name or count its repetitions, once.
LEMMA SectionsTell ==
  ASSUME NEW es, NEW D, NEW chains, NEW groups, NEW told, NEW flows,
         AreFlows(es, D, chains, groups, told, flows),
         NEW nar, IsNarrative(nar, flows, Len(told)),
         NEW E, NEW P, NEW A, NEW M,
         AreParts(E, P, A, M, flows, nar)
  PROVE  /\ AreTold(E, P, A, M, D)
         /\ Len(E) = Len(nar)
         /\ \A x : x \in ToldBy(E, P, Len(E)) <=> x \in D /\ ~Is("static-asset", es, x)
<1> DEFINE N == Len(nar)
<1>1. /\ N \in Nat
      /\ \A k \in 1 .. N : nar[k] \in 1 .. Len(told)
      /\ \A k \in 1 .. N : Narrates(flows[nar[k]])
      /\ \A k, l \in 1 .. N : nar[k] = nar[l] => k = l
      /\ \A f \in 1 .. Len(told) : Narrates(flows[f]) => \E k \in 1 .. N : nar[k] = f
  BY Narrated
<1> HIDE DEF N
<1>2. ASSUME NEW k \in 1 .. N
      PROVE  /\ Once(E[k], D) /\ Once(P[k], D) /\ Once(A[k], D)
             /\ ToSet(A[k]) \subseteq ToSet(P[k])
             /\ Len(A[k]) + M[k] = Len(P[k]) /\ M[k] \in Nat
             /\ Disjoint(ToSet(E[k]), ToSet(P[k]))
  <2> DEFINE flow == flows[nar[k]]
  <2>1. E[k] = flow.entries /\ P[k] = flow.polled
        /\ A[k] = PollingNote(flow).named /\ M[k] = PollingNote(flow).more
    BY DEF AreParts, N
  <2>2. nar[k] \in 1 .. Len(told) /\ Narrates(flow)
    BY <1>1
  <2>3. Once(flow.entries, D) /\ Once(flow.polled, D) /\ Disjoint(ToSet(flow.entries), ToSet(flow.polled))
    BY <2>2, FlowParts
  <2> HIDE DEF flow
  <2>4. /\ Once(PollingNote(flow).named, D)
        /\ \A x \in ToSet(PollingNote(flow).named) : x \in ToSet(flow.polled)
        /\ PollingNote(flow).more \in Nat
        /\ Len(PollingNote(flow).named) + PollingNote(flow).more = Len(flow.polled)
    BY <2>3, NoteOf
  <2> QED BY <2>1, <2>3, <2>4
<1>3. /\ E \in Seq(Seq(D)) /\ P \in Seq(Seq(D)) /\ A \in Seq(Seq(D)) /\ M \in Seq(Nat)
      /\ Len(E) = N /\ Len(P) = N /\ Len(A) = N /\ Len(M) = N
  <2> DEFINE Q == Seq(D)
  <2>1. \A k \in 1 .. N : E[k] \in Q /\ P[k] \in Q /\ A[k] \in Q /\ M[k] \in Nat
    BY <1>2 DEF Once
  <2>2. E = [k \in 1 .. N |-> E[k]] /\ P = [k \in 1 .. N |-> P[k]]
        /\ A = [k \in 1 .. N |-> A[k]] /\ M = [k \in 1 .. N |-> M[k]]
    BY DEF AreParts, N
  <2> HIDE DEF Q
  <2>3. E \in Seq(Q) /\ Len(E) = N
    BY <1>1, <2>1, <2>2, SequenceOf
  <2>4. P \in Seq(Q) /\ Len(P) = N
    BY <1>1, <2>1, <2>2, SequenceOf
  <2>5. A \in Seq(Q) /\ Len(A) = N
    BY <1>1, <2>1, <2>2, SequenceOf
  <2>6. M \in Seq(Nat) /\ Len(M) = N
    BY <1>1, <2>1, <2>2, SequenceOf
  <2> QED BY <2>3, <2>4, <2>5, <2>6 DEF Q
<1>4. \A k \in 1 .. N : \A x :
        (x \in ToSet(E[k]) \cup ToSet(P[k])) <=> x \in Tells(flows[nar[k]])
  BY DEF Tells, AreParts, N
<1>5. ASSUME NEW k \in 1 .. N, NEW l \in 1 .. N, NEW x,
             x \in ToSet(E[k]) \cup ToSet(P[k]), x \in ToSet(E[l]) \cup ToSet(P[l])
      PROVE  k = l
  <2>1. x \in Tells(flows[nar[k]]) /\ x \in Tells(flows[nar[l]])
    BY <1>4, <1>5
  <2> DEFINE f == nar[k]
             g == nar[l]
  <2>2. /\ f \in 1 .. Len(told) /\ g \in 1 .. Len(told)
        /\ Narrates(flows[f]) /\ Narrates(flows[g])
        /\ x \in Tells(flows[f]) /\ x \in Tells(flows[g])
    BY <1>1, <2>1
  <2> HIDE DEF f, g
  <2>3. \A i, j \in 1 .. Len(told) : \A y :
           /\ Narrates(flows[i]) /\ y \in Tells(flows[i])
           /\ Narrates(flows[j]) /\ y \in Tells(flows[j])
           => i = j
    BY TellsApart
  <2>4. f = g
    BY <2>2, <2>3
  <2> QED BY <1>1, <2>4 DEF f, g
<1>6. AreTold(E, P, A, M, D)
  BY <1>2, <1>3, <1>5 DEF AreTold
<1>7. ASSUME NEW x PROVE x \in ToldBy(E, P, N) <=> x \in D /\ ~Is("static-asset", es, x)
  <2>1. x \in ToldBy(E, P, N) <=> \E k \in 1 .. N : x \in Tells(flows[nar[k]])
    BY <1>4 DEF ToldBy
  <2>2. x \in D /\ ~Is("static-asset", es, x) <=>
          \E f \in 1 .. Len(told) : Narrates(flows[f]) /\ x \in Tells(flows[f])
    BY TellsAll
  <2> QED BY <1>1, <2>1, <2>2
<1> QED BY <1>3, <1>6, <1>7 DEF N

---------------------------------------------------------------------------
(* The document                                                            *)

\* What the sections s are made of: the flows that nar numbers.
AreSections(es, s, flows, nar) ==
  LET N == Len(nar) IN
  /\ s = [k \in 1 .. N |-> s[k]]
  /\ \A k \in 1 .. N : s[k].hops = flows[nar[k]].entries
  /\ \A k \in 1 .. N : s[k].polling = PollingNote(flows[nar[k]])
  /\ \A k \in 1 .. N : s[k].assets.assets = AssetsSummary(es, flows[nar[k]])
  /\ \A k \in 1 .. N : s[k].heading.at = es[Primary(flows[nar[k]])].at

\* Every request is told, or counted, once.
LEMMA SectionsTellOnce ==
  ASSUME NEW es, NEW n, Timed(es, n), NEW chains, NEW groups, NEW told, NEW flows,
         AreFlows(es, 1 .. n, chains, groups, told, flows),
         NEW nar, IsNarrative(nar, flows, Len(told)), NEW s, AreSections(es, s, flows, nar)
  PROVE  LET hops == FlattenSeq([k \in DOMAIN s |-> s[k].hops])
             named == FlattenSeq([k \in DOMAIN s |-> s[k].polling.named])
             more == Total([k \in DOMAIN s |-> s[k].polling.more])
         IN  /\ Once(hops \o named, 1 .. n)
             /\ \A x \in ToSet(hops \o named) : ~Is("static-asset", es, x)
             /\ Len(hops) + Len(named) + more = Len(Surface(es))
<1> DEFINE D == 1 .. n
           N == Len(nar)
           E == [k \in DOMAIN s |-> s[k].hops]
           A == [k \in DOMAIN s |-> s[k].polling.named]
           M == [k \in DOMAIN s |-> s[k].polling.more]
           P == [k \in 1 .. N |-> flows[nar[k]].polled]
<1>1. DOMAIN s = 1 .. N
  BY DEF AreSections
<1>2. AreParts(E, P, A, M, flows, nar)
  <2>1. \A k \in 1 .. N : s[k].hops = flows[nar[k]].entries
    BY DEF AreSections
  <2>2. \A k \in 1 .. N : s[k].polling.named = PollingNote(flows[nar[k]]).named
    BY DEF AreSections
  <2>3. \A k \in 1 .. N : s[k].polling.more = PollingNote(flows[nar[k]]).more
    BY DEF AreSections
  <2>4. E = [k \in 1 .. N |-> flows[nar[k]].entries]
    BY <1>1, <2>1
  <2>5. A = [k \in 1 .. N |-> PollingNote(flows[nar[k]]).named]
    BY <1>1, <2>2
  <2>6. M = [k \in 1 .. N |-> PollingNote(flows[nar[k]]).more]
    BY <1>1, <2>3
  <2> QED BY <2>4, <2>5, <2>6 DEF AreParts
<1> HIDE DEF E, A, M, P, D, N
<1>3. /\ AreTold(E, P, A, M, D)
      /\ \A x : x \in ToldBy(E, P, Len(E)) <=> x \in D /\ ~Is("static-asset", es, x)
  <2>1. AreFlows(es, D, chains, groups, told, flows)
    BY DEF D
  <2>2. AreTold(E, P, A, M, D)
    BY <1>2, <2>1, SectionsTell
  <2>3. \A x : x \in ToldBy(E, P, Len(E)) <=> x \in D /\ ~Is("static-asset", es, x)
    BY <1>2, <2>1, SectionsTell
  <2> QED BY <2>2, <2>3
<1> DEFINE hops == FlattenSeq(E)
           named == FlattenSeq(A)
           U == ToldBy(E, P, Len(E))
<1>4. /\ Once(hops \o named, D)
      /\ ToSet(hops \o named) \subseteq U
      /\ Len(hops) + Len(named) + Total(M) = Cardinality(U)
  BY <1>3, Tally
<1>5. Once(Surface(es), D) /\ \A x : x \in ToSet(Surface(es)) <=> x \in D /\ ~Is("static-asset", es, x)
  BY SurfaceIs DEF D
<1>6. Cardinality(ToSet(Surface(es))) = Len(Surface(es))
  BY <1>5, OnceCount
<1> HIDE DEF U
<1>7. ToSet(Surface(es)) = U
  BY <1>3, <1>5 DEF U
<1>8. \A x \in ToSet(hops \o named) : ~Is("static-asset", es, x)
  BY <1>3, <1>4 DEF U
<1> HIDE DEF hops, named
<1>9. Len(hops) + Len(named) + Total(M) = Len(Surface(es))
  BY <1>4, <1>6, <1>7
<1> QED BY <1>4, <1>8, <1>9 DEF hops, named, E, A, M, D

\* Assets belong to the section of the page that loaded them, and to no other.
LEMMA SectionsHaveAssets ==
  ASSUME NEW es, NEW n, Timed(es, n), NEW chains, NEW groups, NEW told, NEW flows,
         AreFlows(es, 1 .. n, chains, groups, told, flows),
         NEW nar, IsNarrative(nar, flows, Len(told)), NEW s, AreSections(es, s, flows, nar)
  PROVE  /\ \A k \in 1 .. Len(nar) : \A i \in s[k].assets.assets : Is("static-asset", es, i)
         /\ \A k \in 1 .. Len(nar) : \A i \in s[k].assets.assets : Referer(es[i]) = <<es[s[k].hops[1]].url>>
         /\ \A k, l \in 1 .. Len(nar) : \A i :
              i \in s[k].assets.assets /\ i \in s[l].assets.assets => k = l
<1> DEFINE N == Len(nar)
           cl == ClusterEntries(es)
<1>1. /\ \A k \in 1 .. N : nar[k] \in 1 .. Len(told)
      /\ \A k \in 1 .. N : Narrates(flows[nar[k]])
      /\ \A k, l \in 1 .. N : nar[k] = nar[l] => k = l
  BY Narrated
<1>2. \A k \in 1 .. N : Primary(flows[nar[k]]) = told[nar[k]]
  <2>1. \A f \in 1 .. Len(told) : Narrates(flows[f]) => flows[f].entries[1] = told[f]
    BY FlowParts
  <2> QED BY <1>1, <2>1 DEF Primary
<1>3. \A f, g \in 1 .. Len(told) : told[f] = told[g] => f = g
  BY DEF AreFlows, Once
<1>4. \A c, d \in ToSet(cl) : \A x : x \in ToSet(c) /\ x \in ToSet(d) => c = d
  BY ClustersApart
<1> HIDE DEF cl
<1>5. ASSUME NEW k \in 1 .. N, NEW i \in s[k].assets.assets
      PROVE  /\ Is("static-asset", es, i)
             /\ Referer(es[i]) = <<es[s[k].hops[1]].url>>
             /\ \E c \in ToSet(cl) : c[1] = told[nar[k]] /\ i \in ToSet(c)
  <2> DEFINE flow == flows[nar[k]]
  <2>1. s[k].hops[1] = Primary(flow) /\ i \in AssetsSummary(es, flow)
    BY <1>5 DEF AreSections, Primary
  <2>2. Primary(flow) = told[nar[k]]
    BY <1>2
  <2> HIDE DEF flow
  <2>3. /\ Is("static-asset", es, i)
        /\ Referer(es[i]) = <<es[Primary(flow)].url>>
        /\ \E c \in ToSet(cl) : c[1] = Primary(flow) /\ i \in ToSet(c)
    BY <2>1, AssetsAre DEF cl
  <2> QED BY <2>1, <2>2, <2>3
<1>6. ASSUME NEW k \in 1 .. N, NEW l \in 1 .. N, NEW i,
             i \in s[k].assets.assets, i \in s[l].assets.assets
      PROVE  k = l
  <2>1. PICK c \in ToSet(cl) : c[1] = told[nar[k]] /\ i \in ToSet(c)
    BY <1>5, <1>6
  <2>2. PICK d \in ToSet(cl) : d[1] = told[nar[l]] /\ i \in ToSet(d)
    BY <1>5, <1>6
  <2>3. c = d
    BY <1>4, <2>1, <2>2
  <2>4. nar[k] = nar[l]
    BY <1>1, <1>3, <2>1, <2>2, <2>3
  <2> QED BY <1>1, <2>4
<1> QED BY <1>5, <1>6 DEF N

\* Sections come in the order of time.
LEMMA SectionsOrdered ==
  ASSUME NEW es, NEW n, Timed(es, n), NEW chains, NEW groups, NEW told, NEW flows,
         AreFlows(es, 1 .. n, chains, groups, told, flows),
         NEW nar, IsNarrative(nar, flows, Len(told)), NEW s, AreSections(es, s, flows, nar)
  PROVE  \A k \in 2 .. Len(nar) : s[k - 1].heading.at <= s[k].heading.at
<1> DEFINE N == Len(nar)
<1>1. N \in Nat /\ \A k \in 1 .. N : nar[k] \in 1 .. Len(told) /\ Narrates(flows[nar[k]])
  BY Narrated
<1>2. \A k \in 1 .. N : s[k].heading.at = es[told[nar[k]]].at
  <2>1. \A f \in 1 .. Len(told) : Narrates(flows[f]) => flows[f].entries[1] = told[f]
    BY FlowParts
  <2> QED BY <1>1, <2>1 DEF AreSections, Primary
<1>3. ASSUME NEW k \in 2 .. N PROVE s[k - 1].heading.at <= s[k].heading.at
  <2>1. k - 1 \in 1 .. N /\ k \in 1 .. N /\ k - 1 < k
    BY <1>1
  <2>2. nar[k - 1] < nar[k]
    BY <2>1 DEF IsNarrative
  <2> DEFINE i == told[nar[k - 1]]
             j == told[nar[k]]
  <2>3. Before(es, i, j) /\ i \in 1 .. n /\ j \in 1 .. n
    <3> DEFINE a == nar[k - 1]
               b == nar[k]
    <3>1. a < b /\ a \in 1 .. Len(told) /\ b \in 1 .. Len(told)
      BY <1>1, <2>1, <2>2
    <3> HIDE DEF a, b
    <3>2. Ordered(es, told, 1 .. n) /\ told \in Seq(1 .. n)
      BY DEF AreFlows, Once
    <3>3. Before(es, told[a], told[b])
      BY <3>1, <3>2 DEF Ordered
    <3>4. told[a] \in 1 .. n /\ told[b] \in 1 .. n
      BY <3>1, <3>2, ElementOfSeq
    <3> QED BY <3>3, <3>4 DEF a, b
  <2>4. s[k - 1].heading.at = es[i].at /\ s[k].heading.at = es[j].at
    BY <1>2, <2>1
  <2> HIDE DEF i, j
  <2>5. es[i].at \in Int /\ es[j].at \in Int
    BY <2>3 DEF Timed
  <2>6. es[i].at < es[j].at \/ es[i].at = es[j].at
    BY <2>3 DEF Before
  <2> DEFINE a == es[i].at
             b == es[j].at
  <2>7. a <= b
    <3> HIDE DEF a, b
    <3>1. a \in Int /\ b \in Int /\ (a < b \/ a = b)
      BY <2>5, <2>6 DEF a, b
    <3> QED BY <3>1
  <2> QED BY <2>4, <2>7
<1> QED BY <1>3 DEF N

\* analysis/render.py, render_analysis_md over build_flows: the document tells every
\* request that is no asset once, as a section, a hop or a repetition, counts assets with
\* the page that loaded them and with no other, and keeps to the order of time, whatever
\* was captured.
THEOREM DocumentTells ==
  ASSUME NEW es, NEW n, Timed(es, n)
  PROVE  EveryRequestIsToldOnce(es)
<1> DEFINE D == 1 .. n
           chains == ToSet(RedirectChains(es))
           groups == PollingGroups(es)
           told == Told(es)
           flows == BuildFlows(es)
           nar == NarrativeFlows(flows)
           s == Document(es, flows).sections
<1>1. AreFlows(es, D, chains, groups, told, flows)
  BY ManifestIs
<1>2. s = [k \in DOMAIN nar |-> s[k]]
      /\ (\A k \in DOMAIN nar : s[k].hops = flows[nar[k]].entries)
      /\ (\A k \in DOMAIN nar : s[k].polling = PollingNote(flows[nar[k]]))
      /\ (\A k \in DOMAIN nar : s[k].assets.assets = AssetsSummary(es, flows[nar[k]]))
      /\ (\A k \in DOMAIN nar : s[k].heading.at = es[Primary(flows[nar[k]])].at)
  BY SectionsAre
<1>3. EveryRequestIsToldOnce(es) <=> ToldOnce(es, s)
  BY DEF EveryRequestIsToldOnce
<1> HIDE DEF chains, groups, told, flows, s
<1>4. Len(told) \in Nat /\ DOMAIN flows = 1 .. Len(told)
  BY <1>1, LenProperties DEF AreFlows, Once
<1>5. IsNarrative(nar, flows, Len(told))
  BY <1>4, NarrativeIs DEF IsNarrative
<1> HIDE DEF nar
<1> DEFINE N == Len(nar)
<1>6. N \in Nat /\ DOMAIN nar = 1 .. N
  BY <1>5, Narrated
<1>7. AreSections(es, s, flows, nar)
  BY <1>2, <1>6 DEF AreSections
<1>8. DOMAIN s = 1 .. N /\ s = [k \in 1 .. N |-> s[k]]
  BY <1>7 DEF AreSections
<1> HIDE DEF N
<1>9. Len(s) = N /\ \A t : t \in ToSet(s) <=> \E k \in 1 .. N : s[k] = t
  <2>1. \A k \in 1 .. N : s[k] \in ToSet(s)
    BY <1>8 DEF ToSet
  <2>2. s \in Seq(ToSet(s)) /\ Len(s) = N
    BY <1>6, <1>8, <2>1, SequenceOf
  <2> QED BY <1>8, <2>2 DEF ToSet
<1> DEFINE hops == FlattenSeq([k \in DOMAIN s |-> s[k].hops])
           named == FlattenSeq([k \in DOMAIN s |-> s[k].polling.named])
           more == Total([k \in DOMAIN s |-> s[k].polling.more])
           assets == UNION {t.assets.assets : t \in ToSet(s)}
<1>10. /\ Once(hops \o named, D)
       /\ \A x \in ToSet(hops \o named) : ~Is("static-asset", es, x)
       /\ Len(hops) + Len(named) + more = Len(Surface(es))
  BY <1>1, <1>5, <1>7, SectionsTellOnce
<1>11. /\ \A k \in 1 .. N : \A i \in s[k].assets.assets : Is("static-asset", es, i)
       /\ \A k \in 1 .. N : \A i \in s[k].assets.assets : Referer(es[i]) = <<es[s[k].hops[1]].url>>
       /\ \A k, l \in 1 .. N : \A i :
            i \in s[k].assets.assets /\ i \in s[l].assets.assets => k = l
  BY <1>1, <1>5, <1>7, SectionsHaveAssets DEF N
<1>12. \A k \in 2 .. N : s[k - 1].heading.at <= s[k].heading.at
  BY <1>1, <1>5, <1>7, SectionsOrdered DEF N
<1> HIDE DEF hops, named, more
<1>13. IsInjective(hops \o named)
  <2>1. DOMAIN (hops \o named) = 1 .. Len(hops \o named)
    BY <1>10, LenProperties DEF Once
  <2> QED BY <1>10, <2>1 DEF Once, IsInjective
<1>14. assets \cap ToSet(hops \o named) = {}
  <2>1. \A x \in assets : Is("static-asset", es, x)
    BY <1>9, <1>11
  <2> HIDE DEF assets
  <2> QED BY <1>10, <2>1
<1>15. \A t \in ToSet(s) : \A i \in t.assets.assets : Referer(es[i]) = <<es[t.hops[1]].url>>
  BY <1>9, <1>11
<1>16. \A t, u \in ToSet(s) : t # u => t.assets.assets \cap u.assets.assets = {}
  BY <1>9, <1>11
<1>17. \A k \in 2 .. Len(s) : s[k - 1].heading.at <= s[k].heading.at
  BY <1>9, <1>12
<1>18. ToldOnce(es, s)
  BY <1>10, <1>13, <1>14, <1>15, <1>16, <1>17 DEF ToldOnce, hops, named, more
<1> QED BY <1>3, <1>18

\* The documents of every capture that is recorded.
THEOREM DocumentsAccountForAll == Spec => []DocumentAccountsForAll
<1>1. InputsOK => DocumentAccountsForAll
  <2> SUFFICES ASSUME InputsOK, subject = "capture" PROVE EveryRequestIsToldOnce(input)
    BY DEF DocumentAccountsForAll
  <2>1. given \in Kinds /\ input \in Seq(Recorded(given))
    BY DEF InputsOK
  <2>2. Len(input) \in Nat /\ DOMAIN input = 1 .. Len(input)
        /\ \A i \in 1 .. Len(input) : input[i] \in Recorded(given)
    BY <2>1, LenProperties, ElementOfSeq
  <2>3. Timed(input, Len(input))
    BY <2>1, <2>2, RecordedIsEntry DEF Timed
  <2> QED BY <2>3, DocumentTells
<1> QED BY <1>1, InputsInductive, PTL

---------------------------------------------------------------------------
(* Repetitions                                                             *)

\* A flow that is a repetition names an earlier one that is none, and is among those that
\* it counts.
RepetitionsFollow(flows) ==
  \A k \in DOMAIN flows : flows[k].collapsedInto # None =>
    \E j \in 1 .. k - 1 :
      /\ flows[k].collapsedInto = <<j>>
      /\ Narrates(flows[j])
      /\ ToSet(flows[k].entries) \subseteq ToSet(flows[j].polled)

\* What comes before another entry comes before it in every list by time.
LEMMA EarlierInList ==
  ASSUME NEW es, NEW n, Timed(es, n), NEW s, Ordered(es, s, 1 .. n),
         NEW j \in 1 .. Len(s), NEW k \in 1 .. Len(s), Before(es, s[j], s[k])
  PROVE  j < k
<1> DEFINE D == 1 .. n
<1>1. s \in Seq(D) /\ Len(s) \in Nat /\ s[j] \in D /\ s[k] \in D
  BY LenProperties, ElementOfSeq DEF Ordered
<1>2. /\ \A x \in D : ~Before(es, x, x)
      /\ \A x, y, z \in D : Before(es, x, y) /\ Before(es, y, z) => Before(es, x, z)
  BY BeforeIsOrder
<1> HIDE DEF D
<1>3. j # k
  BY <1>1, <1>2
<1>4. ~(k < j)
  <2>1. k < j => Before(es, s[k], s[j])
    BY DEF Ordered
  <2> QED BY <1>1, <1>2, <2>1
<1> QED BY <1>1, <1>3, <1>4

\* manifest.py, build_flows: flow_id_by_index has the flow that a repetition is
\* collapsed into by then, and that flow is told.
THEOREM RepetitionsAreCounted ==
  ASSUME NEW es, NEW n, Timed(es, n)
  PROVE  RepetitionsFollow(BuildFlows(es))
<1> DEFINE D == 1 .. n
           chains == ToSet(RedirectChains(es))
           groups == PollingGroups(es)
           told == Told(es)
           flows == BuildFlows(es)
<1>1. AreFlows(es, D, chains, groups, told, flows)
  BY ManifestIs
<1> HIDE DEF chains, groups, told, flows, D
<1>2. AreChains(es, chains, D) /\ AreGroups(es, groups, D)
  BY <1>1 DEF AreFlows
<1>3. /\ AreChains(es, chains, D) /\ AreGroups(es, groups, D)
      /\ Ordered(es, told, D) /\ Once(told, D) /\ told \in Seq(D)
      /\ \A x : x \in ToSet(told) <=>
           x \in D /\ ~Is("static-asset", es, x) /\ \A c \in chains : x \notin ToSet(Tail(c))
      /\ DOMAIN flows = 1 .. Len(told)
      /\ \A k \in 1 .. Len(told) : IsFlow(chains, groups, told, told[k], flows[k])
  BY <1>1 DEF AreFlows, Once
<1>4. Len(told) \in Nat /\ DOMAIN told = 1 .. Len(told)
  BY <1>3, LenProperties
<1>5. /\ \A c \in chains : Head(c) = c[1] /\ c # <<>>
      /\ \A c \in chains : \A y : y \in ToSet(c) <=> y = c[1] \/ y \in ToSet(Tail(c))
      /\ \A c \in chains : \A y \in ToSet(c) : y \in D /\ Is("navigation", es, y)
  BY <1>2, ChainEntries
<1>6. /\ \A g \in groups : Head(g) = g[1] /\ g # <<>>
      /\ \A g \in groups : \A y : y \in ToSet(g) <=> y = g[1] \/ y \in ToSet(Tail(g))
      /\ \A g \in groups : \A y \in ToSet(g) : y \in D /\ Is("xhr-api", es, y)
  BY <1>2, GroupEntries
<1>7. \A y : Is("xhr-api", es, y) => ~Is("navigation", es, y) /\ ~Is("static-asset", es, y)
  BY DEF Is
<1>8. ASSUME NEW k \in 1 .. Len(told), flows[k].collapsedInto # None
      PROVE  \E j \in 1 .. k - 1 :
               /\ flows[k].collapsedInto = <<j>>
               /\ Narrates(flows[j])
               /\ ToSet(flows[k].entries) \subseteq ToSet(flows[j].polled)
  <2>1. PICK g \in groups :
          /\ told[k] \in ToSet(g) /\ Head(g) # told[k]
          /\ flows[k] = [entries |-> <<told[k]>>, polled |-> <<>>,
                         collapsedInto |-> <<CHOOSE l \in DOMAIN told : told[l] = Head(g)>>]
    BY <1>3, <1>8 DEF IsFlow
  <2>2. g[1] \in ToSet(g) /\ g[1] \in D /\ Is("xhr-api", es, g[1])
    BY <1>6
  <2>3. \A c \in chains : g[1] \notin ToSet(c)
    BY <1>5, <1>7, <2>2
  <2>4. g[1] \in ToSet(told)
    BY <1>3, <1>5, <1>7, <2>2, <2>3
  <2> DEFINE j == CHOOSE l \in DOMAIN told : told[l] = Head(g)
  <2>5. j \in 1 .. Len(told) /\ told[j] = g[1]
    <3>1. \E l \in 1 .. Len(told) : told[l] = g[1]
      BY <1>3, <2>4, Elements
    <3>2. \E l \in DOMAIN told : told[l] = Head(g)
      BY <1>4, <1>6, <3>1
    <3> QED BY <1>4, <1>6, <3>2
  <2>6. flows[k].collapsedInto = <<j>> /\ flows[k].entries = <<told[k]>>
    BY <2>1
  <2> HIDE DEF j
  <2>7. flows[j] = [entries |-> <<g[1]>>, polled |-> Tail(g), collapsedInto |-> None]
    <3>1. \A h \in groups : g[1] \in ToSet(h) => h = g
      BY <1>3, <2>2 DEF AreGroups
    <3>2. \A c \in chains : Head(c) # g[1]
      BY <1>5, <2>3
    <3>3. IsFlow(chains, groups, told, g[1], flows[j])
      BY <1>3, <2>5
    <3> QED BY <1>6, <2>2, <3>1, <3>2, <3>3 DEF IsFlow
  <2>8. Narrates(flows[j]) /\ flows[j].polled = Tail(g)
    BY <2>7 DEF Narrates
  <2>9. ToSet(flows[k].entries) \subseteq ToSet(flows[j].polled)
    <3>1. told[k] \in ToSet(Tail(g))
      BY <1>6, <2>1
    <3> QED BY <2>6, <2>8, <3>1, Single
  <2>10. Before(es, told[j], told[k])
    <3>1. Ordered(es, g, D) /\ g \in Seq(D) /\ Len(g) >= 3
      BY <1>3 DEF AreGroups, Once
    <3>2. PICK m \in 1 .. Len(g) : g[m] = told[k]
      BY <2>1, <3>1, Elements
    <3>3. m # 1
      BY <1>6, <2>1, <3>2
    <3>4. 1 < m /\ 1 \in 1 .. Len(g)
      BY <3>1, <3>2, <3>3, LenProperties
    <3> QED BY <2>5, <3>1, <3>2, <3>4 DEF Ordered
  <2>11. j < k
    BY <1>3, <2>5, <2>10, EarlierInList DEF D
  <2>12. j \in 1 .. k - 1
    BY <1>4, <2>5, <2>11
  <2> QED BY <2>6, <2>8, <2>9, <2>12
<1>9. RepetitionsFollow(flows)
  BY <1>3, <1>8 DEF RepetitionsFollow
<1> QED BY <1>9 DEF flows

---------------------------------------------------------------------------
(* Warnings                                                                *)

LEMMA NoteIfFound ==
  ASSUME NEW i, NEW d
  PROVE  [k \in {i} \cap DOMAIN d |-> d[k]] # <<>> <=> i \in DOMAIN d
<1> DEFINE f == [k \in {i} \cap DOMAIN d |-> d[k]]
<1>1. DOMAIN f = {i} \cap DOMAIN d
  OBVIOUS
<1>2. DOMAIN <<>> = {}
  OBVIOUS
<1>3. CASE i \in DOMAIN d
  BY <1>1, <1>2, <1>3
<1>4. CASE i \notin DOMAIN d
  <2>1. f \in [1 .. 0 -> {}]
    BY <1>4
  <2>2. f \in Seq({})
    BY <2>1, SeqDef
  <2>3. <<>> \in [1 .. 0 -> {}]
    OBVIOUS
  <2>4. f = <<>>
    BY <2>1, <2>3
  <2> QED BY <1>4, <2>4
<1> QED BY <1>3, <1>4

LEMMA NotesTell ==
  ASSUME NEW found, NEW i
  PROVE  /\ Notes(found, i).debug # <<>> <=> i \in DOMAIN found.debug
         /\ Notes(found, i).secrets # <<>> <=> i \in DOMAIN found.secrets
<1>1. /\ Notes(found, i).debug = [k \in {i} \cap DOMAIN found.debug |-> found.debug[k]]
      /\ Notes(found, i).secrets = [k \in {i} \cap DOMAIN found.secrets |-> found.secrets[k]]
  BY DEF Notes
<1> QED BY <1>1, NoteIfFound

\* Both are noted or neither is, for either kind of warning.
FoundTogether(found, i, j) ==
  /\ i \in DOMAIN found.debug <=> j \in DOMAIN found.debug
  /\ i \in DOMAIN found.secrets <=> j \in DOMAIN found.secrets

\* What is found in a body is found in another that has the same marks.
LEMMA FoundAlike ==
  ASSUME NEW es, NEW i \in ToSet(Surface(es)), NEW j \in ToSet(Surface(es)),
         es[i].body.marks = es[j].body.marks
  PROVE  FoundTogether(Found(es), i, j)
<1>1. DOMAIN DebugPageHints(es) = {k \in ToSet(Surface(es)) : Keep(Signatures, es[k].body.marks) # <<>>}
  BY DEF DebugPageHints
<1>2. DOMAIN SecretFindings(es) = {k \in ToSet(Surface(es)) : es[k].body.marks \cap SecretKinds # {}}
  BY DEF SecretFindings
<1>3. Found(es).debug = DebugPageHints(es) /\ Found(es).secrets = SecretFindings(es)
  BY DEF Found
<1>4. i \in DOMAIN DebugPageHints(es) <=> j \in DOMAIN DebugPageHints(es)
  BY <1>1
<1>5. i \in DOMAIN SecretFindings(es) <=> j \in DOMAIN SecretFindings(es)
  BY <1>2
<1> QED BY <1>3, <1>4, <1>5 DEF FoundTogether

\* What is known of the bodies follows from their bytes.
BodiesAreBytes(es) ==
  \A i, j \in DOMAIN es : es[i].body.bytes = es[j].body.bytes => es[i].body = es[j].body

\* The warnings of an entry are told where the flow that tells of it begins, if it is not
\* a later redirect, nor written otherwise than the entry it repeats.
LEMMA FlowWarns ==
  ASSUME NEW es, NEW n, Timed(es, n), BodiesAreBytes(es), NEW chains, NEW groups, NEW told, NEW flows,
         AreFlows(es, 1 .. n, chains, groups, told, flows),
         NEW k \in 1 .. Len(told), Narrates(flows[k]), NEW i \in Tells(flows[k])
  PROVE  LET flow == flows[k]
             found == Found(es)
         IN  \/ i \in ToSet(Tail(flow.entries))
             \/ /\ i \in ToSet(<<Primary(flow)>> \o flow.polled)
                /\ Rewritten(es[Primary(flow)].body, es[i].body) \/ FoundTogether(found, i, Primary(flow))
<1> DEFINE D == 1 .. n
           flow == flows[k]
           j == told[k]
           found == Found(es)
<1>1. AreFlows(es, D, chains, groups, told, flows)
  OBVIOUS
<1> HIDE DEF D, found
<1>2. AreChains(es, chains, D) /\ AreGroups(es, groups, D)
  BY <1>1 DEF AreFlows
<1>3. j \in D /\ ~Is("static-asset", es, j)
  BY <1>1, ToldIn
<1>4. /\ Once(flow.entries, D) /\ Once(flow.polled, D)
      /\ Disjoint(ToSet(flow.entries), ToSet(flow.polled))
      /\ flow.entries # <<>> /\ Primary(flow) = j
  BY <1>1, FlowParts DEF Primary
<1>5. i \in D /\ ~Is("static-asset", es, i)
  BY <1>1, TellsAll
<1>6. i \in ToSet(Surface(es)) /\ j \in ToSet(Surface(es))
  BY <1>3, <1>5, SurfaceIs DEF D
<1>7. IsAlone(chains, groups, j, flow) \/ IsChained(chains, j, flow) \/ IsRepeated(groups, j, flow)
  BY <1>1, KindOfFlow
<1> HIDE DEF flow, j
<1>8. \A x : x \in ToSet(<<j>> \o flow.polled) <=> x = j \/ x \in ToSet(flow.polled)
  <2>1. Once(<<j>>, D)
    BY <1>3 DEF Once
  <2>2. j \in ToSet(flow.entries)
    <3>1. flow.entries \in Seq(D) /\ flow.entries[1] = j
      BY <1>4 DEF Once, Primary
    <3>2. 1 \in 1 .. Len(flow.entries)
      BY <1>4, <3>1, LenProperties, EmptySeq
    <3> QED BY <3>1, <3>2, Elements
  <2>3. Disjoint(ToSet(<<j>>), ToSet(flow.polled))
    BY <1>4, <2>2, Single DEF Disjoint
  <2>4. \A x : x \in ToSet(<<j>> \o flow.polled) <=> x \in ToSet(<<j>>) \/ x \in ToSet(flow.polled)
    BY <1>4, <2>1, <2>3, OnceConcat
  <2> QED BY <2>4, Single
<1>9. CASE i = j
  BY <1>4, <1>8, <1>9 DEF flow, found, FoundTogether
<1>10. CASE i # j /\ IsChained(chains, j, flow)
  <2>1. PICK c \in chains : c # <<>> /\ c[1] = j /\ flow.entries = c /\ flow.polled = <<>>
    BY <1>10 DEF IsChained
  <2>2. i \in ToSet(c)
    BY <2>1 DEF Tells, flow, ToSet
  <2>3. i \in ToSet(Tail(c))
    BY <1>2, <1>10, <2>1, <2>2, ChainEntries
  <2> QED BY <2>1, <2>3 DEF flow
<1>11. CASE i # j /\ IsRepeated(groups, j, flow)
  <2>1. PICK g \in groups : g # <<>> /\ g[1] = j /\ flow.entries = <<j>> /\ flow.polled = Tail(g)
    BY <1>11 DEF IsRepeated
  <2>2. i \in ToSet(Tail(g))
    BY <1>11, <2>1, Single DEF Tells, flow
  <2>3. IsRunOfOne(es, g) /\ g \in Seq(D)
    BY <1>2 DEF AreGroups, Once
  <2>4. i \in ToSet(g)
    BY <1>2, <2>2, GroupEntries
  <2>5. PICK m \in 1 .. Len(g) : g[m] = i
    BY <2>3, <2>4, Elements
  <2>6. m \in 2 .. Len(g)
    <3>1. m # 1 /\ Len(g) \in Nat
      BY <1>11, <2>1, <2>3, <2>5, LenProperties
    <3> QED BY <3>1
  <2>7. BodiesMatch(es[j].body, es[i].body)
    BY <2>1, <2>3, <2>5, <2>6 DEF IsRunOfOne
  <2>8. Rewritten(es[j].body, es[i].body) \/ es[i].body.marks = es[j].body.marks
    <3>1. i \in DOMAIN es /\ j \in DOMAIN es
      BY <1>3, <1>5 DEF Timed, D
    <3> QED BY <2>7, <3>1 DEF BodiesAreBytes, Rewritten
  <2>9. Rewritten(es[j].body, es[i].body) \/ FoundTogether(found, i, j)
    BY <1>6, <2>8, FoundAlike DEF found
  <2> QED BY <1>4, <1>8, <2>1, <2>2, <2>9 DEF flow, found
<1>12. IsAlone(chains, groups, j, flow) => i = j
  BY Single DEF IsAlone, Tells, flow, ToSet
<1> QED BY <1>7, <1>9, <1>10, <1>11, <1>12

\* analysis/render.py, with cluster.py: what a response gives away is noted where its
\* flow is told, though the flow repeats another, unless the two are written
\* differently; if what is known of a body follows from its bytes.
THEOREM WarningsSurvive ==
  ASSUME NEW es, NEW n, Timed(es, n), BodiesAreBytes(es)
  PROVE  WarningsSurviveCollapsing(es)
<1> DEFINE D == 1 .. n
           chains == ToSet(RedirectChains(es))
           groups == PollingGroups(es)
           told == Told(es)
           flows == BuildFlows(es)
           nar == NarrativeFlows(flows)
           found == Found(es)
           s == Document(es, flows).sections
<1>1. AreFlows(es, D, chains, groups, told, flows)
  BY ManifestIs
<1>2. /\ s = [k \in DOMAIN nar |-> s[k]]
      /\ \A k \in DOMAIN nar : s[k].heading.flow = nar[k]
      /\ \A k \in DOMAIN nar : s[k].notes = Notes(found, Primary(flows[nar[k]]))
  BY SectionsAre
<1>3. WarningsSurviveCollapsing(es) <=> WarningsAreTold(es, flows, found, s)
  BY DEF WarningsSurviveCollapsing
<1> HIDE DEF chains, groups, told, flows, s
<1>4. Len(told) \in Nat /\ DOMAIN flows = 1 .. Len(told)
  BY <1>1, LenProperties DEF AreFlows, Once
<1>5. IsNarrative(nar, flows, Len(told))
  BY <1>4, NarrativeIs DEF IsNarrative
<1> HIDE DEF nar
<1>6. /\ DOMAIN nar = 1 .. Len(nar)
      /\ \A f \in 1 .. Len(told) : Narrates(flows[f]) => \E k \in 1 .. Len(nar) : nar[k] = f
  BY <1>5, Narrated
<1>7. ASSUME NEW i \in ToSet(Surface(es))
      PROVE  \E t \in ToSet(s) :
               LET flow == flows[t.heading.flow] IN
               \/ i \in ToSet(Tail(flow.entries))
               \/ /\ i \in ToSet(<<Primary(flow)>> \o flow.polled)
                  /\ \/ Rewritten(es[Primary(flow)].body, es[i].body)
                     \/ /\ t.notes.debug # <<>> <=> i \in DOMAIN found.debug
                        /\ t.notes.secrets # <<>> <=> i \in DOMAIN found.secrets
  <2>1. i \in D /\ ~Is("static-asset", es, i)
    BY SurfaceIs
  <2>2. PICK f \in 1 .. Len(told) : Narrates(flows[f]) /\ i \in Tells(flows[f])
    <3>1. AreFlows(es, D, chains, groups, told, flows) /\ i \in D /\ ~Is("static-asset", es, i)
      BY <1>1, <2>1
    <3> HIDE DEF D, found
    <3> QED BY <3>1, TellsAll
  <2>3. PICK k \in DOMAIN nar : nar[k] = f
    BY <1>6, <2>2
  <2> DEFINE t == s[k]
             flow == flows[f]
  <2>4. t \in ToSet(s) /\ t.heading.flow = f /\ t.notes = Notes(found, Primary(flow))
    BY <1>2, <2>3 DEF ToSet
  <2>5. /\ t.notes.debug # <<>> <=> Primary(flow) \in DOMAIN found.debug
        /\ t.notes.secrets # <<>> <=> Primary(flow) \in DOMAIN found.secrets
    <3> HIDE DEF found, flow, t
    <3> QED BY <2>4, NotesTell
  <2>6. \/ i \in ToSet(Tail(flow.entries))
        \/ /\ i \in ToSet(<<Primary(flow)>> \o flow.polled)
           /\ Rewritten(es[Primary(flow)].body, es[i].body) \/ FoundTogether(found, i, Primary(flow))
    BY <1>1, <2>2, FlowWarns
  <2> HIDE DEF found, flow, t
  <2>7. flow = flows[t.heading.flow]
    BY <2>4 DEF flow
  <2> QED BY <2>4, <2>5, <2>6, <2>7 DEF FoundTogether
<1>8. WarningsAreTold(es, flows, found, s)
  BY <1>7 DEF WarningsAreTold
<1> QED BY <1>3, <1>8

\* The warnings of every capture that is recorded.
THEOREM NoWarningsAreCollapsed == Spec => []NoWarningIsCollapsed
<1>1. InputsOK => NoWarningIsCollapsed
  <2> SUFFICES ASSUME InputsOK, subject = "capture" PROVE WarningsSurviveCollapsing(input)
    BY DEF NoWarningIsCollapsed
  <2>1. given \in Kinds /\ input \in Seq(Recorded(given))
    BY DEF InputsOK
  <2>2. Len(input) \in Nat /\ DOMAIN input = 1 .. Len(input)
        /\ \A i \in 1 .. Len(input) : input[i] \in Recorded(given)
    BY <2>1, LenProperties, ElementOfSeq
  <2>3. Timed(input, Len(input))
    BY <2>1, <2>2, RecordedIsEntry DEF Timed
  <2>4. \A r \in Recorded(given) : \E e \in given.entries : r.body = e.body
    <3>1. ASSUME NEW e \in given.entries, NEW t PROVE [e EXCEPT !.at = t].body = e.body
      <4>1. e = [at |-> e.at, time |-> e.time, method |-> e.method, url |-> e.url, sent |-> e.sent,
                 reqBody |-> e.reqBody, status |-> e.status, got |-> e.got, body |-> e.body]
        BY <2>1, KindsAssumption DEF IsEntry
      <4> QED BY <4>1
    <3>2. ASSUME NEW r \in Recorded(given) PROVE \E e \in given.entries : r.body = e.body
      <4>1. PICK e \in given.entries, t \in Int : r = [e EXCEPT !.at = t]
        BY DEF Recorded
      <4> QED BY <3>1, <4>1
    <3> QED BY <3>2
  <2>5. BodiesAreBytes(input)
    BY <2>1, <2>2, <2>4, BodiesAssumption DEF BodiesAreBytes
  <2> QED BY <2>3, <2>5, WarningsSurvive
<1> QED BY <1>1, InputsInductive, PTL

---------------------------------------------------------------------------
(* Values that come back                                                   *)

\* What is kept of a sequence is one.
LEMMA KeepIn ==
  ASSUME NEW D, NEW s \in Seq(D), NEW S
  PROVE  Keep(s, S) \in Seq(D)
<1> DEFINE r == Keep(s, S)
           m == Len(r)
           n == Len(s)
<1>1. PICK at : Selects(at, r, s, S)
  BY KeepSelects
<1> HIDE DEF r
<1>2. n \in Nat /\ (\A k \in 1 .. n : s[k] \in D)
  BY LenProperties, ElementOfSeq
<1>3. r \in Seq(S) /\ m \in Nat /\ at \in [1 .. m -> 1 .. n] /\ \A k \in 1 .. m : r[k] = s[at[k]]
  BY <1>1, LenProperties DEF Selects
<1>4. r \in [1 .. m -> S]
  BY <1>3, LenProperties
<1> HIDE DEF m, n
<1>5. \A k \in 1 .. m : r[k] \in D
  BY <1>2, <1>3
<1>6. r \in [1 .. m -> D]
  BY <1>4, <1>5
<1>7. r \in Seq(D)
  BY <1>3, <1>6, SeqDef
<1> QED BY <1>7 DEF r

\* The elements with new keys, in order, and no two of them with one key.
LEMMA FirstsAre ==
  ASSUME NEW D, NEW s \in Seq(D), NEW keys
  PROVE  /\ Firsts(s, keys) \in Seq(D)
         /\ \E at : /\ at \in [1 .. Len(Firsts(s, keys)) -> 1 .. Len(s)]
                    /\ \A k \in DOMAIN at : Firsts(s, keys)[k] = s[at[k]]
                    /\ \A k, l \in DOMAIN at : k < l => keys[at[k]] # keys[at[l]]
<1> DEFINE n == Len(s)
           S == {k \in 1 .. n : \A j \in 1 .. k - 1 : keys[j] # keys[k]}
           at == Keep([i \in 1 .. n |-> i], S)
           m == Len(at)
           r == Firsts(s, keys)
<1>1. n \in Nat /\ DOMAIN s = 1 .. n /\ \A k \in 1 .. n : s[k] \in D
  BY LenProperties, ElementOfSeq
<1>2. r = [k \in DOMAIN at |-> s[at[k]]]
  BY <1>1 DEF Firsts, Indices
<1>3. /\ at \in Seq(1 .. n)
      /\ \A k, l \in 1 .. Len(at) : k < l => at[k] < at[l]
      /\ \A x : x \in ToSet(at) <=> x \in 1 .. n /\ x \in S
  <2> HIDE DEF n, S
  <2> QED BY <1>1, KeepIndices DEF Once
<1> HIDE DEF at
<1>4. m \in Nat /\ DOMAIN at = 1 .. m /\ at \in [1 .. m -> 1 .. n]
  BY <1>3, LenProperties
<1>5. \A k \in 1 .. m : at[k] \in S
  <2>1. \A k \in 1 .. m : at[k] \in ToSet(at)
    BY <1>4 DEF ToSet
  <2> QED BY <1>3, <2>1
<1> HIDE DEF n, m, r
<1>6. r = [k \in 1 .. m |-> r[k]] /\ \A k \in 1 .. m : r[k] \in D
  BY <1>1, <1>2, <1>4
<1>7. r \in Seq(D) /\ Len(r) = m
  BY <1>4, <1>6, SequenceOf
<1>8. \A k \in 1 .. m : r[k] = s[at[k]]
  BY <1>2, <1>4
<1>9. ASSUME NEW k \in 1 .. m, NEW l \in 1 .. m, k < l PROVE keys[at[k]] # keys[at[l]]
  <2>1. at[k] < at[l] /\ at[k] \in 1 .. n /\ at[l] \in 1 .. n /\ n \in Nat
    BY <1>1, <1>3, <1>4, <1>9 DEF m
  <2>2. at[k] \in 1 .. at[l] - 1
    BY <2>1
  <2> QED BY <1>5, <2>2
<1>10. \E al : al \in [1 .. m -> 1 .. n] /\ (\A k \in DOMAIN al : r[k] = s[al[k]])
               /\ \A k, l \in DOMAIN al : k < l => keys[al[k]] # keys[al[l]]
  BY <1>4, <1>8, <1>9
<1> QED BY <1>7, <1>10 DEF r, n

\* Nothing is repeated in what is left without repetitions.
LEMMA DistinctOnce ==
  ASSUME NEW D, NEW s \in Seq(D)
  PROVE  Once(Distinct(s), D)
<1> DEFINE r == Distinct(s)
           m == Len(r)
<1>1. r \in Seq(D)
  BY FirstsAre DEF Distinct
<1>2. PICK at : /\ at \in [1 .. m -> 1 .. Len(s)]
                /\ \A k \in DOMAIN at : r[k] = s[at[k]]
                /\ \A k, l \in DOMAIN at : k < l => s[at[k]] # s[at[l]]
  BY FirstsAre DEF Distinct
<1> HIDE DEF r
<1>3. m \in Nat
  BY <1>1, LenProperties
<1> HIDE DEF m
<1>4. ASSUME NEW k \in 1 .. m, NEW l \in 1 .. m, r[k] = r[l] PROVE k = l
  <2>1. k < l \/ l < k \/ k = l
    BY <1>3
  <2> QED BY <1>2, <1>4, <2>1
<1> QED BY <1>1, <1>4 DEF Once, m, r

\* Each entry sends each of its values once.
LEMMA ValuesOnce ==
  ASSUME NEW e, IsEntry(e)
  PROVE  Once(IdShapedValues(e), Pairs)
<1>1. e.url.query \in Seq(Pairs) /\ e.reqBody.json \in Seq(Seq(Pairs))
  BY DEF IsEntry, IsBody
<1>2. ParseQs(e.url.query) \in Seq(Pairs)
  <2> DEFINE filled == Keep(e.url.query, {p \in ToSet(e.url.query) : p[2] # ""})
             names == [k \in DOMAIN filled |-> filled[k][1]]
  <2>1. ParseQs(e.url.query) = Firsts(filled, names)
    BY DEF ParseQs
  <2>2. filled \in Seq(Pairs)
    BY <1>1, KeepIn
  <2> HIDE DEF filled, names
  <2> QED BY <2>1, <2>2, FirstsAre
<1>3. JsonMembers(e) \in Seq(Pairs)
  <2>1. <<>> \in Seq(Pairs)
    BY EmptySeq
  <2>2. e.reqBody.json # <<>> => e.reqBody.json[1] \in Seq(Pairs)
    BY <1>1
  <2> QED BY <2>1, <2>2 DEF JsonMembers, None
<1> DEFINE all == ParseQs(e.url.query) \o JsonMembers(e)
           kept == Keep(all, {p \in ToSet(all) : p[2] \notin LowSignal})
<1>4. all \in Seq(Pairs)
  BY <1>2, <1>3
<1>5. IdShapedValues(e) = Distinct(kept)
  BY DEF IdShapedValues
<1> HIDE DEF all
<1>6. kept \in Seq(Pairs)
  BY <1>4, KeepIn
<1> HIDE DEF kept
<1> QED BY <1>5, <1>6, DistinctOnce

\* What is found is a record of three functions, of which the last gives records.
IsFound(found) ==
  /\ found = [firstSeen |-> found.firstSeen, noteOf |-> found.noteOf, notes |-> found.notes]
  /\ \A i \in DOMAIN found.notes :
       found.notes[i] = [pair |-> found.notes[i].pair, firstSeen |-> found.notes[i].firstSeen,
                         further |-> found.notes[i].further]

\* Of the values sent so far, <<entry, pair>>, i is the first to send this pair.
IsFirst(i, pair, sent) == <<i, pair>> \in sent /\ \A j : <<j, pair>> \in sent => i <= j

\* After i, the first, j is the next.
IsSecond(i, j, pair, sent) ==
  /\ <<j, pair>> \in sent /\ i < j
  /\ \A k : <<k, pair>> \in sent => k = i \/ j <= k

\* More than one entry sends it.
IsTwice(pair, sent) == \E i, j : i # j /\ <<i, pair>> \in sent /\ <<j, pair>> \in sent

\* Every pair sent is known, with the first entry to send it.
FirstsTrack(found, sent) ==
  /\ \A pair : pair \in DOMAIN found.firstSeen <=> \E i : <<i, pair>> \in sent
  /\ \A pair \in DOMAIN found.firstSeen : IsFirst(found.firstSeen[pair], pair, sent)

\* Every pair sent again has a note's place, the second entry's, and there is a note in it.
SecondsTrack(found, sent) ==
  /\ \A pair : pair \in DOMAIN found.noteOf <=> IsTwice(pair, sent)
  /\ \A pair \in DOMAIN found.noteOf :
       /\ IsSecond(found.firstSeen[pair], found.noteOf[pair], pair, sent)
       /\ found.noteOf[pair] \in DOMAIN found.notes

\* Every note is about a pair that has its place there, and names the first to send it.
NotesTrack(found) ==
  \A i \in DOMAIN found.notes :
    /\ found.notes[i].pair \in DOMAIN found.noteOf
    /\ found.noteOf[found.notes[i].pair] = i
    /\ found.notes[i].firstSeen = found.firstSeen[found.notes[i].pair]

\* What is found agrees with what was sent.
Tracks(found, sent) ==
  IsFound(found) /\ FirstsTrack(found, sent) /\ SecondsTrack(found, sent) /\ NotesTrack(found)

\* This pair comes next, in entry i, which is none of those before.
ComesNext(i, pair, sent) ==
  /\ sent \subseteq Nat \X Pairs /\ i \in Nat /\ pair \in Pairs
  /\ \A j : <<j, pair>> \in sent => j < i

\* A turn of the inner loop leaves such a record.
LEMMA NoteIsFound ==
  ASSUME NEW found, IsFound(found), NEW pair, NEW i
  PROVE  IsFound(NoteValue(found, pair, i))
<1> DEFINE f == found.firstSeen
           o == found.noteOf
           n == found.notes
           x == o[pair]
<1>1. found = [firstSeen |-> f, noteOf |-> o, notes |-> n]
      /\ \A k \in DOMAIN n : n[k] = [pair |-> n[k].pair, firstSeen |-> n[k].firstSeen,
                                     further |-> n[k].further]
  BY DEF IsFound
<1>2. CASE pair \notin DOMAIN f
  <2>1. NoteValue(found, pair, i) = [firstSeen |-> Put(f, pair, i), noteOf |-> o, notes |-> n]
    BY <1>1, <1>2 DEF NoteValue
  <2> HIDE DEF f, o, n
  <2> QED BY <1>1, <2>1 DEF IsFound
<1>3. CASE pair \in DOMAIN f /\ pair \notin DOMAIN o
  <2> DEFINE new == [pair |-> pair, firstSeen |-> f[pair], further |-> 0]
             m == Put(n, i, new)
  <2>1. NoteValue(found, pair, i) = [firstSeen |-> f, noteOf |-> Put(o, pair, i), notes |-> m]
    BY <1>1, <1>3 DEF NoteValue
  <2>2. DOMAIN m = DOMAIN n \cup {i} /\ \A k \in DOMAIN m : m[k] = IF k = i THEN new ELSE n[k]
    BY DEF Put
  <2> HIDE DEF f, o, n, m
  <2>3. \A k \in DOMAIN m : m[k] = [pair |-> m[k].pair, firstSeen |-> m[k].firstSeen,
                                    further |-> m[k].further]
    BY <1>1, <2>2
  <2> QED BY <2>1, <2>3 DEF IsFound
<1>4. CASE pair \in DOMAIN f /\ pair \in DOMAIN o
  <2> DEFINE m == [n EXCEPT ![x].further = @ + 1]
  <2>1. NoteValue(found, pair, i) = [firstSeen |-> f, noteOf |-> o, notes |-> m]
    BY <1>1, <1>4 DEF NoteValue
  <2>2. DOMAIN m = DOMAIN n
        /\ \A k \in DOMAIN n : m[k] = IF k = x THEN [n[k] EXCEPT !.further = @ + 1] ELSE n[k]
    BY <1>1
  <2> HIDE DEF f, o, n, x, m
  <2>3. \A k \in DOMAIN m : m[k] = [pair |-> m[k].pair, firstSeen |-> m[k].firstSeen,
                                    further |-> m[k].further]
    BY <1>1, <2>2
  <2> QED BY <2>1, <2>3 DEF IsFound
<1> QED BY <1>2, <1>3, <1>4

\* A value seen for the first time.
LEMMA NoteFirst ==
  ASSUME NEW found, NEW sent, Tracks(found, sent), NEW i, NEW pair, ComesNext(i, pair, sent),
         pair \notin DOMAIN found.firstSeen
  PROVE  Tracks(NoteValue(found, pair, i), sent \cup {<<i, pair>>})
<1> DEFINE f == found.firstSeen
           g == Put(f, pair, i)
           r == NoteValue(found, pair, i)
           all == sent \cup {<<i, pair>>}
<1>1. found = [firstSeen |-> f, noteOf |-> found.noteOf, notes |-> found.notes]
  BY DEF Tracks, IsFound
<1>2. IsFound(r) /\ r.firstSeen = g /\ r.noteOf = found.noteOf /\ r.notes = found.notes
  <2>1. r = [found EXCEPT !.firstSeen = g]
    BY DEF NoteValue
  <2> QED BY <1>1, <2>1, NoteIsFound DEF Tracks
<1>3. DOMAIN g = DOMAIN f \cup {pair} /\ g[pair] = i /\ \A p \in DOMAIN f : g[p] = f[p]
  BY DEF Put
<1>4. /\ \A p : p \in DOMAIN f <=> \E j : <<j, p>> \in sent
      /\ \A p \in DOMAIN f : IsFirst(f[p], p, sent)
  BY DEF Tracks, FirstsTrack
<1>5. \A j : <<j, pair>> \notin sent
  BY <1>4
<1>6. \A j, p : <<j, p>> \in all <=> <<j, p>> \in sent \/ (j = i /\ p = pair)
  OBVIOUS
<1>7. i \in Nat
  BY DEF ComesNext
<1>8. /\ \A p : p \in DOMAIN found.noteOf <=> IsTwice(p, sent)
      /\ \A p \in DOMAIN found.noteOf : /\ IsSecond(f[p], found.noteOf[p], p, sent)
                                        /\ found.noteOf[p] \in DOMAIN found.notes
  BY DEF Tracks, SecondsTrack
<1> HIDE DEF f, g, r, all
<1>9. \A p : p # pair => \A j : <<j, p>> \in all <=> <<j, p>> \in sent
  BY <1>6
<1>10. FirstsTrack(r, all)
  <2>1. ASSUME NEW p PROVE p \in DOMAIN g <=> \E j : <<j, p>> \in all
    BY <1>3, <1>4, <1>6
  <2>2. ASSUME NEW p \in DOMAIN g PROVE IsFirst(g[p], p, all)
    <3>1. CASE p = pair
      BY <1>3, <1>5, <1>6, <1>7, <3>1 DEF IsFirst
    <3>2. CASE p # pair
      BY <1>3, <1>4, <1>9, <2>2, <3>2 DEF IsFirst
    <3> QED BY <3>1, <3>2
  <2> QED BY <1>2, <2>1, <2>2 DEF FirstsTrack
<1>11. \A p : IsTwice(p, all) <=> IsTwice(p, sent)
  <2>1. SUFFICES ASSUME NEW p PROVE IsTwice(p, all) <=> IsTwice(p, sent)
    OBVIOUS
  <2>2. CASE p = pair
    <3>1. ~IsTwice(p, sent)
      BY <1>5, <2>2 DEF IsTwice
    <3>2. \A j : <<j, p>> \in all => j = i
      BY <1>5, <1>6, <2>2
    <3>3. ~IsTwice(p, all)
      BY <3>2 DEF IsTwice
    <3> QED BY <3>1, <3>3
  <2>3. CASE p # pair
    BY <1>9, <2>3 DEF IsTwice
  <2> QED BY <2>2, <2>3
<1>12. SecondsTrack(r, all)
  <2>1. ASSUME NEW p \in DOMAIN found.noteOf PROVE IsSecond(g[p], found.noteOf[p], p, all)
    <3>1. IsSecond(f[p], found.noteOf[p], p, sent) /\ <<found.noteOf[p], p>> \in sent
      BY <1>8 DEF IsSecond
    <3>2. p \in DOMAIN f /\ p # pair
      BY <1>4, <1>5, <3>1
    <3>3. g[p] = f[p]
      BY <1>3, <3>2
    <3> QED BY <1>9, <3>1, <3>2, <3>3 DEF IsSecond
  <2> QED BY <1>2, <1>8, <1>11, <2>1 DEF SecondsTrack
<1>13. NotesTrack(r)
  <2>1. ASSUME NEW k \in DOMAIN found.notes
        PROVE  /\ found.notes[k].pair \in DOMAIN found.noteOf
               /\ found.noteOf[found.notes[k].pair] = k
               /\ found.notes[k].firstSeen = g[found.notes[k].pair]
    <3>1. /\ found.notes[k].pair \in DOMAIN found.noteOf
          /\ found.noteOf[found.notes[k].pair] = k
          /\ found.notes[k].firstSeen = f[found.notes[k].pair]
      BY DEF Tracks, NotesTrack, f
    <3>2. found.notes[k].pair \in DOMAIN f
      <4>1. IsTwice(found.notes[k].pair, sent)
        BY <1>8, <3>1
      <4> QED BY <1>4, <4>1 DEF IsTwice
    <3> QED BY <1>3, <3>1, <3>2
  <2> QED BY <1>2, <2>1 DEF NotesTrack
<1>14. Tracks(r, all)
  BY <1>2, <1>10, <1>12, <1>13 DEF Tracks
<1> QED BY <1>14 DEF r, all

\* A value that comes back.
LEMMA NoteSecond ==
  ASSUME NEW found, NEW sent, Tracks(found, sent), NEW i, NEW pair, ComesNext(i, pair, sent),
         pair \in DOMAIN found.firstSeen, pair \notin DOMAIN found.noteOf
  PROVE  Tracks(NoteValue(found, pair, i), sent \cup {<<i, pair>>})
<1> DEFINE f == found.firstSeen
           o == found.noteOf
           n == found.notes
           q == Put(o, pair, i)
           new == [pair |-> pair, firstSeen |-> f[pair], further |-> 0]
           m == Put(n, i, new)
           r == NoteValue(found, pair, i)
           all == sent \cup {<<i, pair>>}
<1>1. found = [firstSeen |-> f, noteOf |-> o, notes |-> n]
  BY DEF Tracks, IsFound
<1>2. IsFound(r) /\ r.firstSeen = f /\ r.noteOf = q /\ r.notes = m
  <2>1. r = [found EXCEPT !.noteOf = q, !.notes = m]
    BY DEF NoteValue
  <2> QED BY <1>1, <2>1, NoteIsFound DEF Tracks
<1>3. DOMAIN q = DOMAIN o \cup {pair} /\ q[pair] = i /\ \A p \in DOMAIN o : q[p] = o[p]
  BY DEF Put
<1>4. DOMAIN m = DOMAIN n \cup {i} /\ m[i] = new /\ \A k \in DOMAIN n : k # i => m[k] = n[k]
  BY DEF Put
<1>5. new.pair = pair /\ new.firstSeen = f[pair]
  OBVIOUS
<1>6. /\ \A p : p \in DOMAIN f <=> \E j : <<j, p>> \in sent
      /\ \A p \in DOMAIN f : IsFirst(f[p], p, sent)
  BY DEF Tracks, FirstsTrack
<1>7. /\ \A p : p \in DOMAIN o <=> IsTwice(p, sent)
      /\ \A p \in DOMAIN o : IsSecond(f[p], o[p], p, sent) /\ o[p] \in DOMAIN n
  BY DEF Tracks, SecondsTrack
<1>8. \A k \in DOMAIN n : n[k].pair \in DOMAIN o /\ o[n[k].pair] = k /\ n[k].firstSeen = f[n[k].pair]
  BY DEF Tracks, NotesTrack
<1>9. \A j, p : <<j, p>> \in all <=> <<j, p>> \in sent \/ (j = i /\ p = pair)
  OBVIOUS
<1>10. i \in Nat /\ (\A j : <<j, pair>> \in sent => j < i) /\ \A j, p : <<j, p>> \in sent => j \in Nat
  BY DEF ComesNext
<1>11. pair \in DOMAIN f /\ pair \notin DOMAIN o
  OBVIOUS
<1> HIDE DEF f, o, n, q, new, m, r, all
<1>12. \A p : p # pair => \A j : <<j, p>> \in all <=> <<j, p>> \in sent
  BY <1>9
<1>13. \A j : <<j, pair>> \in sent <=> j = f[pair]
  BY <1>6, <1>7, <1>11 DEF IsTwice, IsFirst
<1>14. f[pair] \in Nat /\ i \in Nat /\ f[pair] < i
  BY <1>10, <1>13
<1>15. FirstsTrack(r, all)
  <2>1. ASSUME NEW p PROVE p \in DOMAIN f <=> \E j : <<j, p>> \in all
    BY <1>6, <1>9, <1>11
  <2>2. ASSUME NEW p \in DOMAIN f PROVE IsFirst(f[p], p, all)
    <3>1. IsFirst(f[p], p, sent)
      BY <1>6
    <3>2. CASE p = pair
      <4>1. f[pair] <= i
        BY <1>14
      <4> QED BY <1>9, <3>1, <3>2, <4>1 DEF IsFirst
    <3>3. CASE p # pair
      BY <1>12, <3>1, <3>3 DEF IsFirst
    <3> QED BY <3>2, <3>3
  <2> QED BY <1>2, <2>1, <2>2 DEF FirstsTrack
<1>16. SecondsTrack(r, all)
  <2>1. f[pair] # i
    BY <1>14
  <2>2. ASSUME NEW p PROVE p \in DOMAIN q <=> IsTwice(p, all)
    <3>1. CASE p = pair
      BY <1>3, <1>9, <1>13, <2>1, <3>1 DEF IsTwice
    <3>2. CASE p # pair
      BY <1>3, <1>7, <1>12, <3>2 DEF IsTwice
    <3> QED BY <3>1, <3>2
  <2>3. ASSUME NEW p \in DOMAIN q PROVE IsSecond(f[p], q[p], p, all) /\ q[p] \in DOMAIN m
    <3>1. CASE p = pair
      BY <1>3, <1>4, <1>9, <1>13, <1>14, <3>1 DEF IsSecond
    <3>2. CASE p # pair
      BY <1>3, <1>4, <1>7, <1>12, <2>3, <3>2 DEF IsSecond
    <3> QED BY <3>1, <3>2
  <2> QED BY <1>2, <2>2, <2>3 DEF SecondsTrack
<1>17. NotesTrack(r)
  <2>1. ASSUME NEW k \in DOMAIN m
        PROVE  m[k].pair \in DOMAIN q /\ q[m[k].pair] = k /\ m[k].firstSeen = f[m[k].pair]
    <3>1. CASE k = i
      BY <1>3, <1>4, <1>5, <3>1
    <3>2. CASE k # i
      BY <1>3, <1>4, <1>8, <2>1, <3>2
    <3> QED BY <3>1, <3>2
  <2> QED BY <1>2, <2>1 DEF NotesTrack
<1>18. Tracks(r, all)
  BY <1>2, <1>15, <1>16, <1>17 DEF Tracks
<1> QED BY <1>18 DEF r, all

\* A value that comes back again.
LEMMA NoteFurther ==
  ASSUME NEW found, NEW sent, Tracks(found, sent), NEW i, NEW pair, ComesNext(i, pair, sent),
         pair \in DOMAIN found.firstSeen, pair \in DOMAIN found.noteOf
  PROVE  Tracks(NoteValue(found, pair, i), sent \cup {<<i, pair>>})
<1> DEFINE f == found.firstSeen
           o == found.noteOf
           n == found.notes
           x == o[pair]
           m == [n EXCEPT ![x].further = @ + 1]
           r == NoteValue(found, pair, i)
           all == sent \cup {<<i, pair>>}
<1>1. found = [firstSeen |-> f, noteOf |-> o, notes |-> n]
      /\ \A k \in DOMAIN n : n[k] = [pair |-> n[k].pair, firstSeen |-> n[k].firstSeen,
                                     further |-> n[k].further]
  BY DEF Tracks, IsFound
<1>2. IsFound(r) /\ r.firstSeen = f /\ r.noteOf = o /\ r.notes = m
  <2>1. r = [found EXCEPT !.notes = m]
    BY <1>1 DEF NoteValue
  <2> QED BY <1>1, <2>1, NoteIsFound DEF Tracks
<1>3. DOMAIN m = DOMAIN n
      /\ \A k \in DOMAIN n : m[k].pair = n[k].pair /\ m[k].firstSeen = n[k].firstSeen
  BY <1>1
<1>4. /\ \A p : p \in DOMAIN f <=> \E j : <<j, p>> \in sent
      /\ \A p \in DOMAIN f : IsFirst(f[p], p, sent)
  BY DEF Tracks, FirstsTrack
<1>5. /\ \A p : p \in DOMAIN o <=> IsTwice(p, sent)
      /\ \A p \in DOMAIN o : IsSecond(f[p], o[p], p, sent) /\ o[p] \in DOMAIN n
  BY DEF Tracks, SecondsTrack
<1>6. \A k \in DOMAIN n : n[k].pair \in DOMAIN o /\ o[n[k].pair] = k /\ n[k].firstSeen = f[n[k].pair]
  BY DEF Tracks, NotesTrack
<1>7. \A j, p : <<j, p>> \in all <=> <<j, p>> \in sent \/ (j = i /\ p = pair)
  OBVIOUS
<1>8. i \in Nat /\ (\A j : <<j, pair>> \in sent => j < i) /\ \A j, p : <<j, p>> \in sent => j \in Nat
  BY DEF ComesNext
<1>9. pair \in DOMAIN f /\ pair \in DOMAIN o
  OBVIOUS
<1> HIDE DEF f, o, n, x, m, r, all
<1>10. \A p : p # pair => \A j : <<j, p>> \in all <=> <<j, p>> \in sent
  BY <1>7
<1>11. FirstsTrack(r, all)
  <2>1. ASSUME NEW p PROVE p \in DOMAIN f <=> \E j : <<j, p>> \in all
    BY <1>4, <1>7, <1>9
  <2>2. ASSUME NEW p \in DOMAIN f PROVE IsFirst(f[p], p, all)
    <3>1. IsFirst(f[p], p, sent)
      BY <1>4
    <3>2. CASE p = pair
      <4>1. f[pair] <= i
        BY <1>8, <3>1, <3>2 DEF IsFirst
      <4> QED BY <1>7, <3>1, <3>2, <4>1 DEF IsFirst
    <3>3. CASE p # pair
      BY <1>10, <3>1, <3>3 DEF IsFirst
    <3> QED BY <3>2, <3>3
  <2> QED BY <1>2, <2>1, <2>2 DEF FirstsTrack
<1>12. SecondsTrack(r, all)
  <2>1. ASSUME NEW p PROVE p \in DOMAIN o <=> IsTwice(p, all)
    <3>1. CASE p = pair
      BY <1>5, <1>7, <1>9, <3>1 DEF IsTwice
    <3>2. CASE p # pair
      BY <1>5, <1>10, <3>2 DEF IsTwice
    <3> QED BY <3>1, <3>2
  <2>2. ASSUME NEW p \in DOMAIN o PROVE IsSecond(f[p], o[p], p, all) /\ o[p] \in DOMAIN m
    <3>1. IsSecond(f[p], o[p], p, sent) /\ o[p] \in DOMAIN m
      BY <1>3, <1>5
    <3>2. CASE p = pair
      <4>1. o[pair] <= i
        BY <1>8, <3>1, <3>2 DEF IsSecond
      <4> QED BY <1>7, <3>1, <3>2, <4>1 DEF IsSecond
    <3>3. CASE p # pair
      BY <1>10, <3>1, <3>3 DEF IsSecond
    <3> QED BY <3>2, <3>3
  <2> QED BY <1>2, <2>1, <2>2 DEF SecondsTrack
<1>13. NotesTrack(r)
  BY <1>2, <1>3, <1>6 DEF NotesTrack
<1>14. Tracks(r, all)
  BY <1>2, <1>11, <1>12, <1>13 DEF Tracks
<1> QED BY <1>14 DEF r, all

\* One turn of the inner loop.
LEMMA NoteValueTracks ==
  ASSUME NEW found, NEW sent, Tracks(found, sent), NEW i, NEW pair, ComesNext(i, pair, sent)
  PROVE  Tracks(NoteValue(found, pair, i), sent \cup {<<i, pair>>})
BY NoteFirst, NoteSecond, NoteFurther

\* The inner loop.
LEMMA NoteEntryLoop ==
  ASSUME NEW found, NEW pairs, NEW i, Len(pairs) \in Nat
  PROVE  \E f : /\ f[0] = found
                /\ \A m \in 1 .. Len(pairs) : f[m] = NoteValue(f[m - 1], pairs[m], i)
                /\ NoteEntry(found, pairs, i) = f[Len(pairs)]
<1> DEFINE n == Len(pairs)
           E(f, m) == IF m = 0 THEN found ELSE NoteValue(f[m - 1], pairs[m], i)
           Solves(f) == f = [m \in 0 .. n |-> E(f, m)]
           Loop(f, k) == f[0] = found /\ \A m \in 1 .. k : f[m] = NoteValue(f[m - 1], pairs[m], i)
           T == {k \in 0 .. n : \E f : Loop(f, k)}
<1>1. NoteEntry(found, pairs, i) = (CHOOSE f : Solves(f))[n]
  BY DEF NoteEntry
<1> HIDE DEF n
<1>2. n \in Nat
  BY DEF n
<1>3. 0 \in T
  <2>1. Loop([m \in 0 .. 0 |-> found], 0)
    OBVIOUS
  <2> HIDE DEF Loop
  <2> QED BY <1>2, <2>1
<1>4. ASSUME NEW k \in 0 .. n - 1, k \in T PROVE k + 1 \in T
  <2>1. PICK f : Loop(f, k)
    BY <1>4
  <2> DEFINE g == [m \in 0 .. k + 1 |-> IF m = k + 1 THEN NoteValue(f[k], pairs[k + 1], i) ELSE f[m]]
  <2>2. k \in Nat /\ k + 1 \in 0 .. n
    BY <1>2
  <2>3. g[k + 1] = NoteValue(f[k], pairs[k + 1], i) /\ \A m \in 0 .. k : g[m] = f[m]
    BY <2>2
  <2> HIDE DEF g
  <2>4. g[0] = found
    BY <2>1, <2>2, <2>3
  <2>5. ASSUME NEW m \in 1 .. k + 1 PROVE g[m] = NoteValue(g[m - 1], pairs[m], i)
    <3>1. CASE m = k + 1
      <4>1. m - 1 = k /\ k \in 0 .. k
        BY <2>2, <3>1
      <4> QED BY <2>3, <3>1, <4>1
    <3>2. CASE m # k + 1
      <4>1. m \in 1 .. k /\ m \in 0 .. k /\ m - 1 \in 0 .. k
        BY <2>2, <3>2
      <4> QED BY <2>1, <2>3, <4>1
    <3> QED BY <3>1, <3>2
  <2>6. Loop(g, k + 1)
    BY <2>4, <2>5
  <2> HIDE DEF Loop
  <2> QED BY <2>2, <2>6
<1>5. 0 .. n \subseteq T
  <2> HIDE DEF T
  <2> QED BY <1>2, <1>3, <1>4, UpTo
<1>6. PICK f : Loop(f, n)
  <2> HIDE DEF Loop
  <2> QED BY <1>2, <1>5
<1> DEFINE e == [m \in 0 .. n |-> f[m]]
<1>7. \A m \in 0 .. n : e[m] = f[m]
  OBVIOUS
<1>8. e = [m \in 0 .. n |-> e[m]]
  OBVIOUS
<1> HIDE DEF e
<1>9. ASSUME NEW m \in 0 .. n PROVE e[m] = E(e, m)
  <2>1. CASE m = 0
    BY <1>6, <1>7, <2>1
  <2>2. CASE m # 0
    <3>1. m \in 1 .. n /\ m - 1 \in 0 .. n
      BY <1>2, <2>2
    <3> QED BY <1>6, <1>7, <2>2, <3>1
  <2> QED BY <2>1, <2>2
<1>10. Solves(e)
  <2> HIDE DEF E
  <2> QED BY <1>8, <1>9
<1> DEFINE h == CHOOSE d : Solves(d)
<1>11. Solves(h)
  <2> HIDE DEF Solves
  <2> QED BY <1>10
<1>12. NoteEntry(found, pairs, i) = h[n]
  BY <1>1
<1> HIDE DEF h
<1>13. \A m \in 0 .. n : h[m] = E(h, m)
  <2> HIDE DEF E
  <2> QED BY <1>11
<1>14. 0 \in 0 .. n /\ \A m \in 1 .. n : m \in 0 .. n /\ m # 0
  BY <1>2
<1>15. Loop(h, n)
  BY <1>13, <1>14
<1> QED BY <1>12, <1>15 DEF n

\* The outer loop, over the pairs that each entry of the surface sends.
LEMMA ReuseLoop ==
  ASSUME NEW es, Len(Surface(es)) \in Nat
  PROVE  LET s == Surface(es)
         IN  \E f : /\ f[0] = NothingFound
                    /\ \A m \in 1 .. Len(s) : f[m] = NoteEntry(f[m - 1], IdShapedValues(es[s[m]]), s[m])
                    /\ IdValueReuse(es) = f[Len(s)].notes
<1> DEFINE s == Surface(es)
           n == Len(s)
           Step(x, m) == NoteEntry(x, IdShapedValues(es[s[m]]), s[m])
           E(f, m) == IF m = 0 THEN NothingFound ELSE Step(f[m - 1], m)
           Solves(f) == f = [m \in 0 .. n |-> E(f, m)]
           Loop(f, k) == f[0] = NothingFound /\ \A m \in 1 .. k : f[m] = Step(f[m - 1], m)
           T == {k \in 0 .. n : \E f : Loop(f, k)}
<1>1. IdValueReuse(es) = (CHOOSE f : Solves(f))[n].notes
  BY DEF IdValueReuse
<1>2. n \in Nat
  OBVIOUS
<1> HIDE DEF n, Step
<1>3. 0 \in T
  <2>1. Loop([m \in 0 .. 0 |-> NothingFound], 0)
    OBVIOUS
  <2> HIDE DEF Loop
  <2> QED BY <1>2, <2>1
<1>4. ASSUME NEW k \in 0 .. n - 1, k \in T PROVE k + 1 \in T
  <2>1. PICK f : Loop(f, k)
    BY <1>4
  <2> DEFINE g == [m \in 0 .. k + 1 |-> IF m = k + 1 THEN Step(f[k], k + 1) ELSE f[m]]
  <2>2. k \in Nat /\ k + 1 \in 0 .. n
    BY <1>2
  <2>3. g[k + 1] = Step(f[k], k + 1) /\ \A m \in 0 .. k : g[m] = f[m]
    BY <2>2
  <2> HIDE DEF g
  <2>4. g[0] = NothingFound
    BY <2>1, <2>2, <2>3
  <2>5. ASSUME NEW m \in 1 .. k + 1 PROVE g[m] = Step(g[m - 1], m)
    <3>1. CASE m = k + 1
      <4>1. m - 1 = k /\ k \in 0 .. k
        BY <2>2, <3>1
      <4> QED BY <2>3, <3>1, <4>1
    <3>2. CASE m # k + 1
      <4>1. m \in 1 .. k /\ m \in 0 .. k /\ m - 1 \in 0 .. k
        BY <2>2, <3>2
      <4> QED BY <2>1, <2>3, <4>1
    <3> QED BY <3>1, <3>2
  <2>6. Loop(g, k + 1)
    BY <2>4, <2>5
  <2> HIDE DEF Loop
  <2> QED BY <2>2, <2>6
<1>5. 0 .. n \subseteq T
  <2> HIDE DEF T
  <2> QED BY <1>2, <1>3, <1>4, UpTo
<1>6. PICK f : Loop(f, n)
  <2> HIDE DEF Loop
  <2> QED BY <1>2, <1>5
<1> DEFINE e == [m \in 0 .. n |-> f[m]]
<1>7. \A m \in 0 .. n : e[m] = f[m]
  OBVIOUS
<1>8. e = [m \in 0 .. n |-> e[m]]
  OBVIOUS
<1> HIDE DEF e
<1>9. ASSUME NEW m \in 0 .. n PROVE e[m] = E(e, m)
  <2>1. CASE m = 0
    BY <1>6, <1>7, <2>1
  <2>2. CASE m # 0
    <3>1. m \in 1 .. n /\ m - 1 \in 0 .. n
      BY <1>2, <2>2
    <3> QED BY <1>6, <1>7, <2>2, <3>1
  <2> QED BY <2>1, <2>2
<1>10. Solves(e)
  <2> HIDE DEF E
  <2> QED BY <1>8, <1>9
<1> DEFINE h == CHOOSE d : Solves(d)
<1>11. Solves(h)
  <2> HIDE DEF Solves
  <2> QED BY <1>10
<1>12. IdValueReuse(es) = h[n].notes
  BY <1>1
<1> HIDE DEF h
<1>13. \A m \in 0 .. n : h[m] = E(h, m)
  <2> HIDE DEF E
  <2> QED BY <1>11
<1>14. 0 \in 0 .. n /\ \A m \in 1 .. n : m \in 0 .. n /\ m # 0
  BY <1>2
<1>15. Loop(h, n)
  BY <1>13, <1>14
<1>16. h[0] = NothingFound /\ \A m \in 1 .. n : h[m] = NoteEntry(h[m - 1], IdShapedValues(es[s[m]]), s[m])
  BY <1>15 DEF Step
<1> QED BY <1>12, <1>16 DEF n

\* One turn of the outer loop: entry i, which is later than those before, sends these pairs.
LEMMA NoteEntryTracks ==
  ASSUME NEW found, NEW sent, Tracks(found, sent), sent \subseteq Nat \X Pairs, NEW i \in Nat,
         NEW pairs, Once(pairs, Pairs), \A j, p : <<j, p>> \in sent => j < i
  PROVE  Tracks(NoteEntry(found, pairs, i), sent \cup ({i} \X ToSet(pairs)))
<1> DEFINE n == Len(pairs)
           Sent(m) == sent \cup ({i} \X {pairs[l] : l \in 1 .. m})
<1>1. n \in Nat /\ DOMAIN pairs = 1 .. n /\ (\A m \in 1 .. n : pairs[m] \in Pairs)
      /\ \A k, l \in 1 .. n : pairs[k] = pairs[l] => k = l
  BY LenProperties, ElementOfSeq DEF Once
<1>2. PICK f : /\ f[0] = found
               /\ \A m \in 1 .. n : f[m] = NoteValue(f[m - 1], pairs[m], i)
               /\ NoteEntry(found, pairs, i) = f[n]
  BY <1>1, NoteEntryLoop
<1> DEFINE T == {m \in 0 .. n : Tracks(f[m], Sent(m))}
<1>3. {pairs[l] : l \in 1 .. n} = ToSet(pairs)
  BY <1>1 DEF ToSet
<1> HIDE DEF n
<1>4. 0 \in T
  <2>1. Sent(0) = sent
    OBVIOUS
  <2> HIDE DEF Sent
  <2> QED BY <1>1, <1>2, <2>1
<1>5. ASSUME NEW m \in 0 .. n - 1, m \in T PROVE m + 1 \in T
  <2>1. m \in Nat /\ m + 1 \in 1 .. n /\ m + 1 \in 0 .. n /\ (m + 1) - 1 = m
        /\ \A l \in 1 .. m : l \in 1 .. n /\ l < m + 1
    BY <1>1
  <2> DEFINE p == pairs[m + 1]
             before == Sent(m)
  <2>2. f[m + 1] = NoteValue(f[m], p, i)
    BY <1>2, <2>1
  <2>3. Tracks(f[m], before)
    BY <1>5
  <2>4. ComesNext(i, p, before)
    <3>1. before \subseteq Nat \X Pairs
      <4>1. \A l \in 1 .. m : pairs[l] \in Pairs
        BY <1>1, <2>1
      <4> QED BY <4>1
    <3>2. ASSUME NEW j, <<j, p>> \in before PROVE j < i
      <4>1. CASE <<j, p>> \in sent
        BY <4>1
      <4>2. CASE <<j, p>> \in {i} \X {pairs[l] : l \in 1 .. m}
        <5>1. PICK l \in 1 .. m : p = pairs[l]
          BY <4>2
        <5>2. l \in 1 .. n /\ l # m + 1
          BY <2>1
        <5> QED BY <1>1, <2>1, <5>1, <5>2
      <4> QED BY <3>2, <4>1, <4>2
    <3>3. p \in Pairs
      BY <1>1, <2>1
    <3> QED BY <3>1, <3>2, <3>3 DEF ComesNext
  <2>5. Sent(m + 1) = before \cup {<<i, p>>}
    <3>1. {pairs[l] : l \in 1 .. m + 1} = {pairs[l] : l \in 1 .. m} \cup {p}
      <4>1. \A l : l \in 1 .. m + 1 <=> l \in 1 .. m \/ l = m + 1
        BY <2>1
      <4> QED BY <4>1
    <3> QED BY <3>1
  <2> HIDE DEF p, before, Sent
  <2>6. Tracks(NoteValue(f[m], p, i), before \cup {<<i, p>>})
    BY <2>3, <2>4, NoteValueTracks
  <2> QED BY <2>1, <2>2, <2>5, <2>6
<1>6. 0 .. n \subseteq T
  <2> HIDE DEF T
  <2> QED BY <1>1, <1>4, <1>5, UpTo
<1>7. Tracks(f[n], Sent(n))
  <2> HIDE DEF Sent
  <2> QED BY <1>1, <1>6
<1> QED BY <1>2, <1>3, <1>7

\* Who sends what, of the first n entries of a list.
SentBy(es, s, n) ==
  {d \in Nat \X Pairs : \E k \in 1 .. n : d[1] = s[k] /\ d[2] \in ToSet(IdShapedValues(es[s[k]]))}

\* A list of entries, later and later.
Rises(es, s, N) ==
  /\ Len(s) \in Nat
  /\ \A k \in 1 .. Len(s) : s[k] \in 1 .. N
  /\ \A k, l \in 1 .. Len(s) : k < l => s[k] < s[l]
  /\ \A i \in 1 .. N : Once(IdShapedValues(es[i]), Pairs)

\* At the end of the outer loop what is found agrees with all that the surface sent.
LEMMA ReuseTracks ==
  ASSUME NEW es, NEW N \in Nat, Rises(es, Surface(es), N)
  PROVE  \E found : /\ Tracks(found, SentBy(es, Surface(es), Len(Surface(es))))
                    /\ found.notes = IdValueReuse(es)
<1> DEFINE s == Surface(es)
           n == Len(s)
           V(i) == IdShapedValues(es[i])
           Sent(m) == SentBy(es, s, m)
<1>1. /\ n \in Nat
      /\ \A k \in 1 .. n : s[k] \in 1 .. N
      /\ \A k, l \in 1 .. n : k < l => s[k] < s[l]
      /\ \A i \in 1 .. N : Once(V(i), Pairs)
  BY DEF Rises
<1>2. PICK f : /\ f[0] = NothingFound
               /\ \A m \in 1 .. n : f[m] = NoteEntry(f[m - 1], V(s[m]), s[m])
               /\ IdValueReuse(es) = f[n].notes
  BY <1>1, ReuseLoop
<1> DEFINE T == {m \in 0 .. n : Tracks(f[m], Sent(m))}
<1>3. \A m, j, p : <<j, p>> \in Sent(m) <=>
        j \in Nat /\ p \in Pairs /\ \E k \in 1 .. m : j = s[k] /\ p \in ToSet(V(s[k]))
  BY DEF SentBy
<1>4. \A m : Sent(m) \subseteq Nat \X Pairs
  BY DEF SentBy
<1> HIDE DEF n, s, V, Sent
<1>5. 0 \in T
  <2>1. Sent(0) = {}
    BY <1>4 DEF Sent, SentBy
  <2>2. Tracks(NothingFound, {})
    <3>1. /\ NothingFound = [firstSeen |-> <<>>, noteOf |-> <<>>, notes |-> <<>>]
          /\ NothingFound.firstSeen = <<>> /\ NothingFound.noteOf = <<>> /\ NothingFound.notes = <<>>
      BY DEF NothingFound
    <3>2. DOMAIN <<>> = {}
      OBVIOUS
    <3>3. IsFound(NothingFound)
      BY <3>1, <3>2 DEF IsFound
    <3>4. FirstsTrack(NothingFound, {}) /\ SecondsTrack(NothingFound, {}) /\ NotesTrack(NothingFound)
      BY <3>1, <3>2 DEF FirstsTrack, SecondsTrack, NotesTrack, IsTwice
    <3> QED BY <3>3, <3>4 DEF Tracks
  <2> QED BY <1>1, <1>2, <2>1, <2>2
<1>6. ASSUME NEW m \in 0 .. n - 1, m \in T PROVE m + 1 \in T
  <2>1. m \in Nat /\ m + 1 \in 1 .. n /\ m + 1 \in 0 .. n /\ (m + 1) - 1 = m
        /\ \A l \in 1 .. m : l \in 1 .. n /\ l < m + 1
    BY <1>1
  <2> DEFINE i == s[m + 1]
             before == Sent(m)
             pairs == V(i)
  <2>2. f[m + 1] = NoteEntry(f[m], pairs, i)
    BY <1>2, <2>1
  <2>3. Tracks(f[m], before) /\ before \subseteq Nat \X Pairs
    BY <1>4, <1>6
  <2>4. i \in 1 .. N /\ i \in Nat /\ Once(pairs, Pairs)
    BY <1>1, <2>1
  <2>5. ASSUME NEW j, NEW p, <<j, p>> \in before PROVE j < i
    <3>1. PICK k \in 1 .. m : j = s[k]
      BY <1>3, <2>5
    <3>2. k \in 1 .. n /\ k < m + 1
      BY <2>1
    <3> QED BY <1>1, <2>1, <3>1, <3>2
  <2>6. Sent(m + 1) = before \cup ({i} \X ToSet(pairs))
    <3>1. ToSet(pairs) \subseteq Pairs
      <4>1. pairs \in Seq(Pairs)
        BY <2>4 DEF Once
      <4>2. DOMAIN pairs = 1 .. Len(pairs) /\ \A l \in 1 .. Len(pairs) : pairs[l] \in Pairs
        BY <4>1, LenProperties, ElementOfSeq
      <4> QED BY <4>2 DEF ToSet
    <3>2. \A l : l \in 1 .. m + 1 <=> l \in 1 .. m \/ l = m + 1
      BY <2>1
    <3>3. ASSUME NEW j, NEW p
          PROVE  <<j, p>> \in Sent(m + 1) <=> <<j, p>> \in before \/ (j = i /\ p \in ToSet(pairs))
      <4>1. <<j, p>> \in Sent(m + 1) <=>
              j \in Nat /\ p \in Pairs /\ \E k \in 1 .. m + 1 : j = s[k] /\ p \in ToSet(V(s[k]))
        BY <1>3
      <4>2. <<j, p>> \in before <=>
              j \in Nat /\ p \in Pairs /\ \E k \in 1 .. m : j = s[k] /\ p \in ToSet(V(s[k]))
        BY <1>3
      <4> QED BY <2>4, <3>1, <3>2, <4>1, <4>2
    <3>4. Sent(m + 1) \subseteq Nat \X Pairs /\ before \cup ({i} \X ToSet(pairs)) \subseteq Nat \X Pairs
      BY <1>4, <2>3, <2>4, <3>1
    <3> HIDE DEF i, before, pairs
    <3>5. ASSUME NEW d PROVE d \in Sent(m + 1) <=> d \in before \cup ({i} \X ToSet(pairs))
      <4>1. d \in Nat \X Pairs => d = <<d[1], d[2]>>
        OBVIOUS
      <4>2. <<d[1], d[2]>> \in Sent(m + 1) <=>
              <<d[1], d[2]>> \in before \/ <<d[1], d[2]>> \in {i} \X ToSet(pairs)
        BY <3>3
      <4> QED BY <3>4, <4>1, <4>2
    <3> QED BY <3>5
  <2> HIDE DEF i, before, pairs
  <2>7. Tracks(NoteEntry(f[m], pairs, i), before \cup ({i} \X ToSet(pairs)))
    BY <2>3, <2>4, <2>5, NoteEntryTracks
  <2> QED BY <2>1, <2>2, <2>6, <2>7
<1>7. 0 .. n \subseteq T
  <2> HIDE DEF T
  <2> QED BY <1>1, <1>5, <1>6, UpTo
<1>8. Tracks(f[n], Sent(n))
  BY <1>1, <1>7
<1> QED BY <1>2, <1>8 DEF s, n, Sent

\* The first two elements of a list that rises.
LEMMA FirstTwo ==
  ASSUME NEW c, NEW N \in Nat, c \in Seq(1 .. N), \A k, l \in 1 .. Len(c) : k < l => c[k] < c[l],
         NEW pair, NEW sent, \A x : <<x, pair>> \in sent <=> x \in ToSet(c)
  PROVE  /\ Len(c) > 1 => IsSecond(c[1], c[2], pair, sent) /\ IsTwice(pair, sent)
         /\ \A i, j : IsFirst(i, pair, sent) /\ IsSecond(i, j, pair, sent) => SubSeq(c, 1, 2) = <<i, j>>
<1> DEFINE n == Len(c)
<1>1. n \in Nat /\ \A k \in 1 .. n : c[k] \in 1 .. N
  BY LenProperties, ElementOfSeq
<1>2. \A x : x \in ToSet(c) <=> \E k \in 1 .. n : c[k] = x
  BY Elements
<1>3. \A k, l \in 1 .. n : k < l => c[k] < c[l]
  OBVIOUS
<1>4. ASSUME n > 1 PROVE SubSeq(c, 1, 2) = <<c[1], c[2]>>
  <2> DEFINE d == SubSeq(c, 1, 2)
  <2>1. 1 \in 1 .. n + 1 /\ 2 \in 1 - 1 .. n /\ 2 - 1 + 1 = 2
    BY <1>1, <1>4
  <2>2. /\ d \in Seq(1 .. N) /\ Len(d) = 2 - 1 + 1
        /\ \A i \in 1 .. 2 - 1 + 1 : d[i] = c[1 + i - 1]
    BY <2>1, SubSeqProperties
  <2>3. d[1] = c[1] /\ d[2] = c[2] /\ Len(d) = 2
    BY <2>2
  <2> HIDE DEF d
  <2>4. d = [i \in 1 .. 2 |-> d[i]]
    BY <2>2, <2>3, LenProperties
  <2>5. <<d[1], d[2]>> = [i \in 1 .. 2 |-> d[i]]
    <3>1. \A i \in 1 .. 2 : i = 1 \/ i = 2
      OBVIOUS
    <3>2. <<d[1], d[2]>> = [i \in 1 .. 2 |-> <<d[1], d[2]>>[i]]
      OBVIOUS
    <3>3. \A i \in 1 .. 2 : <<d[1], d[2]>>[i] = d[i]
      BY <3>1
    <3> QED BY <3>2, <3>3
  <2>6. d = <<c[1], c[2]>>
    BY <2>3, <2>4, <2>5
  <2> QED BY <2>6 DEF d
<1> HIDE DEF n
<1>5. ASSUME n > 1 PROVE IsSecond(c[1], c[2], pair, sent) /\ IsTwice(pair, sent)
  <2>1. 1 \in 1 .. n /\ 2 \in 1 .. n /\ 1 < 2
    BY <1>1, <1>5
  <2>2. c[1] < c[2] /\ c[1] \in 1 .. N /\ c[2] \in 1 .. N
    BY <1>1, <1>3, <2>1
  <2>3. <<c[1], pair>> \in sent /\ <<c[2], pair>> \in sent
    BY <1>2, <2>1
  <2>4. ASSUME NEW k, <<k, pair>> \in sent PROVE k = c[1] \/ c[2] <= k
    <3>1. PICK p \in 1 .. n : c[p] = k
      BY <1>2, <2>4
    <3>2. p = 1 \/ p = 2 \/ 2 < p
      BY <1>1
    <3>3. CASE 2 < p
      BY <1>1, <1>3, <2>1, <2>2, <3>1, <3>3
    <3> QED BY <2>2, <3>1, <3>2, <3>3
  <2>5. c[1] # c[2]
    BY <2>2
  <2>6. IsTwice(pair, sent)
    BY <2>3, <2>5 DEF IsTwice
  <2>7. IsSecond(c[1], c[2], pair, sent)
    BY <2>2, <2>3, <2>4 DEF IsSecond
  <2> QED BY <2>6, <2>7
<1>6. ASSUME NEW i, NEW j, IsFirst(i, pair, sent), IsSecond(i, j, pair, sent)
      PROVE  SubSeq(c, 1, 2) = <<i, j>>
  <2>1. /\ <<i, pair>> \in sent /\ <<j, pair>> \in sent /\ i < j
        /\ \A k : <<k, pair>> \in sent => i <= k
        /\ \A k : <<k, pair>> \in sent => k = i \/ j <= k
    BY <1>6 DEF IsFirst, IsSecond
  <2>2. PICK p \in 1 .. n : c[p] = i
    BY <1>2, <2>1
  <2>3. PICK q \in 1 .. n : c[q] = j
    BY <1>2, <2>1
  <2>4. i \in Nat /\ j \in Nat /\ i # j
    BY <1>1, <2>1, <2>2, <2>3
  <2>5. p # q
    BY <2>2, <2>3, <2>4
  <2>6. n > 1
    BY <1>1, <2>5
  <2>7. IsSecond(c[1], c[2], pair, sent)
    BY <1>5, <2>6
  <2>8. 1 \in 1 .. n /\ 2 \in 1 .. n
    BY <1>1, <2>6
  <2>9. <<c[1], pair>> \in sent /\ <<c[2], pair>> \in sent /\ c[1] \in Nat /\ c[2] \in Nat /\ c[1] < c[2]
    BY <1>1, <1>2, <1>3, <2>8
  <2>10. i = c[1]
    <3>1. i <= c[1]
      BY <2>1, <2>9
    <3>2. i = c[1] \/ c[2] <= i
      BY <2>1, <2>7 DEF IsSecond
    <3> QED BY <2>4, <2>9, <3>1, <3>2
  <2>11. j = c[2]
    <3>1. j = c[1] \/ c[2] <= j
      BY <2>1, <2>7 DEF IsSecond
    <3>2. c[2] = i \/ j <= c[2]
      BY <2>1, <2>9
    <3> QED BY <2>4, <2>9, <2>10, <3>1, <3>2
  <2> QED BY <1>4, <2>6, <2>10, <2>11
<1> QED BY <1>5, <1>6 DEF n

\* What is kept of a rising sequence rises, and is what was asked for.
LEMMA KeepRises ==
  ASSUME NEW N \in Nat, NEW s \in Seq(1 .. N), \A k, l \in 1 .. Len(s) : k < l => s[k] < s[l], NEW S
  PROVE  LET c == Keep(s, S)
         IN  /\ c \in Seq(1 .. N)
             /\ \A k, l \in 1 .. Len(c) : k < l => c[k] < c[l]
             /\ \A x : x \in ToSet(c) <=> x \in ToSet(s) /\ x \in S
<1> DEFINE D == 1 .. N
           c == Keep(s, S)
           n == Len(s)
           m == Len(c)
<1>1. n \in Nat /\ \A k, l \in 1 .. n : k < l => s[k] < s[l]
  BY LenProperties
<1>2. PICK at : Selects(at, c, s, S)
  BY KeepSelects
<1>3. c \in Seq(D)
  BY KeepIn
<1> HIDE DEF c
<1>4. /\ m \in Nat /\ at \in [1 .. m -> 1 .. n]
      /\ \A k \in 1 .. m : c[k] = s[at[k]] /\ c[k] \in S
      /\ \A k, l \in 1 .. m : k < l => at[k] < at[l]
      /\ \A i \in 1 .. n : s[i] \in S => \E k \in 1 .. m : at[k] = i
  BY <1>2, LenProperties, ElementOfSeq DEF Selects
<1>5. \A x : x \in ToSet(s) <=> \E k \in 1 .. n : s[k] = x
  BY Elements
<1>6. \A x : x \in ToSet(c) <=> \E k \in 1 .. m : c[k] = x
  BY <1>3, Elements
<1> HIDE DEF n, m, D
<1>7. ASSUME NEW k \in 1 .. m, NEW l \in 1 .. m, k < l PROVE c[k] < c[l]
  <2>1. at[k] \in 1 .. n /\ at[l] \in 1 .. n /\ at[k] < at[l] /\ c[k] = s[at[k]] /\ c[l] = s[at[l]]
    BY <1>4, <1>7
  <2> QED BY <1>1, <2>1
<1>8. ASSUME NEW x PROVE x \in ToSet(c) <=> x \in ToSet(s) /\ x \in S
  <2>1. ASSUME NEW k \in 1 .. m, c[k] = x PROVE x \in ToSet(s) /\ x \in S
    BY <1>4, <1>5, <2>1
  <2>2. ASSUME NEW i \in 1 .. n, s[i] = x, x \in S PROVE x \in ToSet(c)
    <3>1. PICK k \in 1 .. m : at[k] = i
      BY <1>4, <2>2
    <3> QED BY <1>4, <1>6, <2>2, <3>1
  <2> QED BY <1>5, <1>6, <2>1, <2>2
<1> QED BY <1>3, <1>7, <1>8 DEF c, m, D

\* The surface is a list of entries, later and later.
LEMMA SurfaceRises ==
  ASSUME NEW es, NEW n, Timed(es, n), \A i \in 1 .. n : IsEntry(es[i])
  PROVE  Rises(es, Surface(es), n) /\ Surface(es) \in Seq(1 .. n)
<1> DEFINE S == {i \in DOMAIN es : ~Is("static-asset", es, i)}
           s == [i \in 1 .. n |-> i]
<1>1. n \in Nat /\ DOMAIN es = 1 .. n
  BY DEF Timed
<1>2. Surface(es) = Keep(s, S)
  BY <1>1 DEF Surface, Indices
<1> HIDE DEF S
<1>3. Once(Keep(s, S), 1 .. n)
  BY <1>1, KeepIndices
<1>4. \A k, l \in 1 .. Len(Keep(s, S)) : k < l => Keep(s, S)[k] < Keep(s, S)[l]
  BY <1>1, KeepIndices
<1> DEFINE r == Surface(es)
<1>5. r \in Seq(1 .. n) /\ \A k, l \in 1 .. Len(r) : k < l => r[k] < r[l]
  BY <1>2, <1>3, <1>4 DEF Once
<1> HIDE DEF r
<1>6. Len(r) \in Nat /\ \A k \in 1 .. Len(r) : r[k] \in 1 .. n
  BY <1>5, LenProperties, ElementOfSeq
<1>7. \A i \in 1 .. n : Once(IdShapedValues(es[i]), Pairs)
  BY ValuesOnce
<1> QED BY <1>5, <1>6, <1>7 DEF Rises, r

\* Notes are true, and each value that comes back has its note when it first does, or
\* another that came back in the same request.
THEOREM ReuseIsNoted ==
  ASSUME NEW es, NEW n, Timed(es, n), \A i \in 1 .. n : IsEntry(es[i])
  PROVE  ReuseIsNotedTruly(es)
<1> DEFINE s == Surface(es)
           N == Len(s)
           notes == IdValueReuse(es)
           sent == SentBy(es, s, N)
           Of(pair) == Keep(s, {i \in ToSet(s) : Carries(es, i, pair)})
<1>1. n \in Nat /\ s \in Seq(1 .. n) /\ Rises(es, s, n)
  BY SurfaceRises DEF Timed
<1>2. PICK found : Tracks(found, sent) /\ found.notes = notes
  BY <1>1, ReuseTracks
<1>3. /\ \A pair : pair \in DOMAIN found.firstSeen <=> \E i : <<i, pair>> \in sent
      /\ \A pair \in DOMAIN found.firstSeen : IsFirst(found.firstSeen[pair], pair, sent)
      /\ \A pair : pair \in DOMAIN found.noteOf <=> IsTwice(pair, sent)
      /\ \A pair \in DOMAIN found.noteOf :
           /\ IsSecond(found.firstSeen[pair], found.noteOf[pair], pair, sent)
           /\ found.noteOf[pair] \in DOMAIN notes
      /\ \A i \in DOMAIN notes : /\ notes[i].pair \in DOMAIN found.noteOf
                                 /\ found.noteOf[notes[i].pair] = i
                                 /\ notes[i].firstSeen = found.firstSeen[notes[i].pair]
  BY <1>2 DEF Tracks, FirstsTrack, SecondsTrack, NotesTrack
<1>4. N \in Nat /\ (\A k \in 1 .. N : s[k] \in 1 .. n)
      /\ \A k, l \in 1 .. N : k < l => s[k] < s[l]
  BY <1>1 DEF Rises
<1>5. \A x : x \in ToSet(s) <=> \E k \in 1 .. N : s[k] = x
  BY <1>1, Elements
<1>6. ASSUME NEW pair, NEW x
      PROVE  <<x, pair>> \in sent <=> x \in ToSet(s) /\ Carries(es, x, pair)
  <2>1. <<x, pair>> \in sent <=>
          /\ x \in Nat /\ pair \in Pairs
          /\ \E k \in 1 .. N : x = s[k] /\ pair \in ToSet(IdShapedValues(es[s[k]]))
    BY DEF SentBy
  <2>2. \A k \in 1 .. N : ToSet(IdShapedValues(es[s[k]])) \subseteq Pairs
    <3>1. SUFFICES ASSUME NEW k \in 1 .. N, NEW p \in ToSet(IdShapedValues(es[s[k]])) PROVE p \in Pairs
      OBVIOUS
    <3> DEFINE v == IdShapedValues(es[s[k]])
    <3>2. v \in Seq(Pairs)
      BY <1>1, <1>4 DEF Rises, Once
    <3> HIDE DEF v
    <3>3. DOMAIN v = 1 .. Len(v) /\ \A l \in 1 .. Len(v) : v[l] \in Pairs
      BY <3>2, LenProperties, ElementOfSeq
    <3>4. p \in ToSet(v)
      BY DEF v
    <3> QED BY <3>3, <3>4 DEF ToSet
  <2> HIDE DEF sent, s, N
  <2>3. \A k \in 1 .. N : s[k] \in Nat
    BY <1>1, <1>4
  <2> QED BY <1>5, <2>1, <2>2, <2>3 DEF Carries
<1> HIDE DEF sent, notes
<1>7. ASSUME NEW pair
      PROVE  /\ Of(pair) \in Seq(1 .. n)
             /\ \A k, l \in 1 .. Len(Of(pair)) : k < l => Of(pair)[k] < Of(pair)[l]
             /\ \A x : <<x, pair>> \in sent <=> x \in ToSet(Of(pair))
  <2> DEFINE S == {i \in ToSet(s) : Carries(es, i, pair)}
             c == Keep(s, S)
  <2>1. \A x : x \in S <=> x \in ToSet(s) /\ Carries(es, x, pair)
    OBVIOUS
  <2> HIDE DEF S, s, N
  <2>2. \A k, l \in 1 .. Len(s) : k < l => s[k] < s[l]
    BY <1>4 DEF N
  <2>3. c \in Seq(1 .. n) /\ \A k, l \in 1 .. Len(c) : k < l => c[k] < c[l]
    BY <1>1, <2>2, KeepRises
  <2>4. \A x : x \in ToSet(c) <=> x \in ToSet(s) /\ x \in S
    BY <1>1, <2>2, KeepRises
  <2> QED BY <1>6, <2>1, <2>3, <2>4 DEF S
<1> HIDE DEF Of
<1>8. ASSUME NEW pair
      PROVE  /\ Len(Of(pair)) > 1 =>
                  IsSecond(Of(pair)[1], Of(pair)[2], pair, sent) /\ IsTwice(pair, sent)
             /\ \A i, j : IsFirst(i, pair, sent) /\ IsSecond(i, j, pair, sent) =>
                            SubSeq(Of(pair), 1, 2) = <<i, j>>
  <2> DEFINE c == Of(pair)
  <2>1. /\ n \in Nat /\ c \in Seq(1 .. n)
        /\ \A k, l \in 1 .. Len(c) : k < l => c[k] < c[l]
        /\ \A x : <<x, pair>> \in sent <=> x \in ToSet(c)
    BY <1>1, <1>7
  <2> HIDE DEF c
  <2>2. /\ Len(c) > 1 => IsSecond(c[1], c[2], pair, sent) /\ IsTwice(pair, sent)
        /\ \A i, j : IsFirst(i, pair, sent) /\ IsSecond(i, j, pair, sent) => SubSeq(c, 1, 2) = <<i, j>>
    BY <2>1, FirstTwo
  <2> QED BY <2>2 DEF c
<1>9. ASSUME NEW pair, Len(Of(pair)) > 1 PROVE Of(pair)[2] \in DOMAIN notes
  <2> DEFINE i == found.firstSeen[pair]
             j == found.noteOf[pair]
  <2>1. IsTwice(pair, sent) /\ IsSecond(Of(pair)[1], Of(pair)[2], pair, sent)
    BY <1>8, <1>9
  <2>2. pair \in DOMAIN found.noteOf /\ pair \in DOMAIN found.firstSeen
    BY <1>3, <2>1 DEF IsTwice
  <2>3. IsFirst(i, pair, sent) /\ IsSecond(i, j, pair, sent) /\ j \in DOMAIN notes
    BY <1>3, <2>2
  <2> HIDE DEF i, j
  <2>4. SubSeq(Of(pair), 1, 2) = <<i, j>>
    BY <1>8, <2>3
  <2>5. Of(pair)[2] = j
    <3>1. SubSeq(Of(pair), 1, 2)[2] = Of(pair)[1 + 2 - 1]
      <4> DEFINE c == Of(pair)
      <4>1. c \in Seq(1 .. n) /\ Len(c) \in Nat /\ Len(c) > 1
        BY <1>7, <1>9, LenProperties
      <4> HIDE DEF c
      <4>2. 1 \in 1 .. Len(c) + 1 /\ 2 \in 1 - 1 .. Len(c) /\ 2 \in 1 .. 2 - 1 + 1
        BY <4>1
      <4>3. SubSeq(c, 1, 2)[2] = c[1 + 2 - 1]
        BY <4>1, <4>2, SubSeqProperties
      <4> QED BY <4>3 DEF c
    <3>2. <<i, j>>[2] = j /\ 1 + 2 - 1 = 2
      OBVIOUS
    <3> QED BY <2>4, <3>1, <3>2
  <2> QED BY <2>3, <2>5
<1>10. ASSUME NEW i \in DOMAIN notes
       PROVE  SubSeq(Of(notes[i].pair), 1, 2) = <<notes[i].firstSeen, i>>
  <2> DEFINE pair == notes[i].pair
  <2>1. /\ pair \in DOMAIN found.noteOf /\ found.noteOf[pair] = i
        /\ notes[i].firstSeen = found.firstSeen[pair]
    BY <1>3
  <2> HIDE DEF pair
  <2>2. pair \in DOMAIN found.firstSeen
    BY <1>3, <2>1 DEF IsTwice
  <2>3. IsFirst(notes[i].firstSeen, pair, sent) /\ IsSecond(notes[i].firstSeen, i, pair, sent)
    BY <1>3, <2>1, <2>2
  <2>4. SubSeq(Of(pair), 1, 2) = <<notes[i].firstSeen, i>>
    BY <1>8, <2>3
  <2> QED BY <2>4 DEF pair
<1> QED BY <1>9, <1>10 DEF ReuseIsNotedTruly, Of, notes, s

\* The notes of every capture that is recorded.
THEOREM ReuseNotesAreAllTrue == Spec => []ReuseNotesAreTrue
<1>1. InputsOK => ReuseNotesAreTrue
  <2> SUFFICES ASSUME InputsOK, subject = "capture" PROVE ReuseIsNotedTruly(input)
    BY DEF ReuseNotesAreTrue
  <2>1. given \in Kinds /\ input \in Seq(Recorded(given))
    BY DEF InputsOK
  <2>2. Len(input) \in Nat /\ DOMAIN input = 1 .. Len(input)
        /\ \A i \in 1 .. Len(input) : input[i] \in Recorded(given)
    BY <2>1, LenProperties, ElementOfSeq
  <2>3. Timed(input, Len(input)) /\ \A i \in 1 .. Len(input) : IsEntry(input[i])
    BY <2>1, <2>2, RecordedIsEntry DEF Timed
  <2> QED BY <2>3, ReuseIsNoted
<1> QED BY <1>1, InputsInductive, PTL
================================================================================
