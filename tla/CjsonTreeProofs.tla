--------------------------- MODULE CjsonTreeProofs --------------------------
(* The tree of items in cJSON.c, proved for any number of them.  The heap is *)
(* shown to lay out a forest, a sequence of children for every item; each    *)
(* call is followed from the pointers it writes to the forest it leaves, and *)
(* from there to an operation of JsonTree.                                   *)
EXTENDS CjsonTree, FiniteSetTheorems, SequenceTheorems, WellFoundedInduction, TLAPS

-----------------------------------------------------------------------------
\* RemoveAt moves the places behind down by one.
LEMMA Removed ==
  ASSUME NEW s \in Seq(Nodes), NEW p \in 1 .. Len(s)
  PROVE  /\ RemoveAt(s, p) \in Seq(Nodes) /\ Len(RemoveAt(s, p)) = Len(s) - 1
         /\ \A i \in 1 .. Len(s) - 1 : RemoveAt(s, p)[i] = IF i < p THEN s[i] ELSE s[i + 1]
<1> DEFINE a == SubSeq(s, 1, p - 1)
           b == SubSeq(s, p + 1, Len(s))
           m == Len(s)
<1>1. m \in Nat /\ p \in 1 .. m /\ \A i \in 1 .. m : s[i] \in Nodes
  OBVIOUS
<1>2. /\ a \in Seq(Nodes) /\ Len(a) = p - 1
      /\ \A i \in 1 .. p - 1 : a[i] = s[i]
  <2>1. \A i \in 1 .. p - 1 : s[i] \in Nodes
    BY <1>1
  <2> HIDE DEF m
  <2>2. /\ SubSeq(s, 1, p - 1) \in Seq(Nodes)
        /\ Len(SubSeq(s, 1, p - 1)) = IF 1 <= p - 1 THEN p - 1 - 1 + 1 ELSE 0
        /\ \A i \in 1 .. p - 1 - 1 + 1 : SubSeq(s, 1, p - 1)[i] = s[1 + i - 1]
    BY <1>1, <2>1, SubSeqProperties
  <2> QED
    BY <1>1, <2>2
<1>3. /\ b \in Seq(Nodes) /\ Len(b) = m - p
      /\ \A i \in 1 .. m - p : b[i] = s[p + i]
  <2>1. \A i \in p + 1 .. m : s[i] \in Nodes
    BY <1>1
  <2>2. b = SubSeq(s, p + 1, m)
    OBVIOUS
  <2> HIDE DEF m, b
  <2>3. /\ SubSeq(s, p + 1, m) \in Seq(Nodes)
        /\ Len(SubSeq(s, p + 1, m)) = IF p + 1 <= m THEN m - (p + 1) + 1 ELSE 0
        /\ \A i \in 1 .. m - (p + 1) + 1 : SubSeq(s, p + 1, m)[i] = s[(p + 1) + i - 1]
    BY <1>1, <2>1, SubSeqProperties
  <2> QED
    BY <1>1, <2>3, <2>2
<1>4. RemoveAt(s, p) = a \o b
  BY DEF RemoveAt
<1> HIDE DEF a, b
<1>5. /\ a \o b \in Seq(Nodes) /\ Len(a \o b) = Len(a) + Len(b)
      /\ \A i \in 1 .. Len(a) + Len(b) : (a \o b)[i] =
            IF i <= Len(a) THEN a[i] ELSE b[i - Len(a)]
  BY <1>2, <1>3, ConcatProperties
<1> HIDE DEF m
<1>6. ASSUME NEW i \in 1 .. m - 1
      PROVE  (a \o b)[i] = IF i < p THEN s[i] ELSE s[i + 1]
  <2>1. CASE i < p
    <3>1. i \in 1 .. p - 1 /\ i <= Len(a) /\ i \in 1 .. Len(a) + Len(b)
      BY <1>1, <1>2, <1>3, <2>1
    <3> QED
      BY <1>2, <1>5, <2>1, <3>1
  <2>2. CASE ~(i < p)
    <3>1. ~(i <= Len(a)) /\ i \in 1 .. Len(a) + Len(b)
      BY <1>1, <1>2, <1>3, <2>2
    <3>2. i - Len(a) \in 1 .. m - p /\ p + (i - Len(a)) = i + 1
      BY <1>1, <1>2, <2>2
    <3> QED
      BY <1>3, <1>5, <2>2, <3>1, <3>2
  <2> QED
    BY <2>1, <2>2
<1>7. Len(a \o b) = m - 1
  BY <1>1, <1>2, <1>3, <1>5
<1> QED
  BY <1>4, <1>5, <1>6, <1>7 DEF m

\* InsertAt moves the places from there on up by one.
LEMMA Inserted ==
  ASSUME NEW s \in Seq(Nodes), NEW p \in 1 .. Len(s) + 1, NEW e \in Nodes
  PROVE  /\ InsertAt(s, p, e) \in Seq(Nodes) /\ Len(InsertAt(s, p, e)) = Len(s) + 1
         /\ \A i \in 1 .. Len(s) + 1 : InsertAt(s, p, e)[i] =
               IF i < p THEN s[i] ELSE IF i = p THEN e ELSE s[i - 1]
<1> DEFINE a == SubSeq(s, 1, p - 1)
           b == SubSeq(s, p, Len(s))
           c == <<e>>
           m == Len(s)
<1>1. m \in Nat /\ p \in 1 .. m + 1 /\ \A i \in 1 .. m : s[i] \in Nodes
  OBVIOUS
<1>2. /\ a \in Seq(Nodes) /\ Len(a) = p - 1
      /\ \A i \in 1 .. p - 1 : a[i] = s[i]
  <2>1. \A i \in 1 .. p - 1 : s[i] \in Nodes
    BY <1>1
  <2> HIDE DEF m
  <2>2. /\ SubSeq(s, 1, p - 1) \in Seq(Nodes)
        /\ Len(SubSeq(s, 1, p - 1)) = IF 1 <= p - 1 THEN p - 1 - 1 + 1 ELSE 0
        /\ \A i \in 1 .. p - 1 - 1 + 1 : SubSeq(s, 1, p - 1)[i] = s[1 + i - 1]
    BY <1>1, <2>1, SubSeqProperties
  <2> QED
    BY <1>1, <2>2
<1>3. /\ b \in Seq(Nodes) /\ Len(b) = m + 1 - p
      /\ \A i \in 1 .. m + 1 - p : b[i] = s[p + i - 1]
  <2>1. \A i \in p .. m : s[i] \in Nodes
    BY <1>1
  <2>2. b = SubSeq(s, p, m)
    OBVIOUS
  <2> HIDE DEF m, b
  <2>3. /\ SubSeq(s, p, m) \in Seq(Nodes)
        /\ Len(SubSeq(s, p, m)) = IF p <= m THEN m - p + 1 ELSE 0
        /\ \A i \in 1 .. m - p + 1 : SubSeq(s, p, m)[i] = s[p + i - 1]
    BY <1>1, <2>1, SubSeqProperties
  <2> QED
    BY <1>1, <2>3, <2>2
<1>4. InsertAt(s, p, e) = (a \o c) \o b
  BY DEF InsertAt
<1>5. c \in Seq(Nodes) /\ Len(c) = 1 /\ c[1] = e
  OBVIOUS
<1> HIDE DEF a, b, c
<1>6. /\ a \o c \in Seq(Nodes) /\ Len(a \o c) = Len(a) + 1
      /\ \A i \in 1 .. Len(a) + 1 : (a \o c)[i] = IF i <= Len(a) THEN a[i] ELSE c[i - Len(a)]
  <2>1. /\ a \o c \in Seq(Nodes) /\ Len(a \o c) = Len(a) + Len(c)
        /\ \A i \in 1 .. Len(a) + Len(c) :
             (a \o c)[i] = IF i <= Len(a) THEN a[i] ELSE c[i - Len(a)]
    BY <1>2, <1>5, ConcatProperties
  <2> QED
    BY <1>5, <2>1
<1> DEFINE d == a \o c
<1>7. d \in Seq(Nodes) /\ Len(d) = p /\ \A i \in 1 .. p : d[i] = IF i < p THEN s[i] ELSE e
  <2>1. ASSUME NEW i \in 1 .. p PROVE d[i] = IF i < p THEN s[i] ELSE e
    <3>1. i \in 1 .. Len(a) + 1 /\ (i <= Len(a) <=> i < p)
      BY <1>1, <1>2
    <3>2. CASE i < p
      BY <1>1, <1>2, <1>6, <3>1, <3>2
    <3>3. CASE ~(i < p)
      <4>1. i - Len(a) = 1
        BY <1>1, <1>2, <3>3
      <4> QED
        BY <1>6, <1>5, <3>1, <3>3, <4>1
    <3> QED
      BY <3>2, <3>3
  <2> QED
    BY <1>1, <1>2, <1>6, <2>1
<1> HIDE DEF d
<1>8. /\ d \o b \in Seq(Nodes) /\ Len(d \o b) = Len(d) + Len(b)
      /\ \A i \in 1 .. Len(d) + Len(b) : (d \o b)[i] =
            IF i <= Len(d) THEN d[i] ELSE b[i - Len(d)]
  BY <1>3, <1>7, ConcatProperties
<1> HIDE DEF m
<1>9. ASSUME NEW i \in 1 .. m + 1
      PROVE  (d \o b)[i] = IF i < p THEN s[i] ELSE IF i = p THEN e ELSE s[i - 1]
  <2>1. CASE i <= p
    BY <1>1, <1>3, <1>7, <1>8, <2>1
  <2>2. CASE ~(i <= p)
    <3>1. ~(i <= Len(d)) /\ i \in 1 .. Len(d) + Len(b)
      BY <1>1, <1>3, <1>7, <2>2
    <3>2. i - Len(d) \in 1 .. m + 1 - p /\ p + (i - Len(d)) - 1 = i - 1
      BY <1>1, <1>7, <2>2
    <3>3. b[i - Len(d)] = s[i - 1]
      BY <1>3, <3>2
    <3>4. (d \o b)[i] = b[i - Len(d)]
      BY <1>8, <3>1
    <3> QED
      BY <1>1, <2>2, <3>3, <3>4
  <2> QED
    BY <2>1, <2>2
<1>10. Len(d \o b) = m + 1
  BY <1>1, <1>3, <1>7, <1>8
<1> QED
  BY <1>4, <1>8, <1>9, <1>10 DEF m, d

-----------------------------------------------------------------------------
\* Walking.

\* A set of naturals with an element has a least one.
LEMMA LeastNat ==
  ASSUME NEW T \in SUBSET Nat, T # {}
  PROVE  \E m \in T : \A k \in T : m <= k
<1>1. PICK m \in T : \A k \in T : ~(<<k, m>> \in OpToRel(<, Nat))
  BY NatLessThanWellFounded, WFMin
<1>2. \A k \in T : ~(k < m)
  BY <1>1 DEF OpToRel
<1> QED
  BY <1>2

\* Induction over the naturals, for a set in the place of a property.
LEMMA NatUpwards ==
  ASSUME NEW S, 0 \in S, \A n \in Nat : n \in S => n + 1 \in S
  PROVE  Nat \subseteq S
<1> DEFINE T == Nat \ S
<1>1. ASSUME T # {} PROVE FALSE
  <2>1. T \in SUBSET Nat
    OBVIOUS
  <2>2. PICK n \in T : \A k \in T : n <= k
    <3> HIDE DEF T
    <3> QED
      BY <1>1, <2>1, LeastNat
  <2>3. n \in Nat /\ n # 0
    OBVIOUS
  <2>4. n - 1 \in Nat /\ ~(n <= n - 1)
    BY <2>3
  <2>5. n - 1 \in S
    BY <2>2, <2>4
  <2>6. (n - 1) + 1 = n
    BY <2>3
  <2> QED
    BY <2>4, <2>5, <2>6
<1> QED
  BY <1>1

\* A row without repetitions has no more items than there are.
LEMMA NoLongerThanNodes ==
  ASSUME NEW s \in Seq(Nodes), IsInjective(s)
  PROVE  Cardinality(Nodes) \in Nat /\ Len(s) <= Cardinality(Nodes)
<1>1. IsFiniteSet(Nodes) /\ Cardinality(Nodes) \in Nat
  BY FS_CardinalityType, TreeAssumption
<1>2. s \in Injection(1 .. Len(s), Nodes)
  BY DEF Injection, IsInjective
<1>3. Cardinality(1 .. Len(s)) <= Cardinality(Nodes)
  BY <1>1, <1>2, FS_Injection
<1>4. Cardinality(1 .. Len(s)) = Len(s)
  <2>1. Len(s) \in Nat
    OBVIOUS
  <2>2. Cardinality(1 .. Len(s)) = IF 1 > Len(s) THEN 0 ELSE Len(s) - 1 + 1
    BY <2>1, FS_Interval
  <2> QED
    BY <2>1, <2>2
<1> QED
  BY <1>1, <1>3, <1>4

\* The i-th item of a list, NULL past its end.
Nth(s, i) == IF i \in 1 .. Len(s) THEN s[i] ELSE NULL

\* The walk along next finds the row whose links it follows, and its end.
LEMMA FromIs ==
  ASSUME NEW h, NEW s \in Seq(Nodes), IsInjective(s),
         \A i \in 1 .. Len(s) : h.next[s[i]] = Nth(s, i + 1)
  PROVE  From(h, Nth(s, 1)) = s
<1> DEFINE N == Cardinality(Nodes)
           m == Len(s)
           from == Nth(s, 1)
           Goes(f) == [i \in 0 .. N |-> IF i = 0 THEN from
                         ELSE IF f[i - 1] = NULL THEN NULL ELSE h.next[f[i - 1]]]
           at == CHOOSE f : f = Goes(f)
           W == [i \in 0 .. N |-> IF i < m THEN s[i + 1] ELSE NULL]
<1>1. N \in Nat /\ m \in Nat /\ m <= N
  BY NoLongerThanNodes
<1>2. From(h, from) = IF from = NULL THEN << >>
                      ELSE [i \in {j \in 1 .. N : at[j - 1] # NULL} |-> at[i - 1]]
  BY DEF From
<1>3. \A i \in 1 .. m : s[i] \in Nodes /\ s[i] # NULL
  BY TreeAssumption
<1>4. from = IF 0 < m THEN s[1] ELSE NULL
  BY <1>1 DEF Nth
<1>5. \A i \in 1 .. m : h.next[s[i]] = IF i < m THEN s[i + 1] ELSE NULL
  BY <1>1 DEF Nth
<1>6. s \in [1 .. m -> Nodes] /\ (m = 0 => s = << >>)
  OBVIOUS
<1> HIDE DEF N, m, from
<1>7. W = Goes(W)
  <2>1. ASSUME NEW i \in 0 .. N
        PROVE  W[i] = IF i = 0 THEN from
                      ELSE IF W[i - 1] = NULL THEN NULL ELSE h.next[W[i - 1]]
    <3>1. CASE i = 0
      BY <1>1, <1>4, <3>1
    <3>2. CASE i # 0 /\ i <= m
      <4>1. i - 1 \in 0 .. N /\ i - 1 < m /\ i - 1 + 1 = i /\ i \in 1 .. m
        BY <1>1, <3>2
      <4>2. W[i - 1] = s[i]
        BY <4>1
      <4>3. W[i] = h.next[s[i]]
        BY <1>5, <4>1
      <4> QED
        BY <1>3, <3>2, <4>1, <4>2, <4>3
    <3>3. CASE i # 0 /\ ~(i <= m)
      <4>1. i - 1 \in 0 .. N /\ ~(i - 1 < m)
        BY <1>1, <3>3
      <4> QED
        BY <1>1, <3>3, <4>1
    <3> QED
      BY <3>1, <3>2, <3>3
  <2> QED
    BY <2>1
<1>8. at = Goes(at)
  <2>1. \E f : f = Goes(f)
    <3> HIDE DEF Goes, W
    <3> QED
      BY <1>7
  <2> HIDE DEF Goes
  <2> QED
    BY <2>1
<1> HIDE DEF at
<1>9. \A i \in 0 .. N : at[i] = W[i]
  <2> DEFINE S == {n \in Nat : n \in 0 .. N => at[n] = W[n]}
  <2>1. 0 \in S
    <3>1. at[0] = from /\ W[0] = from
      <4>1. 0 \in 0 .. N
        BY <1>1
      <4>2. at[0] = from
        BY <1>8, <4>1
      <4>3. W[0] = from
        BY <1>4, <4>1
      <4> QED
        BY <4>2, <4>3
    <3> HIDE DEF W, Goes
    <3> QED
      BY <3>1
  <2>2. ASSUME NEW n \in Nat, n \in S PROVE n + 1 \in S
    <3>1. ASSUME n + 1 \in 0 .. N PROVE at[n + 1] = W[n + 1]
      <4>1. n \in 0 .. N /\ n + 1 # 0 /\ n + 1 - 1 = n
        BY <1>1, <3>1
      <4>2. at[n] = W[n]
        <5> HIDE DEF W
        <5> QED
          BY <2>2, <4>1
      <4>3. at[n + 1] = IF at[n] = NULL THEN NULL ELSE h.next[at[n]]
        BY <1>8, <3>1, <4>1
      <4>4. W[n + 1] = IF W[n] = NULL THEN NULL ELSE h.next[W[n]]
        <5> HIDE DEF W
        <5> QED
          BY <1>7, <3>1, <4>1
      <4> QED
        BY <4>2, <4>3, <4>4
    <3> QED
      BY <3>1
  <2>3. Nat \subseteq S
    <3> HIDE DEF S
    <3> QED
      BY <2>1, <2>2, NatUpwards
  <2> HIDE DEF W
  <2> QED
    BY <1>1, <2>3
<1>10. \A j \in 1 .. N : at[j - 1] = IF j <= m THEN s[j] ELSE NULL
  <2>1. \A j \in 1 .. N : j - 1 \in 0 .. N /\ (j - 1 < m <=> j <= m) /\ j - 1 + 1 = j
    BY <1>1
  <2> QED
    BY <1>9, <2>1
<1>11. {j \in 1 .. N : at[j - 1] # NULL} = 1 .. m
  BY <1>1, <1>3, <1>10
<1>12. [i \in 1 .. m |-> at[i - 1]] = s
  <2>1. \A i \in 1 .. m : at[i - 1] = s[i]
    BY <1>1, <1>10
  <2> QED
    BY <1>6, <2>1
<1>13. from = NULL <=> m = 0
  BY <1>1, <1>3, <1>4
<1>14. From(h, from) = s
  BY <1>2, <1>11, <1>12, <1>13, <1>6
<1> QED
  BY <1>14 DEF from

\* to leads out of no member of S.
Closed(S, to) == \A n \in S : to[n] \subseteq S

\* A function of a set into itself can be iterated.
LEMMA Iterated ==
  ASSUME NEW x \in SUBSET Nodes, NEW F \in [SUBSET Nodes -> SUBSET Nodes], NEW N \in Nat
  PROVE  \E f \in [0 .. N -> SUBSET Nodes] : f[0] = x /\ \A i \in 1 .. N : f[i] = F[f[i - 1]]
<1> DEFINE X == SUBSET Nodes
           Can(k) == \E f \in [0 .. k -> X] : f[0] = x /\ \A i \in 1 .. k : f[i] = F[f[i - 1]]
           S == {k \in Nat : Can(k)}
<1>1. x \in X /\ F \in [X -> X]
  OBVIOUS
<1> HIDE DEF X
<1>2. 0 \in S
  <2> DEFINE f == [i \in 0 .. 0 |-> x]
  <2>1. f \in [0 .. 0 -> X] /\ f[0] = x /\ \A i \in 1 .. 0 : f[i] = F[f[i - 1]]
    BY <1>1
  <2> HIDE DEF f
  <2> QED
    BY <2>1
<1>3. ASSUME NEW k \in Nat, k \in S PROVE k + 1 \in S
  <2>1. PICK f \in [0 .. k -> X] : f[0] = x /\ \A i \in 1 .. k : f[i] = F[f[i - 1]]
    BY <1>3
  <2> DEFINE g == [i \in 0 .. k + 1 |-> IF i = k + 1 THEN F[f[k]] ELSE f[i]]
  <2>2. g \in [0 .. k + 1 -> X]
    <3>1. k \in 0 .. k /\ \A i \in 0 .. k + 1 : i # k + 1 => i \in 0 .. k
      OBVIOUS
    <3> QED
      BY <1>1, <3>1
  <2>3. g[0] = x
    BY <2>1
  <2>4. ASSUME NEW i \in 1 .. k + 1 PROVE g[i] = F[g[i - 1]]
    <3>1. i - 1 \in 0 .. k + 1 /\ i - 1 # k + 1 /\ i \in 0 .. k + 1
      OBVIOUS
    <3>2. g[i - 1] = f[i - 1]
      BY <3>1
    <3>3. CASE i = k + 1
      <4>1. i - 1 = k
        BY <3>3
      <4> QED
        BY <3>2, <3>3, <4>1
    <3>4. CASE i # k + 1
      <4>1. i \in 1 .. k
        BY <3>4
      <4> QED
        BY <2>1, <3>1, <3>2, <3>4, <4>1
    <3> QED
      BY <3>3, <3>4
  <2> HIDE DEF g
  <2> QED
    BY <2>2, <2>3, <2>4
<1>4. Nat \subseteq S
  <2> HIDE DEF S
  <2> QED
    BY <1>2, <1>3, NatUpwards
<1>5. Can(N)
  <2> HIDE DEF Can
  <2> QED
    BY <1>4
<1> QED
  BY <1>5 DEF X

\* Met is the least set with the root that to does not lead out of: as many
\* steps as there are nodes reach everything.
LEMMA MetIsLeast ==
  ASSUME NEW root \in Nodes, NEW to \in [Nodes -> SUBSET Nodes]
  PROVE  /\ Met(Nodes, root, to) \in SUBSET Nodes /\ root \in Met(Nodes, root, to)
         /\ Closed(Met(Nodes, root, to), to)
         /\ \A S \in SUBSET Nodes : root \in S /\ Closed(S, to) => Met(Nodes, root, to) \subseteq S
<1> DEFINE N == Cardinality(Nodes)
           Wider(S) == S \cup UNION {to[n] : n \in S}
           Goes(f) == [i \in 0 .. N |-> IF i = 0 THEN {root} ELSE Wider(f[i - 1])]
           met == CHOOSE f : f = Goes(f)
<1>1. N \in Nat /\ IsFiniteSet(Nodes)
  BY FS_CardinalityType, TreeAssumption
<1>2. Met(Nodes, root, to) = met[N]
  BY DEF Met
<1>3. \A S \in SUBSET Nodes : Wider(S) \in SUBSET Nodes
  OBVIOUS
<1> HIDE DEF N, Wider
<1>4. PICK f \in [0 .. N -> SUBSET Nodes] :
        f[0] = {root} /\ \A i \in 1 .. N : f[i] = Wider(f[i - 1])
  <2> DEFINE F == [S \in SUBSET Nodes |-> Wider(S)]
             x == {root}
  <2>1. x \in SUBSET Nodes
    OBVIOUS
  <2>2. F \in [SUBSET Nodes -> SUBSET Nodes]
    BY <1>3
  <2> HIDE DEF F, x
  <2>3. PICK f \in [0 .. N -> SUBSET Nodes] : f[0] = x /\ \A i \in 1 .. N : f[i] = F[f[i - 1]]
    BY <1>1, <2>1, <2>2, Iterated, ZenonT(40)
  <2>4. ASSUME NEW i \in 1 .. N PROVE f[i] = Wider(f[i - 1])
    <3>1. i - 1 \in 0 .. N
      BY <1>1
    <3>2. f[i - 1] \in SUBSET Nodes
      BY <2>3, <3>1
    <3> QED
      BY <2>3, <3>2 DEF F
  <2> QED
    BY <2>3, <2>4 DEF x
<1>5. met = Goes(met)
  <2>1. f = Goes(f)
    <3>1. \A i \in 0 .. N : f[i] = IF i = 0 THEN {root} ELSE Wider(f[i - 1])
      BY <1>1, <1>4
    <3> QED
      BY <1>4, <3>1
  <2> HIDE DEF Goes
  <2> QED
    BY <2>1
<1>6. met \in [0 .. N -> SUBSET Nodes] /\ met[0] = {root} /\ \A i \in 1 .. N : met[i] = Wider(met[i - 1])
  <2> DEFINE S == {k \in Nat : k \in 0 .. N => met[k] \in SUBSET Nodes}
  <2>1. met[0] = {root} /\ \A i \in 1 .. N : met[i] = Wider(met[i - 1])
    <3> HIDE DEF met
    <3>1. 0 \in 0 .. N /\ \A i \in 1 .. N : i \in 0 .. N /\ i # 0
      BY <1>1
    <3> QED
      BY <1>5, <3>1
  <2> HIDE DEF met
  <2>2. 0 \in S
    BY <2>1
  <2>3. ASSUME NEW k \in Nat, k \in S PROVE k + 1 \in S
    <3>1. ASSUME k + 1 \in 0 .. N PROVE met[k + 1] \in SUBSET Nodes
      <4>1. k \in 0 .. N /\ k + 1 \in 1 .. N /\ k + 1 - 1 = k
        BY <1>1, <3>1
      <4>2. met[k] \in SUBSET Nodes
        BY <2>3, <4>1
      <4>3. met[k + 1] = Wider(met[k])
        BY <2>1, <4>1
      <4> QED
        BY <1>3, <4>2, <4>3
    <3> QED
      BY <3>1
  <2>4. Nat \subseteq S
    <3> HIDE DEF S
    <3> QED
      BY <2>2, <2>3, NatUpwards
  <2>5. \A k \in 0 .. N : met[k] \in SUBSET Nodes
    BY <1>1, <2>4
  <2>6. met = [i \in 0 .. N |-> IF i = 0 THEN {root} ELSE Wider(met[i - 1])]
    BY <1>5
  <2> QED
    BY <2>1, <2>5, <2>6
<1> HIDE DEF met, Goes
\* The set has grown in every step, or grows no more.
<1>7. Closed(met[N], to)
  <2> DEFINE S == {k \in Nat : k \in 0 .. N =>
                     Closed(met[k], to) \/ k + 1 <= Cardinality(met[k])}
  <2>1. \A k \in 0 .. N : IsFiniteSet(met[k]) /\ Cardinality(met[k]) \in Nat /\ Cardinality(met[k]) <= N
    <3>1. ASSUME NEW k \in 0 .. N
          PROVE  IsFiniteSet(met[k]) /\ Cardinality(met[k]) \in Nat /\ Cardinality(met[k]) <= N
      <4>1. met[k] \in SUBSET Nodes
        BY <1>6
      <4> QED
        BY <1>1, <4>1, FS_Subset, FS_CardinalityType DEF N
    <3> QED
      BY <3>1
  <2>2. 0 \in S
    <3>1. Cardinality({root}) = 1
      BY FS_Singleton
    <3>2. Cardinality(met[0]) = 1
      BY <1>6, <3>1
    <3>3. 0 + 1 <= Cardinality(met[0])
      BY <3>2
    <3> QED
      BY <3>3
  <2>3. ASSUME NEW k \in Nat, k \in S PROVE k + 1 \in S
    <3>1. ASSUME k + 1 \in 0 .. N
          PROVE  Closed(met[k + 1], to) \/ k + 1 + 1 <= Cardinality(met[k + 1])
      <4>1. k \in 0 .. N /\ k + 1 \in 1 .. N /\ k + 1 - 1 = k
        BY <1>1, <3>1
      <4>2. met[k + 1] = Wider(met[k])
        BY <1>6, <4>1
      <4>3. CASE Closed(met[k], to)
        <5>1. Wider(met[k]) = met[k]
          BY <4>3 DEF Wider, Closed
        <5> QED
          BY <4>2, <4>3, <5>1
      <4>4. CASE ~Closed(met[k], to)
        <5>1. k + 1 <= Cardinality(met[k])
          BY <2>3, <4>1, <4>4
        <5>2. met[k] \subseteq Wider(met[k]) /\ met[k] # Wider(met[k])
          BY <4>4 DEF Wider, Closed
        <5>3. Cardinality(met[k]) < Cardinality(met[k + 1])
          BY <2>1, <3>1, <4>1, <4>2, <5>2, FS_Subset
        <5>4. Cardinality(met[k]) \in Nat /\ Cardinality(met[k + 1]) \in Nat
          BY <2>1, <3>1, <4>1
        <5> QED
          BY <5>1, <5>3, <5>4
      <4> QED
        BY <4>3, <4>4
    <3> QED
      BY <3>1
  <2>4. Nat \subseteq S
    <3> HIDE DEF S
    <3> QED
      BY <2>2, <2>3, NatUpwards
  <2>5. N \in 0 .. N /\ N \in S
    BY <1>1, <2>4
  <2>6. ~(N + 1 <= Cardinality(met[N]))
    BY <1>1, <2>1, <2>5
  <2> QED
    BY <2>5, <2>6
<1>8. root \in met[N]
  <2> DEFINE S == {k \in Nat : k \in 0 .. N => root \in met[k]}
  <2>1. 0 \in S
    BY <1>6
  <2>2. ASSUME NEW k \in Nat, k \in S PROVE k + 1 \in S
    <3>1. ASSUME k + 1 \in 0 .. N PROVE root \in met[k + 1]
      <4>1. k \in 0 .. N /\ k + 1 \in 1 .. N /\ k + 1 - 1 = k
        BY <1>1, <3>1
      <4> QED
        BY <1>6, <2>2, <4>1 DEF Wider
    <3> QED
      BY <3>1
  <2>3. Nat \subseteq S
    <3> HIDE DEF S
    <3> QED
      BY <2>1, <2>2, NatUpwards
  <2> QED
    BY <1>1, <2>3
<1>9. ASSUME NEW T \in SUBSET Nodes, root \in T, Closed(T, to) PROVE met[N] \subseteq T
  <2> DEFINE S == {k \in Nat : k \in 0 .. N => met[k] \subseteq T}
  <2>1. 0 \in S
    BY <1>6, <1>9
  <2>2. ASSUME NEW k \in Nat, k \in S PROVE k + 1 \in S
    <3>1. ASSUME k + 1 \in 0 .. N PROVE met[k + 1] \subseteq T
      <4>1. k \in 0 .. N /\ k + 1 \in 1 .. N /\ k + 1 - 1 = k
        BY <1>1, <3>1
      <4>2. met[k + 1] = Wider(met[k]) /\ met[k] \subseteq T
        BY <1>6, <2>2, <4>1
      <4> QED
        BY <1>9, <4>2 DEF Wider, Closed
    <3> QED
      BY <3>1
  <2>3. Nat \subseteq S
    <3> HIDE DEF S
    <3> QED
      BY <2>1, <2>2, NatUpwards
  <2> QED
    BY <1>1, <2>3
<1>10. met[N] \in SUBSET Nodes
  BY <1>1, <1>6
<1> QED
  BY <1>2, <1>7, <1>8, <1>9, <1>10

-----------------------------------------------------------------------------
\* Forests: rows of children.

\* n is an item of the list s.
In(s, n) == \E i \in 1 .. Len(s) : s[i] = n

\* InsertAt adds an item,
LEMMA InsertedItems ==
  ASSUME NEW s \in Seq(Nodes), IsInjective(s), NEW p \in 1 .. Len(s) + 1, NEW e \in Nodes, ~In(s, e)
  PROVE  /\ IsInjective(InsertAt(s, p, e))
         /\ \A n : In(InsertAt(s, p, e), n) <=> In(s, n) \/ n = e
<1> DEFINE t == InsertAt(s, p, e)
           m == Len(s)
<1>1. /\ t \in Seq(Nodes) /\ Len(t) = m + 1
      /\ \A i \in 1 .. m + 1 : t[i] = IF i < p THEN s[i] ELSE IF i = p THEN e ELSE s[i - 1]
  BY Inserted, SMTT(40)
<1>2. m \in Nat /\ p \in 1 .. m + 1 /\ \A i, j \in 1 .. m : s[i] = s[j] => i = j
  BY DEF IsInjective
<1>3. \A i \in 1 .. m : s[i] # e
  BY DEF In
<1> HIDE DEF t, m
<1>4. ASSUME NEW i \in 1 .. m + 1, NEW j \in 1 .. m + 1, t[i] = t[j] PROVE i = j
  <2>1. \A k \in 1 .. m + 1 : (k < p => k \in 1 .. m) /\ (k > p => k - 1 \in 1 .. m)
    BY <1>2
  <2>2. CASE i < p
    <3>1. t[i] = s[i] /\ i \in 1 .. m
      BY <1>1, <2>1, <2>2
    <3>2. CASE j < p
      <4>1. t[j] = s[j] /\ j \in 1 .. m
        BY <1>1, <2>1, <3>2
      <4> QED
        BY <1>2, <1>4, <3>1, <4>1
    <3>3. CASE j = p
      <4>1. t[j] = e
        BY <1>1, <1>2, <3>3
      <4> QED
        BY <1>3, <1>4, <3>1, <4>1
    <3>4. CASE j > p
      <4>1. t[j] = s[j - 1] /\ j - 1 \in 1 .. m
        BY <1>1, <1>2, <2>1, <3>4
      <4>2. i = j - 1
        BY <1>2, <1>4, <3>1, <4>1
      <4> QED
        BY <1>2, <2>2, <3>4, <4>2
    <3> QED
      BY <1>2, <3>2, <3>3, <3>4
  <2>3. CASE i = p
    <3>1. t[i] = e
      BY <1>1, <1>2, <2>3
    <3>2. CASE j < p
      BY <1>1, <1>3, <1>4, <2>1, <3>1, <3>2
    <3>3. CASE j > p
      <4>1. t[j] = s[j - 1] /\ j - 1 \in 1 .. m
        BY <1>1, <1>2, <2>1, <3>3
      <4> QED
        BY <1>3, <1>4, <3>1, <4>1
    <3> QED
      BY <1>2, <2>3, <3>2, <3>3
  <2>4. CASE i > p
    <3>1. t[i] = s[i - 1] /\ i - 1 \in 1 .. m
      BY <1>1, <1>2, <2>1, <2>4
    <3>2. CASE j < p
      <4>1. t[j] = s[j] /\ j \in 1 .. m
        BY <1>1, <2>1, <3>2
      <4>2. j = i - 1
        BY <1>2, <1>4, <3>1, <4>1
      <4> QED
        BY <1>2, <2>4, <3>2, <4>2
    <3>3. CASE j = p
      <4>1. t[j] = e
        BY <1>1, <1>2, <3>3
      <4> QED
        BY <1>3, <1>4, <3>1, <4>1
    <3>4. CASE j > p
      <4>1. t[j] = s[j - 1] /\ j - 1 \in 1 .. m
        BY <1>1, <1>2, <2>1, <3>4
      <4>2. i - 1 = j - 1
        BY <1>2, <1>4, <3>1, <4>1
      <4> QED
        BY <1>2, <4>2
    <3> QED
      BY <1>2, <3>2, <3>3, <3>4
  <2> QED
    BY <1>2, <2>2, <2>3, <2>4
<1>5. IsInjective(t)
  <2>1. DOMAIN t = 1 .. m + 1
    BY <1>1
  <2> QED
    BY <1>4, <2>1 DEF IsInjective
<1>6. ASSUME NEW n PROVE In(t, n) <=> In(s, n) \/ n = e
  <2>1. ASSUME In(t, n) PROVE In(s, n) \/ n = e
    <3>1. PICK i \in 1 .. m + 1 : t[i] = n
      BY <1>1, <2>1 DEF In
    <3>2. CASE i < p
      <4>1. i \in 1 .. m /\ t[i] = s[i]
        BY <1>1, <1>2, <3>2
      <4> QED
        BY <3>1, <4>1 DEF In, m
    <3>3. CASE i = p
      BY <1>1, <1>2, <3>1, <3>3
    <3>4. CASE i > p
      <4>1. i - 1 \in 1 .. m /\ t[i] = s[i - 1]
        BY <1>1, <1>2, <3>4
      <4> QED
        BY <3>1, <4>1 DEF In, m
    <3> QED
      BY <1>2, <3>2, <3>3, <3>4
  <2>2. ASSUME n = e PROVE In(t, n)
    <3>1. t[p] = e
      BY <1>1, <1>2
    <3> QED
      BY <1>1, <1>2, <2>2, <3>1 DEF In
  <2>3. ASSUME In(s, n) PROVE In(t, n)
    <3>1. PICK i \in 1 .. m : s[i] = n
      BY <2>3 DEF In, m
    <3>2. CASE i < p
      <4>1. i \in 1 .. m + 1 /\ t[i] = s[i]
        BY <1>1, <1>2, <3>2
      <4> QED
        BY <1>1, <3>1, <4>1 DEF In
    <3>3. CASE ~(i < p)
      <4>1. i + 1 \in 1 .. m + 1 /\ ~(i + 1 < p) /\ i + 1 # p /\ i + 1 - 1 = i
        BY <1>2, <3>3
      <4>2. t[i + 1] = s[i]
        BY <1>1, <4>1
      <4> QED
        BY <1>1, <3>1, <4>1, <4>2 DEF In
    <3> QED
      BY <3>2, <3>3
  <2> QED
    BY <2>1, <2>2, <2>3
<1> QED
  BY <1>5, <1>6 DEF t

\* RemoveAt takes one away,
LEMMA RemovedItems ==
  ASSUME NEW s \in Seq(Nodes), IsInjective(s), NEW p \in 1 .. Len(s)
  PROVE  /\ IsInjective(RemoveAt(s, p))
         /\ \A n : In(RemoveAt(s, p), n) <=> In(s, n) /\ n # s[p]
<1> DEFINE t == RemoveAt(s, p)
           m == Len(s)
<1>1. /\ t \in Seq(Nodes) /\ Len(t) = m - 1
      /\ \A i \in 1 .. m - 1 : t[i] = IF i < p THEN s[i] ELSE s[i + 1]
  BY Removed
<1>2. m \in Nat /\ p \in 1 .. m /\ \A i, j \in 1 .. m : s[i] = s[j] => i = j
  BY DEF IsInjective
<1> HIDE DEF t, m
<1>3. ASSUME NEW i \in 1 .. m - 1, NEW j \in 1 .. m - 1, t[i] = t[j] PROVE i = j
  <2> DEFINE At(k) == IF k < p THEN k ELSE k + 1
  <2>1. At(i) \in 1 .. m /\ At(j) \in 1 .. m
    BY <1>2
  <2>2. t[i] = s[At(i)] /\ t[j] = s[At(j)]
    BY <1>1
  <2>3. At(i) = At(j)
    <3> HIDE DEF At
    <3> QED
      BY <1>2, <1>3, <2>1, <2>2
  <2> QED
    BY <1>2, <2>3
<1>4. IsInjective(t)
  <2>1. DOMAIN t = 1 .. m - 1
    BY <1>1
  <2> QED
    BY <1>3, <2>1 DEF IsInjective
<1>5. ASSUME NEW n PROVE In(t, n) <=> In(s, n) /\ n # s[p]
  <2>1. ASSUME In(t, n) PROVE In(s, n) /\ n # s[p]
    <3>1. PICK i \in 1 .. m - 1 : t[i] = n
      BY <1>1, <2>1 DEF In
    <3>2. PICK j \in 1 .. m : s[j] = n /\ j # p
      <4>1. CASE i < p
        <5>1. i \in 1 .. m /\ i # p /\ t[i] = s[i]
          BY <1>1, <1>2, <4>1
        <5> QED
          BY <3>1, <5>1
      <4>2. CASE ~(i < p)
        <5>1. i + 1 \in 1 .. m /\ i + 1 # p /\ t[i] = s[i + 1]
          BY <1>1, <1>2, <4>2
        <5> QED
          BY <3>1, <5>1
      <4> QED
        BY <4>1, <4>2
    <3>3. n # s[p]
      BY <1>2, <3>2
    <3> QED
      BY <3>2, <3>3 DEF In, m
  <2>2. ASSUME In(s, n), n # s[p] PROVE In(t, n)
    <3>1. PICK j \in 1 .. m : s[j] = n
      BY <2>2 DEF In, m
    <3>2. CASE j < p
      <4>1. j \in 1 .. m - 1 /\ t[j] = s[j]
        BY <1>1, <1>2, <3>2
      <4> QED
        BY <1>1, <3>1, <4>1 DEF In
    <3>3. CASE ~(j < p)
      <4>1. j # p
        BY <2>2, <3>1
      <4>2. j - 1 \in 1 .. m - 1 /\ ~(j - 1 < p) /\ j - 1 + 1 = j
        BY <1>2, <3>3, <4>1
      <4>3. t[j - 1] = s[j]
        BY <1>1, <4>2
      <4> QED
        BY <1>1, <3>1, <4>2, <4>3 DEF In
    <3> QED
      BY <3>2, <3>3
  <2> QED
    BY <2>1, <2>2
<1> QED
  BY <1>4, <1>5 DEF t

\* and ReplaceAt does both.
LEMMA ReplacedItems ==
  ASSUME NEW s \in Seq(Nodes), IsInjective(s), NEW p \in 1 .. Len(s), NEW e \in Nodes, ~In(s, e)
  PROVE  /\ ReplaceAt(s, p, e) \in Seq(Nodes) /\ Len(ReplaceAt(s, p, e)) = Len(s)
         /\ \A i \in 1 .. Len(s) : ReplaceAt(s, p, e)[i] = IF i = p THEN e ELSE s[i]
         /\ IsInjective(ReplaceAt(s, p, e))
         /\ \A n : In(ReplaceAt(s, p, e), n) <=> (In(s, n) /\ n # s[p]) \/ n = e
<1> DEFINE t == ReplaceAt(s, p, e)
           m == Len(s)
<1>1. /\ t \in Seq(Nodes) /\ Len(t) = m
      /\ \A i \in 1 .. m : t[i] = IF i = p THEN e ELSE s[i]
  BY DEF ReplaceAt
<1>2. m \in Nat /\ p \in 1 .. m /\ \A i, j \in 1 .. m : s[i] = s[j] => i = j
  BY DEF IsInjective
<1>3. \A i \in 1 .. m : s[i] # e
  BY DEF In
<1> HIDE DEF t, m
<1>4. IsInjective(t)
  <2>1. DOMAIN t = 1 .. m
    BY <1>1
  <2> QED
    BY <1>1, <1>2, <1>3, <2>1 DEF IsInjective
<1>5. ASSUME NEW n PROVE In(t, n) <=> (In(s, n) /\ n # s[p]) \/ n = e
  BY <1>1, <1>2, <1>3 DEF In, m
<1> QED
  BY <1>1, <1>4, <1>5 DEF t, m

-----------------------------------------------------------------------------

\* The children of every item, in order.
Rows == [Nodes -> Seq(Nodes)]

\* n is a child of a.
Kid(K, a, n) == In(K[a], n)

\* n is a child.
HasParent(K, n) == \E a \in Nodes : Kid(K, a, n)

\* No item is the child of two, or twice of one.
Apart(K) == /\ \A a \in Nodes : IsInjective(K[a])
            /\ \A a, b, n \in Nodes : Kid(K, a, n) /\ Kid(K, b, n) => a = b

\* No items are all below each other.
Founded(K) == \A S \in SUBSET Nodes : (\A n \in S : \E a \in S : Kid(K, a, n)) => S = {}

\* Every item has one parent at most, and everything hangs from a root.
Forest(K) == K \in Rows /\ Apart(K) /\ Founded(K)

\* The subtree of n.
Under(K, n) == Met(Nodes, n, [m \in Nodes |-> ToSet(K[m])])

\* ToSet gives the items of a list.
LEMMA InToSet ==
  ASSUME NEW s \in Seq(Nodes)
  PROVE  ToSet(s) \in SUBSET Nodes /\ \A n : n \in ToSet(s) <=> In(s, n)
<1>1. DOMAIN s = 1 .. Len(s) /\ \A i \in 1 .. Len(s) : s[i] \in Nodes
  OBVIOUS
<1> QED
  BY <1>1 DEF ToSet, In

\* Children are items.
LEMMA KidIsNode ==
  ASSUME NEW K \in Rows, NEW a \in Nodes, NEW n, Kid(K, a, n)
  PROVE  n \in Nodes
<1>1. K[a] \in Seq(Nodes)
  BY DEF Rows
<1>2. PICK i \in 1 .. Len(K[a]) : K[a][i] = n
  BY DEF Kid, In
<1> QED
  BY <1>1, <1>2

\* The subtree of n is the least set with n and the children of its members.
LEMMA UnderIsLeast ==
  ASSUME NEW K \in Rows, NEW n \in Nodes
  PROVE  /\ Under(K, n) \in SUBSET Nodes /\ n \in Under(K, n)
         /\ \A m \in Under(K, n), c \in Nodes : Kid(K, m, c) => c \in Under(K, n)
         /\ \A S \in SUBSET Nodes : n \in S /\ (\A m \in S, c \in Nodes : Kid(K, m, c) => c \in S)
                                    => Under(K, n) \subseteq S
<1> DEFINE to == [m \in Nodes |-> ToSet(K[m])]
<1>1. \A m \in Nodes : K[m] \in Seq(Nodes)
  BY DEF Rows
<1>2. \A m \in Nodes : ToSet(K[m]) \in SUBSET Nodes /\ \A c : c \in ToSet(K[m]) <=> Kid(K, m, c)
  BY <1>1, InToSet DEF Kid
<1>3. to \in [Nodes -> SUBSET Nodes]
  BY <1>2
<1>4. Under(K, n) = Met(Nodes, n, to)
  BY DEF Under
<1>5. \A m \in Nodes : to[m] \in SUBSET Nodes /\ \A c : c \in to[m] <=> Kid(K, m, c)
  BY <1>2
<1> HIDE DEF to
<1>6. /\ Met(Nodes, n, to) \in SUBSET Nodes /\ n \in Met(Nodes, n, to)
      /\ Closed(Met(Nodes, n, to), to)
      /\ \A S \in SUBSET Nodes : n \in S /\ Closed(S, to) => Met(Nodes, n, to) \subseteq S
  BY <1>3, MetIsLeast
<1> DEFINE U == Met(Nodes, n, to)
<1> HIDE DEF U
<1>7. /\ U \in SUBSET Nodes /\ n \in U /\ Closed(U, to)
      /\ \A S \in SUBSET Nodes : n \in S /\ Closed(S, to) => U \subseteq S
  BY <1>6 DEF U
<1>8. \A m \in U, c \in Nodes : Kid(K, m, c) => c \in U
  BY <1>5, <1>7 DEF Closed
<1>9. ASSUME NEW S \in SUBSET Nodes, n \in S, \A m \in S, c \in Nodes : Kid(K, m, c) => c \in S
      PROVE  U \subseteq S
  <2>1. Closed(S, to)
    <3>1. ASSUME NEW m \in S, NEW c \in to[m] PROVE c \in S
      BY <1>5, <1>9
    <3> QED
      BY <3>1 DEF Closed
  <2> QED
    BY <1>7, <1>9, <2>1
<1> QED
  BY <1>4, <1>7, <1>8, <1>9 DEF U

\* Every item below the root of a subtree has its parent there.
LEMMA UnderParent ==
  ASSUME NEW K \in Rows, NEW n \in Nodes, NEW m \in Under(K, n), m # n
  PROVE  \E a \in Under(K, n) : Kid(K, a, m)
<1> DEFINE S == Under(K, n) \ {m}
<1> SUFFICES ASSUME \A a \in Under(K, n) : ~Kid(K, a, m) PROVE FALSE
  OBVIOUS
<1>1. n \in S /\ S \in SUBSET Nodes
  BY UnderIsLeast
<1>2. \A b \in S, c \in Nodes : Kid(K, b, c) => c \in S
  BY UnderIsLeast
<1>3. Under(K, n) \subseteq S
  <2> HIDE DEF S
  <2> QED
    BY <1>1, <1>2, UnderIsLeast
<1> QED
  BY <1>3

\* A forest with fewer places is one.
LEMMA FewerKids ==
  ASSUME NEW K, Forest(K), NEW L \in Rows, \A a \in Nodes : IsInjective(L[a]),
         \A a, n \in Nodes : Kid(L, a, n) => Kid(K, a, n)
  PROVE  Forest(L) /\ \A n \in Nodes : Under(L, n) \subseteq Under(K, n)
<1>1. Apart(L)
  BY DEF Forest, Apart
<1>2. Founded(L)
  <2> SUFFICES ASSUME NEW S \in SUBSET Nodes, \A n \in S : \E a \in S : Kid(L, a, n)
               PROVE  S = {}
    BY DEF Founded
  <2>1. \A n \in S : \E a \in S : Kid(K, a, n)
    OBVIOUS
  <2> QED
    BY <2>1 DEF Forest, Founded
<1>3. ASSUME NEW n \in Nodes PROVE Under(L, n) \subseteq Under(K, n)
  <2>1. K \in Rows
    BY DEF Forest
  <2> DEFINE U == Under(K, n)
  <2>2. U \in SUBSET Nodes /\ n \in U /\ \A m \in U, c \in Nodes : Kid(K, m, c) => c \in U
    BY <2>1, UnderIsLeast
  <2> HIDE DEF U
  <2>3. \A m \in U, c \in Nodes : Kid(L, m, c) => c \in U
    BY <2>2
  <2>4. Under(L, n) \subseteq U
    BY <2>2, <2>3, UnderIsLeast
  <2> QED
    BY <2>4 DEF U
<1> QED
  BY <1>1, <1>2, <1>3 DEF Forest

\* One more place, for a root and not below itself, leaves a forest.
LEMMA OneMoreKid ==
  ASSUME NEW K, Forest(K), NEW a \in Nodes, NEW e \in Nodes, ~HasParent(K, e), a \notin Under(K, e),
         NEW L \in Rows, \A b \in Nodes : IsInjective(L[b]),
         \A b, n \in Nodes : Kid(L, b, n) <=> Kid(K, b, n) \/ (b = a /\ n = e)
  PROVE  Forest(L)
<1>1. K \in Rows
  BY DEF Forest
<1>2. Apart(L)
  BY DEF Forest, Apart, HasParent
<1>3. Founded(L)
  <2> SUFFICES ASSUME NEW S \in SUBSET Nodes, \A n \in S : \E b \in S : Kid(L, b, n)
               PROVE  S = {}
    BY DEF Founded
  <2>1. CASE e \notin S
    <3>1. \A n \in S : \E b \in S : Kid(K, b, n)
      BY <2>1
    <3> QED
      BY <3>1 DEF Forest, Founded
  <2>2. CASE e \in S
    <3>1. a \in S
      BY <2>2 DEF HasParent
    <3> DEFINE U == Under(K, e)
               T == S \ U
    <3>2. U \in SUBSET Nodes /\ e \in U /\ \A m \in U, c \in Nodes : Kid(K, m, c) => c \in U
      BY <1>1, UnderIsLeast
    <3>3. a \in T
      BY <3>1
    <3> HIDE DEF U
    <3>4. \A n \in T : \E b \in T : Kid(K, b, n)
      <4>1. ASSUME NEW n \in T PROVE \E b \in T : Kid(K, b, n)
        <5>1. PICK b \in S : Kid(L, b, n)
          OBVIOUS
        <5>2. n # e
          BY <3>2
        <5>3. Kid(K, b, n)
          BY <5>1, <5>2
        <5> QED
          BY <3>2, <5>3
      <4> QED
        BY <4>1
    <3>5. T = {}
      <4>1. T \in SUBSET Nodes
        OBVIOUS
      <4> HIDE DEF T
      <4> QED
        BY <3>4, <4>1 DEF Forest, Founded
    <3> QED
      BY <3>3, <3>5
  <2> QED
    BY <2>1, <2>2
<1> QED
  BY <1>2, <1>3 DEF Forest

-----------------------------------------------------------------------------
\* One row of children, as the fields of the heap show it.

\* The item the i-th of a list has in prev.
Prv(s, i) == IF i = 1 THEN s[Len(s)] ELSE s[i - 1]

\* s are the children of a as the pointers of h lead through them.
Row(h, a, s) ==
  /\ h.child[a] = Nth(s, 1)
  /\ \A i \in 1 .. Len(s) : h.next[s[i]] = Nth(s, i + 1)
  /\ \A i \in 1 .. Len(s) : h.prev[s[i]] = Prv(s, i)

\* The links of a row with e put in at the place p,
LEMMA RowInserted ==
  ASSUME NEW h, NEW g, NEW a, NEW s \in Seq(Nodes), NEW p \in 1 .. Len(s) + 1, NEW e \in Nodes,
         Row(h, a, s),
         g.child[a] = IF p = 1 THEN e ELSE h.child[a],
         g.next[e] = Nth(s, p),
         \A i \in 1 .. Len(s) : g.next[s[i]] = IF i = p - 1 THEN e ELSE h.next[s[i]],
         g.prev[e] = IF Len(s) = 0 THEN e ELSE Prv(s, p),
         \A i \in 1 .. Len(s) :
            g.prev[s[i]] = IF i = p \/ (i = 1 /\ p = Len(s) + 1) THEN e ELSE h.prev[s[i]]
  PROVE  Row(g, a, InsertAt(s, p, e))
<1> DEFINE t == InsertAt(s, p, e)
           m == Len(s)
<1>1. /\ t \in Seq(Nodes) /\ Len(t) = m + 1
      /\ \A i \in 1 .. m + 1 : t[i] = IF i < p THEN s[i] ELSE IF i = p THEN e ELSE s[i - 1]
  BY Inserted
<1>2. m \in Nat /\ p \in 1 .. m + 1
  OBVIOUS
<1>3. \A i \in Int : Nth(s, i) = IF 1 <= i /\ i <= m THEN s[i] ELSE NULL
  BY <1>2 DEF Nth
<1>4. \A i \in Int : Nth(t, i) = IF 1 <= i /\ i <= m + 1 THEN t[i] ELSE NULL
  BY <1>1, <1>2 DEF Nth
<1>5. /\ h.child[a] = Nth(s, 1)
      /\ \A i \in 1 .. m : h.next[s[i]] = Nth(s, i + 1)
      /\ \A i \in 1 .. m : h.prev[s[i]] = IF i = 1 THEN s[m] ELSE s[i - 1]
  BY DEF Row, Prv
<1>6. /\ g.next[e] = Nth(s, p)
      /\ \A i \in 1 .. m : g.next[s[i]] = IF i = p - 1 THEN e ELSE h.next[s[i]]
  OBVIOUS
<1>7. /\ g.prev[e] = IF m = 0 THEN e ELSE IF p = 1 THEN s[m] ELSE s[p - 1]
      /\ \A i \in 1 .. m : g.prev[s[i]] = IF i = p \/ (i = 1 /\ p = m + 1) THEN e ELSE h.prev[s[i]]
  BY DEF Prv
<1>8. g.child[a] = IF p = 1 THEN e ELSE h.child[a]
  OBVIOUS
<1> HIDE DEF t, m
<1>9. g.child[a] = Nth(t, 1)
  BY <1>1, <1>2, <1>3, <1>4, <1>5, <1>8
<1>10. ASSUME NEW i \in 1 .. m + 1 PROVE g.next[t[i]] = Nth(t, i + 1)
  <2>1. CASE i < p
    <3>1. i \in 1 .. m /\ t[i] = s[i] /\ i \in Int
      BY <1>1, <1>2, <2>1
    <3>2. CASE i = p - 1
      <4>1. i + 1 = p /\ Nth(t, i + 1) = e
        BY <1>1, <1>2, <1>4, <3>2
      <4> QED
        BY <1>6, <3>1, <3>2, <4>1
    <3>3. CASE i # p - 1
      <4>1. i + 1 < p /\ i + 1 \in 1 .. m /\ Nth(t, i + 1) = s[i + 1] /\ Nth(s, i + 1) = s[i + 1]
        BY <1>1, <1>2, <1>3, <1>4, <2>1, <3>3
      <4> QED
        BY <1>5, <1>6, <3>1, <3>3, <4>1
    <3> QED
      BY <3>2, <3>3
  <2>2. CASE i = p
    <3>1. t[i] = e
      BY <1>1, <1>2, <2>2
    <3>2. Nth(t, i + 1) = Nth(s, p)
      <4>1. CASE p = m + 1
        BY <1>2, <1>3, <1>4, <2>2, <4>1
      <4>2. CASE p # m + 1
        <5>1. i + 1 \in 1 .. m + 1 /\ ~(i + 1 < p) /\ i + 1 # p /\ i + 1 - 1 = p /\ p <= m
          BY <1>2, <2>2, <4>2
        <5>2. t[i + 1] = s[p]
          BY <1>1, <5>1
        <5> QED
          BY <1>2, <1>3, <1>4, <5>1, <5>2
      <4> QED
        BY <4>1, <4>2
    <3> QED
      BY <1>6, <3>1, <3>2
  <2>3. CASE i > p
    <3>1. i - 1 \in 1 .. m /\ t[i] = s[i - 1] /\ i - 1 # p - 1
      BY <1>1, <1>2, <2>3
    <3>2. g.next[t[i]] = Nth(s, i - 1 + 1)
      BY <1>5, <1>6, <3>1
    <3>3. i - 1 + 1 = i
      BY <1>2
    <3>4. Nth(t, i + 1) = Nth(s, i)
      <4>1. CASE i = m + 1
        BY <1>2, <1>3, <1>4, <4>1
      <4>2. CASE i # m + 1
        <5>1. i + 1 \in 1 .. m + 1 /\ ~(i + 1 < p) /\ i + 1 # p /\ i + 1 - 1 = i /\ i <= m
          BY <1>2, <2>3, <4>2
        <5>2. t[i + 1] = s[i]
          BY <1>1, <5>1
        <5> QED
          BY <1>2, <1>3, <1>4, <5>1, <5>2
      <4> QED
        BY <4>1, <4>2
    <3> QED
      BY <3>2, <3>3, <3>4
  <2> QED
    BY <1>2, <2>1, <2>2, <2>3
<1>11. ASSUME NEW i \in 1 .. m + 1 PROVE g.prev[t[i]] = IF i = 1 THEN t[m + 1] ELSE t[i - 1]
  <2>1. CASE i < p
    <3>1. i \in 1 .. m /\ t[i] = s[i] /\ i # p /\ i \in Int
      BY <1>1, <1>2, <2>1
    <3>2. CASE i = 1
      <4>1. CASE p = m + 1
        <5>1. t[m + 1] = e
          BY <1>1, <1>2, <4>1
        <5> QED
          BY <1>7, <3>1, <3>2, <4>1, <5>1
      <4>2. CASE p # m + 1
        <5>1. t[m + 1] = s[m + 1 - 1] /\ m + 1 - 1 = m
          BY <1>1, <1>2, <4>2
        <5>2. g.prev[s[i]] = h.prev[s[i]]
          BY <1>7, <3>1, <4>2
        <5>3. h.prev[s[i]] = s[m]
          BY <1>5, <3>1, <3>2
        <5> QED
          BY <3>1, <3>2, <5>1, <5>2, <5>3
      <4> QED
        BY <4>1, <4>2
    <3>3. CASE i # 1
      <4>1. t[i - 1] = s[i - 1]
        BY <1>1, <1>2, <2>1, <3>1, <3>3
      <4>2. g.prev[s[i]] = h.prev[s[i]]
        BY <1>7, <3>1, <3>3
      <4> QED
        BY <1>5, <3>1, <3>3, <4>1, <4>2
    <3> QED
      BY <3>2, <3>3
  <2>2. CASE i = p
    <3>1. t[i] = e
      BY <1>1, <1>2, <2>2
    <3>2. CASE m = 0
      <4>1. i = 1 /\ t[m + 1] = e
        BY <1>1, <1>2, <2>2, <3>2
      <4> QED
        BY <1>7, <3>1, <3>2, <4>1
    <3>3. CASE m # 0 /\ p = 1
      <4>1. t[m + 1] = s[m + 1 - 1] /\ m + 1 - 1 = m
        BY <1>1, <1>2, <3>3
      <4> QED
        BY <1>7, <2>2, <3>1, <3>3, <4>1
    <3>4. CASE p # 1
      <4>1. m # 0 /\ t[p - 1] = s[p - 1]
        BY <1>1, <1>2, <3>4
      <4> QED
        BY <1>7, <2>2, <3>1, <3>4, <4>1
    <3> QED
      BY <3>2, <3>3, <3>4
  <2>3. CASE i > p
    <3>1. i - 1 \in 1 .. m /\ t[i] = s[i - 1] /\ i # 1
      BY <1>1, <1>2, <2>3
    <3>2. CASE i - 1 = p
      <4>1. t[i - 1] = e
        BY <1>1, <1>2, <3>2
      <4> QED
        BY <1>7, <3>1, <3>2, <4>1
    <3>3. CASE i - 1 # p
      <4>1. i - 1 > p /\ i - 1 # 1 /\ i - 1 \in 1 .. m + 1 /\ ~(i - 1 < p)
        BY <1>2, <2>3, <3>3
      <4>2. t[i - 1] = s[i - 1 - 1]
        BY <1>1, <3>3, <4>1
      <4>3. h.prev[s[i - 1]] = s[i - 1 - 1]
        BY <1>5, <3>1, <4>1
      <4>4. g.prev[s[i - 1]] = h.prev[s[i - 1]]
        BY <1>7, <3>1, <3>3, <4>1
      <4> QED
        BY <3>1, <4>2, <4>3, <4>4
    <3> QED
      BY <3>2, <3>3
  <2> QED
    BY <1>2, <2>1, <2>2, <2>3
<1>12. Len(t) = m + 1
  BY <1>1
<1>13. Row(g, a, t)
  BY <1>9, <1>10, <1>11, <1>12 DEF Row, Prv
<1> QED
  BY <1>13 DEF t

\* of one without the item at the place p,
LEMMA RowRemoved ==
  ASSUME NEW h, NEW g, NEW a, NEW s \in Seq(Nodes), NEW p \in 1 .. Len(s),
         Row(h, a, s),
         g.child[a] = IF p = 1 THEN Nth(s, 2) ELSE h.child[a],
         \A i \in 1 .. Len(s) : i # p =>
            g.next[s[i]] = IF i = p - 1 THEN Nth(s, p + 1) ELSE h.next[s[i]],
         \A i \in 1 .. Len(s) : i # p =>
            g.prev[s[i]] = IF i = p + 1 \/ (i = 1 /\ p = Len(s)) THEN Prv(s, p) ELSE h.prev[s[i]]
  PROVE  Row(g, a, RemoveAt(s, p))
<1> DEFINE t == RemoveAt(s, p)
           m == Len(s)
<1>1. /\ t \in Seq(Nodes) /\ Len(t) = m - 1
      /\ \A i \in 1 .. m - 1 : t[i] = IF i < p THEN s[i] ELSE s[i + 1]
  BY Removed
<1>2. m \in Nat /\ p \in 1 .. m
  OBVIOUS
<1>3. \A i \in Int : Nth(s, i) = IF 1 <= i /\ i <= m THEN s[i] ELSE NULL
  BY <1>2 DEF Nth
<1>4. \A i \in Int : Nth(t, i) = IF 1 <= i /\ i <= m - 1 THEN t[i] ELSE NULL
  BY <1>1, <1>2 DEF Nth
<1>5. /\ h.child[a] = Nth(s, 1)
      /\ \A i \in 1 .. m : h.next[s[i]] = Nth(s, i + 1)
      /\ \A i \in 1 .. m : h.prev[s[i]] = IF i = 1 THEN s[m] ELSE s[i - 1]
  BY DEF Row, Prv
<1>6. \A i \in 1 .. m : i # p => g.next[s[i]] = IF i = p - 1 THEN Nth(s, p + 1) ELSE h.next[s[i]]
  OBVIOUS
<1>7. \A i \in 1 .. m : i # p => g.prev[s[i]] = IF i = p + 1 \/ (i = 1 /\ p = m)
                                   THEN IF p = 1 THEN s[m] ELSE s[p - 1] ELSE h.prev[s[i]]
  BY DEF Prv
<1>8. g.child[a] = IF p = 1 THEN Nth(s, 2) ELSE h.child[a]
  OBVIOUS
<1> HIDE DEF t, m
<1>9. ASSUME NEW i \in 1 .. m PROVE Nth(t, i) = IF i < p THEN Nth(s, i) ELSE Nth(s, i + 1)
  <2>1. i \in Int /\ i + 1 \in Int
    BY <1>2
  <2>2. CASE i = m
    <3>1. Nth(t, i) = NULL /\ Nth(s, i + 1) = NULL /\ ~(i < p)
      BY <1>2, <1>3, <1>4, <2>1, <2>2
    <3> QED
      BY <3>1
  <2>3. CASE i # m
    <3>1. i \in 1 .. m - 1 /\ i + 1 \in 1 .. m
      BY <1>2, <2>3
    <3>2. Nth(t, i) = t[i] /\ Nth(s, i) = s[i] /\ Nth(s, i + 1) = s[i + 1]
      BY <1>2, <1>3, <1>4, <2>1, <3>1
    <3> QED
      BY <1>1, <3>1, <3>2
  <2> QED
    BY <2>2, <2>3
<1>10. g.child[a] = Nth(t, 1)
  <2>1. 1 \in 1 .. m
    BY <1>2
  <2>2. Nth(t, 1) = IF 1 < p THEN Nth(s, 1) ELSE Nth(s, 2)
    BY <1>9, <2>1
  <2> QED
    BY <1>2, <1>5, <1>8, <2>2
<1>11. ASSUME NEW i \in 1 .. m - 1 PROVE g.next[t[i]] = Nth(t, i + 1)
  <2>1. i + 1 \in 1 .. m
    BY <1>2
  <2>2. CASE i < p
    <3>1. i \in 1 .. m /\ t[i] = s[i] /\ i # p
      BY <1>1, <1>2, <2>2
    <3>2. CASE i = p - 1
      <4>1. i + 1 = p /\ Nth(t, i + 1) = Nth(s, p + 1)
        BY <1>2, <1>9, <2>1, <3>2
      <4> QED
        BY <1>6, <3>1, <3>2, <4>1
    <3>3. CASE i # p - 1
      <4>1. Nth(t, i + 1) = Nth(s, i + 1)
        BY <1>2, <1>9, <2>1, <2>2, <3>3
      <4> QED
        BY <1>5, <1>6, <3>1, <3>3, <4>1
    <3> QED
      BY <3>2, <3>3
  <2>3. CASE ~(i < p)
    <3>1. t[i] = s[i + 1] /\ i + 1 # p /\ i + 1 # p - 1
      BY <1>1, <1>2, <2>3
    <3>2. Nth(t, i + 1) = Nth(s, i + 1 + 1)
      BY <1>2, <1>9, <2>1, <2>3
    <3> QED
      BY <1>5, <1>6, <2>1, <3>1, <3>2
  <2> QED
    BY <2>2, <2>3
<1>12. ASSUME NEW i \in 1 .. m - 1 PROVE g.prev[t[i]] = IF i = 1 THEN t[m - 1] ELSE t[i - 1]
  <2>1. CASE i < p
    <3>1. i \in 1 .. m /\ t[i] = s[i] /\ i # p /\ i # p + 1
      BY <1>1, <1>2, <2>1
    <3>2. CASE i = 1
      <4>1. CASE p = m
        <5>1. t[m - 1] = s[p - 1] /\ p # 1
          BY <1>1, <1>2, <2>1, <4>1
        <5> QED
          BY <1>7, <3>1, <3>2, <4>1, <5>1
      <4>2. CASE p # m
        <5>1. t[m - 1] = s[m - 1 + 1] /\ m - 1 + 1 = m
          BY <1>1, <1>2, <4>2
        <5> QED
          BY <1>5, <1>7, <3>1, <3>2, <4>2, <5>1
      <4> QED
        BY <4>1, <4>2
    <3>3. CASE i # 1
      <4>1. t[i - 1] = s[i - 1]
        BY <1>1, <1>2, <2>1, <3>1, <3>3
      <4> QED
        BY <1>5, <1>7, <3>1, <3>3, <4>1
    <3> QED
      BY <3>2, <3>3
  <2>2. CASE ~(i < p)
    <3>1. t[i] = s[i + 1] /\ i + 1 # p /\ i + 1 \in 1 .. m /\ i + 1 # 1
      BY <1>1, <1>2, <2>2
    <3>2. CASE i = p
      <4>1. g.prev[s[i + 1]] = IF p = 1 THEN s[m] ELSE s[p - 1]
        BY <1>7, <3>1, <3>2
      <4>2. CASE p = 1
        <5>1. t[m - 1] = s[m - 1 + 1] /\ m - 1 + 1 = m
          BY <1>1, <1>2, <3>2, <4>2
        <5> QED
          BY <3>1, <3>2, <4>1, <4>2, <5>1
      <4>3. CASE p # 1
        <5>1. t[p - 1] = s[p - 1]
          BY <1>1, <1>2, <4>3, <3>2
        <5> QED
          BY <3>1, <3>2, <4>1, <4>3, <5>1
      <4> QED
        BY <4>2, <4>3
    <3>3. CASE i # p
      <4>1. i + 1 # p + 1 /\ i # 1 /\ i - 1 \in 1 .. m - 1 /\ ~(i - 1 < p) /\ i - 1 + 1 = i /\ i + 1 - 1 = i
        BY <1>2, <2>2, <3>3
      <4>2. t[i - 1] = s[i]
        BY <1>1, <4>1
      <4>3. g.prev[s[i + 1]] = h.prev[s[i + 1]]
        BY <1>7, <3>1, <4>1
      <4>4. h.prev[s[i + 1]] = s[i]
        BY <1>5, <3>1, <4>1
      <4> QED
        BY <3>1, <4>1, <4>2, <4>3, <4>4
    <3> QED
      BY <3>2, <3>3
  <2> QED
    BY <2>1, <2>2
<1>13. Len(t) = m - 1
  BY <1>1
<1>14. Row(g, a, t)
  BY <1>10, <1>11, <1>12, <1>13 DEF Row, Prv
<1> QED
  BY <1>14 DEF t

\* and of one with e in the place p.
LEMMA RowReplaced ==
  ASSUME NEW h, NEW g, NEW a, NEW s \in Seq(Nodes), IsInjective(s), NEW p \in 1 .. Len(s),
         NEW e \in Nodes, ~In(s, e), Row(h, a, s),
         g.child[a] = IF p = 1 THEN e ELSE h.child[a],
         g.next[e] = Nth(s, p + 1),
         \A i \in 1 .. Len(s) : i # p => g.next[s[i]] = IF i = p - 1 THEN e ELSE h.next[s[i]],
         g.prev[e] = IF Len(s) = 1 THEN e ELSE Prv(s, p),
         \A i \in 1 .. Len(s) : i # p =>
            g.prev[s[i]] = IF i = p + 1 \/ (i = 1 /\ p = Len(s)) THEN e ELSE h.prev[s[i]]
  PROVE  Row(g, a, ReplaceAt(s, p, e))
<1> DEFINE t == ReplaceAt(s, p, e)
           m == Len(s)
<1>1. /\ t \in Seq(Nodes) /\ Len(t) = m
      /\ \A i \in 1 .. m : t[i] = IF i = p THEN e ELSE s[i]
  BY ReplacedItems
<1>2. m \in Nat /\ p \in 1 .. m
  OBVIOUS
<1>3. \A i \in Int : Nth(s, i) = IF 1 <= i /\ i <= m THEN s[i] ELSE NULL
  BY <1>2 DEF Nth
<1>4. \A i \in Int : Nth(t, i) = IF 1 <= i /\ i <= m THEN t[i] ELSE NULL
  BY <1>1, <1>2 DEF Nth
<1>5. /\ h.child[a] = Nth(s, 1)
      /\ \A i \in 1 .. m : h.next[s[i]] = Nth(s, i + 1)
      /\ \A i \in 1 .. m : h.prev[s[i]] = IF i = 1 THEN s[m] ELSE s[i - 1]
  BY DEF Row, Prv
<1>6. /\ g.next[e] = Nth(s, p + 1)
      /\ \A i \in 1 .. m : i # p => g.next[s[i]] = IF i = p - 1 THEN e ELSE h.next[s[i]]
  OBVIOUS
<1>7. /\ g.prev[e] = IF m = 1 THEN e ELSE IF p = 1 THEN s[m] ELSE s[p - 1]
      /\ \A i \in 1 .. m : i # p =>
           g.prev[s[i]] = IF i = p + 1 \/ (i = 1 /\ p = m) THEN e ELSE h.prev[s[i]]
  BY DEF Prv
<1>8. g.child[a] = IF p = 1 THEN e ELSE h.child[a]
  OBVIOUS
<1> HIDE DEF t, m
<1>9. ASSUME NEW i \in Int PROVE Nth(t, i) = IF i = p THEN e ELSE Nth(s, i)
  BY <1>1, <1>2, <1>3, <1>4
<1>10. g.child[a] = Nth(t, 1)
  BY <1>2, <1>5, <1>8, <1>9
<1>11. ASSUME NEW i \in 1 .. m PROVE g.next[t[i]] = Nth(t, i + 1)
  <2>1. i \in Int /\ i + 1 \in Int /\ (i + 1 = p <=> i = p - 1)
    BY <1>2
  <2>2. Nth(t, i + 1) = IF i + 1 = p THEN e ELSE Nth(s, i + 1)
    BY <1>9, <2>1
  <2>3. CASE i = p
    BY <1>1, <1>2, <1>6, <2>1, <2>2, <2>3
  <2>4. CASE i # p
    BY <1>1, <1>5, <1>6, <2>1, <2>2, <2>4
  <2> QED
    BY <2>3, <2>4
<1>12. ASSUME NEW i \in 1 .. m PROVE g.prev[t[i]] = IF i = 1 THEN t[m] ELSE t[i - 1]
  <2>1. t[m] = (IF m = p THEN e ELSE s[m]) /\ (i # 1 => t[i - 1] = IF i - 1 = p THEN e ELSE s[i - 1])
    BY <1>1, <1>2
  <2>2. CASE i = p
    <3>1. t[i] = e
      BY <1>1, <2>2
    <3>2. CASE m = 1
      BY <1>2, <1>7, <2>1, <2>2, <3>1, <3>2
    <3>3. CASE m # 1 /\ p = 1
      BY <1>7, <2>1, <2>2, <3>1, <3>3
    <3>4. CASE p # 1
      <4>1. m # 1 /\ p - 1 # p
        BY <1>2, <3>4
      <4> QED
        BY <1>7, <2>1, <2>2, <3>1, <3>4, <4>1
    <3> QED
      BY <3>2, <3>3, <3>4
  <2>3. CASE i # p
    <3>1. t[i] = s[i] /\ (i - 1 = p <=> i = p + 1)
      BY <1>1, <1>2, <2>3
    <3>2. i = 1 => i # p + 1
      BY <1>2
    <3> QED
      BY <1>5, <1>7, <2>1, <2>3, <3>1, <3>2
  <2> QED
    BY <2>2, <2>3
<1>13. Len(t) = m
  BY <1>1
<1>14. Row(g, a, t)
  BY <1>10, <1>11, <1>12, <1>13 DEF Row, Prv
<1> QED
  BY <1>14 DEF t

-----------------------------------------------------------------------------
\* What the operations on links do to the fields.

\* h and g differ in links alone.
Alike(h, g) ==
  /\ g.string = h.string /\ g.isRef = h.isRef /\ g.isConst = h.isConst
  /\ g.copied = h.copied /\ g.alive = h.alive /\ g.wild = h.wild

\* g is h with the links child, next and prev.
Links(h, g, child, next, prev) ==
  g \in Heaps /\ Alike(h, g) /\ g.child = child /\ g.next = next /\ g.prev = prev

\* The types of the fields.
LEMMA HeapFields ==
  ASSUME NEW h \in Heaps
  PROVE  /\ h.child \in [Nodes -> Ptr] /\ h.next \in [Nodes -> Ptr] /\ h.prev \in [Nodes -> Ptr]
         /\ h.string \in [Nodes -> Keys \cup {NULL}]
         /\ h.isRef \in SUBSET Nodes /\ h.isConst \in SUBSET Nodes
         /\ h.copied \in SUBSET Nodes /\ h.alive \in SUBSET Nodes /\ h.wild \in BOOLEAN
BY DEF Heaps

\* The records the operations build, one for each set of pointers they write:
\* child,
LEMMA SetChild ==
  ASSUME NEW h \in Heaps, NEW n \in Nodes, NEW x \in Ptr
  PROVE  Links(h, [h EXCEPT !.child[n] = x], [h.child EXCEPT ![n] = x], h.next, h.prev)
BY DEF Heaps, Links, Alike

\* next,
LEMMA SetNext ==
  ASSUME NEW h \in Heaps, NEW n \in Nodes, NEW x \in Ptr
  PROVE  Links(h, [h EXCEPT !.next[n] = x], h.child, [h.next EXCEPT ![n] = x], h.prev)
BY DEF Heaps, Links, Alike

\* prev,
LEMMA SetPrev ==
  ASSUME NEW h \in Heaps, NEW n \in Nodes, NEW x \in Ptr
  PROVE  Links(h, [h EXCEPT !.prev[n] = x], h.child, h.next, [h.prev EXCEPT ![n] = x])
BY DEF Heaps, Links, Alike

\* next and prev,
LEMMA SetNextPrev ==
  ASSUME NEW h \in Heaps, NEW n \in Nodes, NEW x \in Ptr, NEW m \in Nodes, NEW y \in Ptr
  PROVE  Links(h, [h EXCEPT !.next[n] = x, !.prev[m] = y],
               h.child, [h.next EXCEPT ![n] = x], [h.prev EXCEPT ![m] = y])
BY DEF Heaps, Links, Alike

\* all three,
LEMMA SetAll ==
  ASSUME NEW h \in Heaps, NEW l \in Nodes, NEW z \in Ptr,
         NEW n \in Nodes, NEW x \in Ptr, NEW m \in Nodes, NEW y \in Ptr
  PROVE  Links(h, [h EXCEPT !.child[l] = z, !.prev[m] = y, !.next[n] = x],
               [h.child EXCEPT ![l] = z], [h.next EXCEPT ![n] = x], [h.prev EXCEPT ![m] = y])
BY DEF Heaps, Links, Alike

\* next and two of prev.
LEMMA SetNextPrevPrev ==
  ASSUME NEW h \in Heaps, NEW n \in Nodes, NEW x \in Ptr, NEW m \in Nodes, NEW y \in Ptr,
         NEW k \in Nodes, NEW w \in Ptr
  PROVE  Links(h, [h EXCEPT !.next[n] = x, !.prev[m] = y, !.prev[k] = w],
               h.child, [h.next EXCEPT ![n] = x], [[h.prev EXCEPT ![m] = y] EXCEPT ![k] = w])
BY DEF Heaps, Links, Alike

\* g is h without e in the list of a, whose first is c; q and r are before and
\* after e.
LinkedPast(h, g, a, e, c, q, r) ==
  Links(h, g, IF e = c THEN [h.child EXCEPT ![a] = r] ELSE h.child,
        [(IF e = c THEN h.next ELSE [h.next EXCEPT ![q] = r]) EXCEPT ![e] = NULL],
        [(IF r # NULL THEN [h.prev EXCEPT ![r] = q]
          ELSE IF e = c THEN h.prev ELSE [h.prev EXCEPT ![c] = q]) EXCEPT ![e] = NULL])

\* What cJSON_DetachItemViaPointer writes.
LEMMA DetachFields ==
  ASSUME NEW h \in Heaps, NEW a \in Nodes, NEW e \in Nodes, NEW q \in Nodes, NEW r \in Ptr,
         NEW c \in Nodes, c = h.child[a], q = h.prev[e], r = h.next[e], r # e, e # c => q # e
  PROVE  LinkedPast(h, cJSON_DetachItemViaPointer(h, a, e), a, e, c, q, r)
<1> DEFINE first == e = h.child[a]
           h1 == IF first THEN h ELSE [h EXCEPT !.next[h.prev[e]] = h.next[e]]
           h2 == IF h1.next[e] = NULL THEN h1 ELSE [h1 EXCEPT !.prev[h1.next[e]] = h1.prev[e]]
           h3 == IF first THEN [h2 EXCEPT !.child[a] = h2.next[e]]
                 ELSE IF h2.next[e] = NULL THEN [h2 EXCEPT !.prev[h2.child[a]] = h2.prev[e]]
                 ELSE h2
           h4 == [h3 EXCEPT !.prev[e] = NULL, !.next[e] = NULL]
           X == IF e = c THEN h.next ELSE [h.next EXCEPT ![q] = r]
           Y == IF r # NULL THEN [h.prev EXCEPT ![r] = q]
                ELSE IF e = c THEN h.prev ELSE [h.prev EXCEPT ![c] = q]
           C == IF e = c THEN [h.child EXCEPT ![a] = r] ELSE h.child
<1>1. NULL \notin Nodes /\ NULL \in Ptr /\ Nodes \subseteq Ptr /\ (r # NULL => r \in Nodes)
  BY TreeAssumption DEF Ptr
<1>2. h.child \in [Nodes -> Ptr] /\ h.next \in [Nodes -> Ptr] /\ h.prev \in [Nodes -> Ptr]
  BY HeapFields
<1>3. Links(h, h1, h.child, X, h.prev)
  <2>1. CASE e = c
    BY <2>1 DEF Links, Alike
  <2>2. CASE e # c
    BY <2>2, SetNext
  <2> QED
    BY <2>1, <2>2
<1> HIDE DEF h1
<1>4. h1 \in Heaps /\ h1.next = X /\ h1.prev = h.prev /\ h1.child = h.child /\ Alike(h, h1)
  BY <1>3 DEF Links
<1>5. h1.next[e] = r /\ h1.prev[e] = q
  BY <1>4, <1>2
<1> HIDE DEF X
<1>6. Links(h1, h2, h.child, X, IF r # NULL THEN [h.prev EXCEPT ![r] = q] ELSE h.prev)
  <2>1. CASE r = NULL
    BY <1>4, <1>5, <2>1 DEF Links, Alike
  <2>2. CASE r # NULL
    <3>1. h2 = [h1 EXCEPT !.prev[r] = q]
      BY <1>5, <2>2
    <3>2. r \in Nodes /\ q \in Ptr
      BY <1>1, <2>2
    <3>3. Links(h1, [h1 EXCEPT !.prev[r] = q], h1.child, h1.next, [h1.prev EXCEPT ![r] = q])
      BY <1>4, <3>2, SetPrev
    <3> QED
      BY <1>4, <2>2, <3>1, <3>3
  <2> QED
    BY <2>1, <2>2
<1> HIDE DEF h2
<1>7. /\ h2 \in Heaps /\ h2.next = X /\ h2.child = h.child /\ Alike(h1, h2)
      /\ h2.prev = (IF r # NULL THEN [h.prev EXCEPT ![r] = q] ELSE h.prev)
  BY <1>6 DEF Links
<1>8. h2.next[e] = r /\ (r = NULL => h2.prev[e] = q)
  BY <1>4, <1>5, <1>7
<1>9. Links(h2, h3, C, X, Y)
  <2>1. CASE e = c
    <3>1. h3 = [h2 EXCEPT !.child[a] = r]
      BY <1>8, <2>1
    <3>2. Links(h2, [h2 EXCEPT !.child[a] = r], [h2.child EXCEPT ![a] = r], h2.next, h2.prev)
      BY <1>7, SetChild
    <3> QED
      BY <1>7, <2>1, <3>1, <3>2
  <2>2. CASE e # c /\ r = NULL
    <3>1. h3 = [h2 EXCEPT !.prev[c] = q]
      BY <1>7, <1>8, <2>2
    <3>2. Links(h2, [h2 EXCEPT !.prev[c] = q], h2.child, h2.next, [h2.prev EXCEPT ![c] = q])
      BY <1>1, <1>7, SetPrev
    <3> QED
      BY <1>7, <2>2, <3>1, <3>2
  <2>3. CASE e # c /\ r # NULL
    <3>1. h3 = h2
      BY <1>8, <2>3
    <3> QED
      BY <1>7, <2>3, <3>1 DEF Links, Alike
  <2> QED
    BY <2>1, <2>2, <2>3
<1> HIDE DEF h3, C, Y
<1>10. h3 \in Heaps /\ h3.child = C /\ h3.next = X /\ h3.prev = Y /\ Alike(h2, h3)
  BY <1>9 DEF Links
<1>11. Links(h3, h4, C, [X EXCEPT ![e] = NULL], [Y EXCEPT ![e] = NULL])
  <2>1. Links(h3, [h3 EXCEPT !.next[e] = NULL, !.prev[e] = NULL], h3.child,
              [h3.next EXCEPT ![e] = NULL], [h3.prev EXCEPT ![e] = NULL])
    BY <1>1, <1>10, SetNextPrev
  <2>2. h4 = [h3 EXCEPT !.next[e] = NULL, !.prev[e] = NULL]
    BY <1>10 DEF Heaps
  <2> QED
    BY <1>10, <2>1, <2>2
<1>12. cJSON_DetachItemViaPointer(h, a, e) = h4
  BY DEF cJSON_DetachItemViaPointer, h1, h2, h3
<1> HIDE DEF h4
<1>13. Links(h, h4, C, [X EXCEPT ![e] = NULL], [Y EXCEPT ![e] = NULL])
  BY <1>4, <1>7, <1>10, <1>11 DEF Links, Alike
<1> QED
  BY <1>12, <1>13 DEF C, X, Y, LinkedPast

\* What add_item_to_array writes into a parent without children,
LEMMA AddToEmptyFields ==
  ASSUME NEW h \in Heaps, NEW a \in Nodes, NEW e \in Nodes, a # e, h.child[a] = NULL
  PROVE  Links(h, add_item_to_array(h, a, e),
               [h.child EXCEPT ![a] = e], [h.next EXCEPT ![e] = NULL], [h.prev EXCEPT ![e] = e])
<1>1. e # NULL /\ NULL \in Ptr /\ e \in Ptr
  BY TreeAssumption DEF Ptr
<1>2. add_item_to_array(h, a, e) = [h EXCEPT !.child[a] = e, !.prev[e] = e, !.next[e] = NULL]
  BY <1>1 DEF add_item_to_array
<1> QED
  <2>1. Links(h, [h EXCEPT !.child[a] = e, !.prev[e] = e, !.next[e] = NULL],
               [h.child EXCEPT ![a] = e], [h.next EXCEPT ![e] = NULL], [h.prev EXCEPT ![e] = e])
    BY <1>1, SetAll
  <2> QED
    BY <1>2, <2>1

\* and into one with a last child.
LEMMA AppendFields ==
  ASSUME NEW h \in Heaps, NEW a \in Nodes, NEW e \in Nodes, a # e,
         NEW c \in Nodes, c = h.child[a], NEW l \in Nodes, l = h.prev[c]
  PROVE  Links(h, add_item_to_array(h, a, e), h.child,
               [h.next EXCEPT ![l] = e], [[h.prev EXCEPT ![e] = l] EXCEPT ![c] = e])
<1>1. e # NULL /\ c # NULL /\ l # NULL /\ e \in Ptr /\ l \in Ptr
  BY TreeAssumption DEF Ptr
<1> DEFINE g == suffix_object(h, l, e)
<1>2. Links(h, g, h.child, [h.next EXCEPT ![l] = e], [h.prev EXCEPT ![e] = l])
  BY <1>1, SetNextPrev DEF suffix_object
<1>3. add_item_to_array(h, a, e) = [g EXCEPT !.prev[c] = e]
  BY <1>1 DEF add_item_to_array
<1> HIDE DEF g
<1>4. /\ g \in Heaps /\ g.child = h.child /\ g.next = [h.next EXCEPT ![l] = e]
      /\ g.prev = [h.prev EXCEPT ![e] = l] /\ Alike(h, g)
  BY <1>2 DEF Links
<1>5. Links(g, [g EXCEPT !.prev[c] = e], g.child, g.next, [g.prev EXCEPT ![c] = e])
  BY <1>1, <1>4, SetPrev
<1> QED
  BY <1>3, <1>4, <1>5 DEF Links, Alike

\* What cJSON_InsertItemInArray writes before a child.
LEMMA InsertFields ==
  ASSUME NEW h \in Heaps, NEW a \in Nodes, NEW which, NEW e \in Nodes,
         NEW d \in Nodes, d = get_array_item(h, a, which), d # e, NEW q \in Nodes, q = h.prev[d]
  PROVE  Links(h, cJSON_InsertItemInArray(h, a, which, e),
               IF d = h.child[a] THEN [h.child EXCEPT ![a] = e] ELSE h.child,
               IF d = h.child[a] THEN [h.next EXCEPT ![e] = d]
                                 ELSE [[h.next EXCEPT ![e] = d] EXCEPT ![q] = e],
               [[h.prev EXCEPT ![e] = q] EXCEPT ![d] = e])
<1>1. d # NULL /\ d \in Ptr /\ e \in Ptr /\ q \in Ptr
  BY TreeAssumption DEF Ptr
<1>2. h.child \in [Nodes -> Ptr] /\ h.next \in [Nodes -> Ptr] /\ h.prev \in [Nodes -> Ptr]
  BY HeapFields
<1> DEFINE g == [h EXCEPT !.next[e] = d, !.prev[e] = h.prev[d], !.prev[d] = e]
<1>3. Links(h, g, h.child, [h.next EXCEPT ![e] = d], [[h.prev EXCEPT ![e] = q] EXCEPT ![d] = e])
  BY <1>1, SetNextPrevPrev
<1>4. cJSON_InsertItemInArray(h, a, which, e) =
        IF d = h.child[a] THEN [g EXCEPT !.child[a] = e] ELSE [g EXCEPT !.next[g.prev[e]] = e]
  BY <1>1 DEF cJSON_InsertItemInArray
<1> HIDE DEF g
<1>5. /\ g \in Heaps /\ g.child = h.child /\ g.next = [h.next EXCEPT ![e] = d]
      /\ g.prev = [[h.prev EXCEPT ![e] = q] EXCEPT ![d] = e] /\ Alike(h, g)
  BY <1>3 DEF Links
<1>6. g.prev[e] = q
  BY <1>5, <1>2
<1>7. CASE d = h.child[a]
  <2>1. Links(g, [g EXCEPT !.child[a] = e], [g.child EXCEPT ![a] = e], g.next, g.prev)
    BY <1>1, <1>5, SetChild
  <2> QED
    BY <1>4, <1>5, <1>7, <2>1 DEF Links, Alike
<1>8. CASE d # h.child[a]
  <2>1. Links(g, [g EXCEPT !.next[q] = e], g.child, [g.next EXCEPT ![q] = e], g.prev)
    BY <1>1, <1>5, SetNext
  <2> QED
    BY <1>4, <1>5, <1>6, <1>8, <2>1 DEF Links, Alike
<1> QED
  BY <1>7, <1>8

\* The heap in which cJSON_ReplaceItemViaPointer deletes item.
Swapped(h, parent, item, replacement) ==
  LET h1 == [h EXCEPT !.next[replacement] = h.next[item],
                      !.prev[replacement] = h.prev[item]]
      h2 == IF h1.next[replacement] = NULL THEN h1
            ELSE [h1 EXCEPT !.prev[h1.next[replacement]] = replacement]
      first == h2.child[parent] = item
      alone == h2.prev[item] = item
      h3 == IF first
            THEN [h2 EXCEPT !.prev[replacement] = IF alone THEN replacement ELSE @,
                            !.child[parent] = replacement]
            ELSE [h2 EXCEPT !.next[h2.prev[replacement]] = replacement,
                            !.prev[h2.child[parent]] =
                               IF h2.next[replacement] = NULL THEN replacement ELSE @]
  IN  [h3 EXCEPT !.next[item] = NULL, !.prev[item] = NULL]

\* g is h with e for o in the list of a, whose first is c; q and r are before
\* and after o.
LinkedInstead(h, g, a, o, e, c, q, r) ==
  Links(h, g, IF o = c THEN [h.child EXCEPT ![a] = e] ELSE h.child,
        [(IF o = c THEN [h.next EXCEPT ![e] = r]
          ELSE [[h.next EXCEPT ![e] = r] EXCEPT ![q] = e]) EXCEPT ![o] = NULL],
        [(IF r # NULL THEN [[h.prev EXCEPT ![e] = IF o = c /\ q = o THEN e ELSE q] EXCEPT ![r] = e]
          ELSE IF o = c THEN [h.prev EXCEPT ![e] = IF q = o THEN e ELSE q]
          ELSE [[h.prev EXCEPT ![e] = q] EXCEPT ![c] = e]) EXCEPT ![o] = NULL])

\* What cJSON_ReplaceItemViaPointer writes.
LEMMA SwappedFields ==
  ASSUME NEW h \in Heaps, NEW a \in Nodes, NEW o \in Nodes, NEW e \in Nodes, o # e,
         NEW c \in Nodes, c = h.child[a], c # e,
         NEW q \in Nodes, q = h.prev[o], q # e, NEW r \in Ptr, r = h.next[o], r # e, r # o
  PROVE  LinkedInstead(h, Swapped(h, a, o, e), a, o, e, c, q, r)
<1> DEFINE h1 == [h EXCEPT !.next[e] = h.next[o], !.prev[e] = h.prev[o]]
           h2 == IF h1.next[e] = NULL THEN h1 ELSE [h1 EXCEPT !.prev[h1.next[e]] = e]
           first == h2.child[a] = o
           alone == h2.prev[o] = o
           h3 == IF first
                 THEN [h2 EXCEPT !.prev[e] = IF alone THEN e ELSE @, !.child[a] = e]
                 ELSE [h2 EXCEPT !.next[h2.prev[e]] = e,
                                 !.prev[h2.child[a]] = IF h2.next[e] = NULL THEN e ELSE @]
           h4 == [h3 EXCEPT !.next[o] = NULL, !.prev[o] = NULL]
           C == IF o = c THEN [h.child EXCEPT ![a] = e] ELSE h.child
           X1 == [h.next EXCEPT ![e] = r]
           X == IF o = c THEN X1 ELSE [X1 EXCEPT ![q] = e]
           Y1 == [h.prev EXCEPT ![e] = q]
           Y2 == IF r # NULL THEN [Y1 EXCEPT ![r] = e] ELSE Y1
           Y == IF r # NULL THEN [[h.prev EXCEPT ![e] = IF o = c /\ q = o THEN e ELSE q] EXCEPT ![r] = e]
                ELSE IF o = c THEN [h.prev EXCEPT ![e] = IF q = o THEN e ELSE q]
                ELSE [[h.prev EXCEPT ![e] = q] EXCEPT ![c] = e]
<1>1. NULL \notin Nodes /\ NULL \in Ptr /\ e \in Ptr /\ q \in Ptr /\ o \in Ptr /\ (r # NULL => r \in Nodes)
  BY TreeAssumption DEF Ptr
<1>2. h.child \in [Nodes -> Ptr] /\ h.next \in [Nodes -> Ptr] /\ h.prev \in [Nodes -> Ptr]
  BY HeapFields
<1>3. Links(h, h1, h.child, X1, Y1)
  BY <1>1, SetNextPrev
<1> HIDE DEF h1
<1>4. h1 \in Heaps /\ h1.next = X1 /\ h1.prev = Y1 /\ h1.child = h.child /\ Alike(h, h1)
  BY <1>3 DEF Links
<1>5. h1.next[e] = r
  BY <1>4, <1>2
<1>6. /\ X1 \in [Nodes -> Ptr] /\ Y1 \in [Nodes -> Ptr] /\ Y1[e] = q /\ Y1[o] = q
      /\ Y2 \in [Nodes -> Ptr] /\ Y2[e] = q /\ Y2[o] = q /\ X1[e] = r
  BY <1>1, <1>2
<1> HIDE DEF X1, Y1
<1>7. Links(h1, h2, h.child, X1, Y2)
  <2>1. CASE r = NULL
    BY <1>4, <1>5, <2>1 DEF Links, Alike
  <2>2. CASE r # NULL
    <3>1. h2 = [h1 EXCEPT !.prev[r] = e] /\ r \in Nodes
      BY <1>1, <1>5, <2>2
    <3>2. Links(h1, [h1 EXCEPT !.prev[r] = e], h1.child, h1.next, [h1.prev EXCEPT ![r] = e])
      BY <1>1, <1>4, <3>1, SetPrev
    <3> QED
      BY <1>4, <2>2, <3>1, <3>2
  <2> QED
    BY <2>1, <2>2
<1> HIDE DEF h2
<1>8. h2 \in Heaps /\ h2.next = X1 /\ h2.child = h.child /\ h2.prev = Y2 /\ Alike(h1, h2)
  BY <1>7 DEF Links
<1>9. (first <=> o = c) /\ (alone <=> q = o) /\ h2.prev[e] = q /\ h2.next[e] = r /\ h2.child[a] = c
  BY <1>6, <1>8
<1>10. Links(h2, h3, C, X, Y)
  <2>1. CASE o = c
    <3> DEFINE y == IF q = o THEN e ELSE q
    <3>1. h3 = [h2 EXCEPT !.prev[e] = y, !.child[a] = e]
      BY <1>9, <2>1
    <3>2. Links(h2, [h2 EXCEPT !.prev[e] = y, !.child[a] = e],
                [h2.child EXCEPT ![a] = e], h2.next, [h2.prev EXCEPT ![e] = y])
      BY <1>1, <1>8 DEF Heaps, Links, Alike
    <3>3. [Y2 EXCEPT ![e] = y] = Y
      BY <1>2, <2>1 DEF Y1
    <3>4. C = [h2.child EXCEPT ![a] = e] /\ X = h2.next
      BY <1>8, <2>1
    <3> HIDE DEF y, Y, Y2, C, X
    <3> QED
      BY <1>8, <3>1, <3>2, <3>3, <3>4
  <2>2. CASE o # c
    <3> DEFINE w == IF r = NULL THEN e ELSE h2.prev[c]
    <3>1. h3 = [h2 EXCEPT !.next[q] = e, !.prev[c] = w]
      BY <1>9, <2>2
    <3>2. w \in Ptr
      BY <1>1, <1>6, <1>8
    <3>3. Links(h2, [h2 EXCEPT !.next[q] = e, !.prev[c] = w],
                h2.child, [h2.next EXCEPT ![q] = e], [h2.prev EXCEPT ![c] = w])
      BY <1>1, <1>8, <3>2, SetNextPrev
    <3>4. [Y2 EXCEPT ![c] = w] = Y
      BY <1>6, <1>8, <2>2 DEF Y1
    <3>5. C = h2.child /\ X = [h2.next EXCEPT ![q] = e]
      BY <1>8, <2>2
    <3> HIDE DEF w, Y, Y2, C, X
    <3> QED
      BY <1>8, <3>1, <3>3, <3>4, <3>5
  <2> QED
    BY <2>1, <2>2
<1> HIDE DEF h3, C, X, Y
<1>11. h3 \in Heaps /\ h3.child = C /\ h3.next = X /\ h3.prev = Y /\ Alike(h2, h3)
  BY <1>10 DEF Links
<1>12. Links(h3, h4, C, [X EXCEPT ![o] = NULL], [Y EXCEPT ![o] = NULL])
  <2>1. Links(h3, h4, h3.child, [h3.next EXCEPT ![o] = NULL], [h3.prev EXCEPT ![o] = NULL])
    BY <1>1, <1>11, SetNextPrev
  <2> HIDE DEF h4
  <2> QED
    BY <1>11, <2>1
<1>13. Swapped(h, a, o, e) = h4
  BY DEF Swapped, h1, h2, h3
<1> HIDE DEF h4
<1>14. Links(h, h4, C, [X EXCEPT ![o] = NULL], [Y EXCEPT ![o] = NULL])
  BY <1>4, <1>8, <1>11, <1>12 DEF Links, Alike
<1> QED
  BY <1>13, <1>14 DEF C, X, Y, X1, LinkedInstead

-----------------------------------------------------------------------------
\* Heaps that show forests.

\* The rows are those of the allocated items that are no references.
Laid(h, K) ==
  \A a \in Nodes : IF a \in h.alive \ h.isRef THEN Row(h, a, K[a]) ELSE K[a] = << >>

\* Roots are held, but for references that have no name, and stand alone.
Rooted(h, K, H) ==
  /\ H \subseteq h.alive
  /\ \A n \in Nodes : HasParent(K, n) => n \in h.alive /\ n \notin H
  /\ \A n \in h.alive : ~HasParent(K, n) =>
        h.next[n] = NULL /\ (n \in H \/ (n \in h.isRef /\ h.string[n] = NULL))

\* What is free points nowhere.
Cleared(h) ==
  \A n \in Nodes \ h.alive : /\ h.child[n] = NULL /\ h.next[n] = NULL /\ h.string[n] = NULL
                             /\ n \notin h.isRef /\ n \notin h.isConst

\* A name is heap memory exactly when its flag does not say it is a constant.
Named(h) ==
  /\ ~h.wild
  /\ \A n \in Nodes : n \in h.copied <=> n \in h.alive /\ h.string[n] # NULL /\ n \notin h.isConst

\* h shows the forest K, the roots H are in the caller's hands.
Shows(h, K, H) ==
  h \in Heaps /\ Forest(K) /\ Laid(h, K) /\ Rooted(h, K, H) /\ Cleared(h) /\ Named(h)

\* The row without items.
LEMMA EmptyRow ==
  /\ << >> \in Seq(Nodes) /\ Len(<< >>) = 0 /\ IsInjective(<< >>)
  /\ \A n : ~In(<< >>, n)
  /\ \A i \in Int : Nth(<< >>, i) = NULL
BY DEF IsInjective, In, Nth

\* The row of every item of a heap that shows the forest.
LEMMA RowOf ==
  ASSUME NEW h, NEW K, NEW H, Shows(h, K, H), NEW a \in Nodes
  PROVE  /\ K[a] \in Seq(Nodes) /\ IsInjective(K[a])
         /\ a \in h.alive \ h.isRef => Row(h, a, K[a])
         /\ a \notin h.alive \ h.isRef => K[a] = << >>
BY DEF Shows, Forest, Apart, Rows, Laid

\* The children read from the heap are the row.
LEMMA KidsAre ==
  ASSUME NEW h, NEW K, NEW H, Shows(h, K, H), NEW a \in Nodes, a \notin h.isRef
  PROVE  Kids(h, a) = K[a]
<1>1. CASE a \in h.alive
  <2>1. /\ K[a] \in Seq(Nodes) /\ IsInjective(K[a]) /\ h.child[a] = Nth(K[a], 1)
        /\ \A i \in 1 .. Len(K[a]) : h.next[K[a][i]] = Nth(K[a], i + 1)
    BY <1>1, RowOf DEF Row
  <2> QED
    BY <2>1, FromIs DEF Kids
<1>2. CASE a \notin h.alive
  <2>1. K[a] = << >>
    BY <1>2, RowOf
  <2>2. h.child[a] = NULL
    BY <1>2 DEF Shows, Cleared
  <2> QED
    BY <2>1, <2>2 DEF Kids, From
<1> QED
  BY <1>1, <1>2

\* A parent is no reference, and a child is no root.
LEMMA ParentOwns ==
  ASSUME NEW h, NEW K, NEW H, Shows(h, K, H), NEW a \in Nodes, NEW n \in Nodes, Kid(K, a, n)
  PROVE  /\ a \in h.alive /\ a \notin h.isRef /\ n \in h.alive /\ n \notin H
         /\ \A b \in Nodes : Kid(K, b, n) => b = a
<1>1. a \in h.alive \ h.isRef
  <2>1. K[a] # << >>
    BY EmptyRow DEF Kid
  <2> QED
    BY <2>1, RowOf
<1> QED
  BY <1>1 DEF Shows, Forest, Apart, Rooted, HasParent

\* What is below an allocated item is allocated.
LEMMA UnderAlive ==
  ASSUME NEW h, NEW K, NEW H, Shows(h, K, H), NEW n \in h.alive
  PROVE  n \in Nodes /\ Under(K, n) \subseteq h.alive
<1>1. h.alive \in SUBSET Nodes /\ K \in Rows
  BY HeapFields DEF Shows, Forest
<1>2. \A m \in h.alive, c \in Nodes : Kid(K, m, c) => c \in h.alive
  BY <1>1, ParentOwns
<1> QED
  BY <1>1, <1>2, UnderIsLeast

\* Another root is below no root.
LEMMA RootApart ==
  ASSUME NEW K \in Rows, NEW n \in Nodes, NEW m \in Nodes, ~HasParent(K, m), m # n
  PROVE  m \notin Under(K, n)
<1>1. ASSUME m \in Under(K, n) PROVE FALSE
  <2>1. \E a \in Under(K, n) : Kid(K, a, m)
    BY <1>1, UnderParent
  <2> QED
    BY <2>1, UnderIsLeast DEF HasParent
<1> QED
  BY <1>1

\* What the caller holds is a root.
LEMMA HeldIsRoot ==
  ASSUME NEW h, NEW K, NEW H, Shows(h, K, H), NEW e \in H
  PROVE  e \in Nodes /\ e \in h.alive /\ ~HasParent(K, e) /\ h.next[e] = NULL
<1>1. h.alive \in SUBSET Nodes
  BY HeapFields DEF Shows
<1> QED
  BY <1>1 DEF Shows, Rooted

\* h and g differ in the links of a, its children and e.
Elsewhere(K, h, g, a, e) ==
  /\ \A b \in Nodes : b # a => g.child[b] = h.child[b]
  /\ \A n \in Nodes : n # e /\ ~Kid(K, a, n) => g.next[n] = h.next[n] /\ g.prev[n] = h.prev[n]

\* New links for the children of a and for e.
LEMMA Relinked ==
  ASSUME NEW h, NEW K, NEW H, Shows(h, K, H), NEW g \in Heaps, Alike(h, g),
         NEW a \in Nodes, a \in h.alive, a \notin h.isRef, NEW e \in Nodes, e \in h.alive,
         ~HasParent(K, e) \/ Kid(K, a, e),
         NEW s \in Seq(Nodes), Row(g, a, s), NEW L, L = [K EXCEPT ![a] = s], Forest(L),
         Elsewhere(K, h, g, a, e), NEW G, Rooted(g, L, G)
  PROVE  Shows(g, L, G)
<1>1. K \in Rows /\ L[a] = s /\ \A b \in Nodes : b # a => L[b] = K[b]
  BY DEF Shows, Forest, Rows
<1>2. Laid(g, L)
  <2>1. ASSUME NEW b \in Nodes, b # a, b \in g.alive, b \notin g.isRef PROVE Row(g, b, K[b])
    <3>1. Row(h, b, K[b]) /\ K[b] \in Seq(Nodes)
      BY <2>1, RowOf DEF Alike
    <3>2. ASSUME NEW i \in 1 .. Len(K[b])
          PROVE  g.next[K[b][i]] = h.next[K[b][i]] /\ g.prev[K[b][i]] = h.prev[K[b][i]]
      <4>1. K[b][i] \in Nodes /\ Kid(K, b, K[b][i])
        BY <3>1 DEF Kid, In
      <4>2. ~Kid(K, a, K[b][i])
        BY <2>1, <4>1, ParentOwns
      <4>3. K[b][i] # e
        BY <4>1, <4>2 DEF HasParent
      <4> QED
        BY <4>1, <4>2, <4>3 DEF Elsewhere
    <3>3. g.child[b] = h.child[b]
      BY <2>1 DEF Elsewhere
    <3> QED
      BY <3>1, <3>2, <3>3 DEF Row
  <2>2. ASSUME NEW b \in Nodes, ~(b \in g.alive /\ b \notin g.isRef) PROVE L[b] = << >>
    <3>1. b # a /\ b \notin h.alive \ h.isRef
      BY <2>2 DEF Alike
    <3> QED
      BY <1>1, <3>1, RowOf
  <2>3. ASSUME NEW b \in Nodes
        PROVE  IF b \in g.alive \ g.isRef THEN Row(g, b, L[b]) ELSE L[b] = << >>
    BY <1>1, <2>1, <2>2
  <2> QED
    BY <2>3 DEF Laid
<1>3. Cleared(g)
  <2>1. \A n \in Nodes \ h.alive : ~HasParent(K, n) /\ n # e /\ n # a
    BY DEF Shows, Rooted
  <2>2. \A n \in Nodes \ h.alive : ~Kid(K, a, n)
    BY <2>1 DEF HasParent
  <2>3. ASSUME NEW n \in Nodes \ g.alive
        PROVE  /\ g.child[n] = NULL /\ g.next[n] = NULL /\ g.string[n] = NULL
               /\ n \notin g.isRef /\ n \notin g.isConst
    <3>1. n \in Nodes \ h.alive
      BY DEF Alike
    <3>2. g.child[n] = h.child[n] /\ g.next[n] = h.next[n]
      BY <2>1, <2>2, <3>1 DEF Elsewhere
    <3> QED
      BY <3>1, <3>2 DEF Shows, Cleared, Alike
  <2> QED
    BY <2>3 DEF Cleared
<1>4. Named(g)
  BY DEF Shows, Named, Alike
<1> QED
  BY <1>2, <1>3, <1>4 DEF Shows

\* g is h with e at the place p of the row s of a.
PutIn(h, g, a, s, p, e) ==
  /\ g.child[a] = IF p = 1 THEN e ELSE h.child[a]
  /\ g.next[e] = Nth(s, p)
  /\ \A i \in 1 .. Len(s) : g.next[s[i]] = IF i = p - 1 THEN e ELSE h.next[s[i]]
  /\ g.prev[e] = IF Len(s) = 0 THEN e ELSE Prv(s, p)
  /\ \A i \in 1 .. Len(s) :
       g.prev[s[i]] = IF i = p \/ (i = 1 /\ p = Len(s) + 1) THEN e ELSE h.prev[s[i]]

\* g is h without the item at the place p of the row s of a.
TakenOut(h, g, a, s, p) ==
  /\ g.child[a] = IF p = 1 THEN Nth(s, 2) ELSE h.child[a]
  /\ g.next[s[p]] = NULL
  /\ \A i \in 1 .. Len(s) : i # p =>
       g.next[s[i]] = IF i = p - 1 THEN Nth(s, p + 1) ELSE h.next[s[i]]
  /\ \A i \in 1 .. Len(s) : i # p =>
       g.prev[s[i]] = IF i = p + 1 \/ (i = 1 /\ p = Len(s)) THEN Prv(s, p) ELSE h.prev[s[i]]

\* g is h with e in the place p of the row s of a.
Exchanged(h, g, a, s, p, e) ==
  /\ g.child[a] = IF p = 1 THEN e ELSE h.child[a]
  /\ g.next[e] = Nth(s, p + 1)
  /\ g.next[s[p]] = NULL
  /\ \A i \in 1 .. Len(s) : i # p => g.next[s[i]] = IF i = p - 1 THEN e ELSE h.next[s[i]]
  /\ g.prev[e] = IF Len(s) = 1 THEN e ELSE Prv(s, p)
  /\ \A i \in 1 .. Len(s) : i # p =>
       g.prev[s[i]] = IF i = p + 1 \/ (i = 1 /\ p = Len(s)) THEN e ELSE h.prev[s[i]]

\* e becomes the p-th child of a.
LEMMA ShowsInserted ==
  ASSUME NEW h, NEW K, NEW H, Shows(h, K, H), NEW a \in Nodes, a \in h.alive, a \notin h.isRef,
         NEW e \in H, a \notin Under(K, e), NEW s \in Seq(Nodes), s = K[a],
         NEW p \in 1 .. Len(s) + 1, NEW g \in Heaps, Alike(h, g),
         Elsewhere(K, h, g, a, e), PutIn(h, g, a, s, p, e)
  PROVE  Shows(g, [K EXCEPT ![a] = InsertAt(s, p, e)], H \ {e})
<1>1. s \in Seq(Nodes) /\ s = K[a]
  OBVIOUS
<1>2. IsInjective(s) /\ Row(h, a, s)
  BY <1>1, RowOf
<1>3. e \in Nodes /\ e \in h.alive /\ ~HasParent(K, e)
  BY HeldIsRoot
<1>4. ~In(s, e)
  BY <1>1, <1>3 DEF HasParent, Kid
<1>5. p \in 1 .. Len(s) + 1
  BY <1>1
<1>6. Row(g, a, InsertAt(s, p, e))
  BY <1>1, <1>2, <1>3, <1>5, RowInserted DEF PutIn
<1>7. PICK t \in Seq(Nodes) : t = InsertAt(s, p, e)
  BY <1>3, <1>5, Inserted
<1>8. IsInjective(t) /\ \A n : In(t, n) <=> In(s, n) \/ n = e
  BY <1>2, <1>3, <1>4, <1>5, <1>7, InsertedItems
<1>9. PICK L : L = [K EXCEPT ![a] = t]
  OBVIOUS
<1>10. K \in Rows /\ Forest(K) /\ \A b \in Nodes : IsInjective(K[b])
  BY DEF Shows, Forest, Apart
<1>11. L \in Rows /\ L[a] = t /\ \A b \in Nodes : b # a => L[b] = K[b]
  BY <1>9, <1>10 DEF Rows
<1>12. \A b, n \in Nodes : Kid(L, b, n) <=> Kid(K, b, n) \/ (b = a /\ n = e)
  BY <1>1, <1>8, <1>11 DEF Kid
<1>13. \A b \in Nodes : IsInjective(L[b])
  BY <1>8, <1>10, <1>11
<1>14. Forest(L)
  BY <1>3, <1>10, <1>11, <1>12, <1>13, OneMoreKid
<1>15. \A n \in Nodes : HasParent(L, n) <=> HasParent(K, n) \/ n = e
  BY <1>12 DEF HasParent
<1>16. Rooted(g, L, H \ {e})
  <2>1. h.alive \in SUBSET Nodes
    BY HeapFields DEF Shows
  <2>2. H \ {e} \subseteq g.alive
    BY DEF Shows, Rooted, Alike
  <2>3. ASSUME NEW n \in Nodes, HasParent(L, n) PROVE n \in g.alive /\ n \notin H \ {e}
    BY <1>3, <1>15, <2>3 DEF Shows, Rooted, Alike
  <2>4. ASSUME NEW n \in g.alive, ~HasParent(L, n)
        PROVE  g.next[n] = NULL /\ (n \in H \ {e} \/ (n \in g.isRef /\ g.string[n] = NULL))
    <3>1. n \in Nodes /\ n \in h.alive /\ n # e /\ ~HasParent(K, n)
      BY <1>15, <2>1, <2>4 DEF Alike
    <3>2. g.next[n] = h.next[n]
      BY <3>1 DEF HasParent, Elsewhere
    <3> QED
      BY <3>1, <3>2 DEF Shows, Rooted, Alike
  <2> QED
    BY <2>2, <2>3, <2>4 DEF Rooted
<1>17. Row(g, a, t)
  BY <1>6, <1>7
<1>18. Shows(g, L, H \ {e})
  <2>1. PICK G : G = H \ {e}
    OBVIOUS
  <2>2. Elsewhere(K, h, g, a, e)
    OBVIOUS
  <2>3. Rooted(g, L, G)
    BY <1>16, <2>1
  <2>4. ~HasParent(K, e) \/ Kid(K, a, e)
    BY <1>3, <1>9, <1>14, <1>16, <1>17
  <2>5. e \in Nodes /\ e \in h.alive
    BY <1>3, <1>9, <1>14, <1>16, <1>17
  <2>6. Shows(g, L, G)
    BY ONLY <1>9, <1>14, <1>17, <2>2, <2>3, <2>4, <2>5, Relinked,
       Shows(h, K, H), g \in Heaps, Alike(h, g), a \in Nodes, a \in h.alive, a \notin h.isRef,
       t \in Seq(Nodes)
  <2> QED
    BY <2>1, <2>6
<1> QED
  BY <1>1, <1>7, <1>9, <1>18

\* The p-th child of a becomes a root.
LEMMA ShowsDetached ==
  ASSUME NEW h, NEW K, NEW H, Shows(h, K, H), NEW a \in Nodes, a \in h.alive, a \notin h.isRef,
         NEW s \in Seq(Nodes), s = K[a], NEW p \in 1 .. Len(s), NEW e, e = s[p],
         NEW g \in Heaps, Alike(h, g), Elsewhere(K, h, g, a, e), TakenOut(h, g, a, s, p)
  PROVE  Shows(g, [K EXCEPT ![a] = RemoveAt(s, p)], H \cup {e})
<1>1. s \in Seq(Nodes) /\ s = K[a]
  OBVIOUS
<1>2. IsInjective(s) /\ Row(h, a, s)
  BY <1>1, RowOf
<1>3. p \in 1 .. Len(s) /\ e = s[p] /\ e \in Nodes /\ In(s, e)
  BY <1>1 DEF In
<1>4. Kid(K, a, e) /\ e \in h.alive
  <2>1. Kid(K, a, e)
    BY <1>1, <1>3 DEF Kid
  <2> QED
    BY <1>3, <2>1, ParentOwns
<1>5. Row(g, a, RemoveAt(s, p))
  BY <1>1, <1>2, <1>3, RowRemoved DEF TakenOut
<1>6. PICK t \in Seq(Nodes) : t = RemoveAt(s, p)
  BY <1>3, Removed
<1>7. IsInjective(t) /\ \A n : In(t, n) <=> In(s, n) /\ n # e
  BY <1>2, <1>3, <1>6, RemovedItems
<1>8. PICK L : L = [K EXCEPT ![a] = t]
  OBVIOUS
<1>9. K \in Rows /\ Forest(K) /\ \A b \in Nodes : IsInjective(K[b])
  BY DEF Shows, Forest, Apart
<1>10. L \in Rows /\ L[a] = t /\ \A b \in Nodes : b # a => L[b] = K[b]
  BY <1>8, <1>9 DEF Rows
<1>11. \A b \in Nodes : Kid(K, b, e) => b = a
  BY <1>3, <1>4, ParentOwns
<1>12. \A b, n \in Nodes : Kid(L, b, n) <=> Kid(K, b, n) /\ n # e
  BY <1>1, <1>7, <1>10, <1>11 DEF Kid
<1>13. \A b \in Nodes : IsInjective(L[b])
  BY <1>7, <1>9, <1>10
<1>14. Forest(L)
  BY <1>9, <1>10, <1>12, <1>13, FewerKids
<1>15. \A n \in Nodes : HasParent(L, n) <=> HasParent(K, n) /\ n # e
  BY <1>12 DEF HasParent
<1>16. Rooted(g, L, H \cup {e})
  <2>1. h.alive \in SUBSET Nodes
    BY HeapFields DEF Shows
  <2>2. H \cup {e} \subseteq g.alive
    BY <1>4 DEF Shows, Rooted, Alike
  <2>3. ASSUME NEW n \in Nodes, HasParent(L, n) PROVE n \in g.alive /\ n \notin H \cup {e}
    BY <1>15, <2>3 DEF Shows, Rooted, Alike
  <2>4. ASSUME NEW n \in g.alive, ~HasParent(L, n)
        PROVE  g.next[n] = NULL /\ (n \in H \cup {e} \/ (n \in g.isRef /\ g.string[n] = NULL))
    <3>1. CASE n = e
      BY <3>1 DEF TakenOut
    <3>2. CASE n # e
      <4>1. n \in Nodes /\ n \in h.alive /\ ~HasParent(K, n)
        BY <1>15, <2>1, <2>4, <3>2 DEF Alike
      <4>2. g.next[n] = h.next[n]
        BY <3>2, <4>1 DEF HasParent, Elsewhere
      <4> QED
        BY <4>1, <4>2 DEF Shows, Rooted, Alike
    <3> QED
      BY <3>1, <3>2
  <2> QED
    BY <2>2, <2>3, <2>4 DEF Rooted
<1>17. Row(g, a, t)
  BY <1>5, <1>6
<1>18. Shows(g, L, H \cup {e})
  <2>1. PICK G : G = H \cup {e}
    OBVIOUS
  <2>2. Elsewhere(K, h, g, a, e)
    OBVIOUS
  <2>3. Rooted(g, L, G)
    BY <1>16, <2>1
  <2>4. ~HasParent(K, e) \/ Kid(K, a, e)
    BY <1>3, <1>4, <1>8, <1>14, <1>16, <1>17
  <2>5. e \in Nodes /\ e \in h.alive
    BY <1>3, <1>4, <1>8, <1>14, <1>16, <1>17
  <2>6. Shows(g, L, G)
    BY ONLY <1>8, <1>14, <1>17, <2>2, <2>3, <2>4, <2>5, Relinked,
       Shows(h, K, H), g \in Heaps, Alike(h, g), a \in Nodes, a \in h.alive, a \notin h.isRef,
       t \in Seq(Nodes)
  <2> QED
    BY <2>1, <2>6
<1> QED
  BY <1>1, <1>6, <1>8, <1>18

\* The root e takes the place of the p-th child o of a, which becomes a root.
LEMMA ShowsReplaced ==
  ASSUME NEW h, NEW K, NEW H, Shows(h, K, H), NEW a \in Nodes, a \in h.alive, a \notin h.isRef,
         NEW s \in Seq(Nodes), s = K[a], NEW p \in 1 .. Len(s), NEW o, o = s[p],
         NEW e \in H, a \notin Under(K, e), NEW g \in Heaps, Alike(h, g),
         Elsewhere(K, h, g, a, e), Exchanged(h, g, a, s, p, e)
  PROVE  Shows(g, [K EXCEPT ![a] = ReplaceAt(s, p, e)], (H \ {e}) \cup {o})
<1>1. s \in Seq(Nodes) /\ s = K[a]
  OBVIOUS
<1>2. IsInjective(s) /\ Row(h, a, s)
  BY <1>1, RowOf
<1>3. e \in Nodes /\ e \in h.alive /\ ~HasParent(K, e)
  BY HeldIsRoot
<1>4. p \in 1 .. Len(s) /\ o = s[p] /\ o \in Nodes /\ In(s, o)
  BY <1>1 DEF In
<1>5. Kid(K, a, o) /\ o \in h.alive /\ o # e /\ ~In(s, e)
  <2>1. Kid(K, a, o) /\ ~In(s, e)
    BY <1>1, <1>4, <1>3 DEF Kid, HasParent
  <2> QED
    BY <1>4, <2>1, ParentOwns
<1>6. Row(g, a, ReplaceAt(s, p, e))
  BY <1>1, <1>2, <1>4, <1>5, <1>3, RowReplaced DEF Exchanged
<1>7. PICK t \in Seq(Nodes) : t = ReplaceAt(s, p, e)
  BY <1>2, <1>4, <1>5, <1>3, ReplacedItems
<1>8. IsInjective(t) /\ \A n : In(t, n) <=> (In(s, n) /\ n # o) \/ n = e
  BY <1>2, <1>4, <1>5, <1>3, <1>7, ReplacedItems
<1>9. PICK L : L = [K EXCEPT ![a] = t]
  OBVIOUS
<1>10. K \in Rows /\ Forest(K) /\ \A b \in Nodes : IsInjective(K[b])
  BY DEF Shows, Forest, Apart
<1>11. L \in Rows /\ L[a] = t /\ \A b \in Nodes : b # a => L[b] = K[b]
  BY <1>9, <1>10 DEF Rows
<1>12. \A b \in Nodes : Kid(K, b, o) => b = a
  BY <1>4, <1>5, ParentOwns
<1>13. \A b, n \in Nodes : Kid(L, b, n) <=> (Kid(K, b, n) /\ n # o) \/ (b = a /\ n = e)
  BY <1>1, <1>5, <1>8, <1>11, <1>12 DEF Kid
<1>14. \A b \in Nodes : IsInjective(L[b])
  BY <1>8, <1>10, <1>11
<1>15. Forest(L)
  <2>1. PICK r \in Seq(Nodes) : r = RemoveAt(s, p)
    BY <1>4, Removed
  <2>2. IsInjective(r) /\ \A n : In(r, n) <=> In(s, n) /\ n # o
    BY <1>2, <1>4, <2>1, RemovedItems
  <2>3. PICK M : M = [K EXCEPT ![a] = r]
    OBVIOUS
  <2>4. M \in Rows /\ M[a] = r /\ \A b \in Nodes : b # a => M[b] = K[b]
    BY <1>10, <2>3 DEF Rows
  <2>5. \A b, n \in Nodes : Kid(M, b, n) <=> Kid(K, b, n) /\ n # o
    BY <1>1, <1>12, <2>2, <2>4 DEF Kid
  <2>6. \A b \in Nodes : IsInjective(M[b])
    BY <1>10, <2>2, <2>4
  <2>7. Forest(M) /\ \A n \in Nodes : Under(M, n) \subseteq Under(K, n)
    BY <1>10, <2>4, <2>5, <2>6, FewerKids
  <2>8. \A b, n \in Nodes : Kid(L, b, n) <=> Kid(M, b, n) \/ (b = a /\ n = e)
    BY <1>13, <2>5
  <2>9. ~HasParent(M, e) /\ a \notin Under(M, e)
    BY <1>3, <2>5, <2>7 DEF HasParent
  <2> QED
    BY <1>11, <1>14, <1>3, <2>7, <2>8, <2>9, OneMoreKid
<1>16. \A n \in Nodes : HasParent(L, n) <=> (HasParent(K, n) /\ n # o) \/ n = e
  BY <1>13 DEF HasParent
<1>17. Rooted(g, L, (H \ {e}) \cup {o})
  <2>1. h.alive \in SUBSET Nodes
    BY HeapFields DEF Shows
  <2>2. (H \ {e}) \cup {o} \subseteq g.alive
    BY <1>5 DEF Shows, Rooted, Alike
  <2>3. ASSUME NEW n \in Nodes, HasParent(L, n) PROVE n \in g.alive /\ n \notin (H \ {e}) \cup {o}
    BY <1>5, <1>16, <1>3, <2>3 DEF Shows, Rooted, Alike
  <2>4. ASSUME NEW n \in g.alive, ~HasParent(L, n)
        PROVE  g.next[n] = NULL /\ (n \in (H \ {e}) \cup {o} \/ (n \in g.isRef /\ g.string[n] = NULL))
    <3>1. CASE n = o
      BY <3>1 DEF Exchanged
    <3>2. CASE n # o
      <4>1. n \in Nodes /\ n \in h.alive /\ ~HasParent(K, n) /\ n # e
        BY <1>16, <2>1, <2>4, <3>2 DEF Alike
      <4>2. g.next[n] = h.next[n]
        BY <3>2, <4>1 DEF HasParent, Elsewhere
      <4> QED
        BY <4>1, <4>2 DEF Shows, Rooted, Alike
    <3> QED
      BY <3>1, <3>2
  <2> QED
    BY <2>2, <2>3, <2>4 DEF Rooted
<1>18. Row(g, a, t)
  BY <1>6, <1>7
<1>19. Shows(g, L, (H \ {e}) \cup {o})
  <2>1. PICK G : G = (H \ {e}) \cup {o}
    OBVIOUS
  <2>2. Elsewhere(K, h, g, a, e)
    OBVIOUS
  <2>3. Rooted(g, L, G)
    BY <1>17, <2>1
  <2>4. ~HasParent(K, e) \/ Kid(K, a, e)
    BY <1>9, <1>15, <1>17, <1>18, <1>3
  <2>5. e \in Nodes /\ e \in h.alive
    BY <1>9, <1>15, <1>17, <1>18, <1>3
  <2>6. Shows(g, L, G)
    BY ONLY <1>9, <1>15, <1>18, <2>2, <2>3, <2>4, <2>5, Relinked,
       Shows(h, K, H), g \in Heaps, Alike(h, g), a \in Nodes, a \in h.alive, a \notin h.isRef,
       t \in Seq(Nodes)
  <2> QED
    BY <2>1, <2>6
<1> QED
  BY <1>1, <1>7, <1>9, <1>19

-----------------------------------------------------------------------------
\* The operations on lists.

\* The pointers of a row that the operations read.
LEMMA RowPointers ==
  ASSUME NEW h, NEW K, NEW H, Shows(h, K, H), NEW a \in Nodes, a \in h.alive, a \notin h.isRef,
         NEW s \in Seq(Nodes), s = K[a]
  PROVE  /\ IsInjective(s) /\ \A i, j \in 1 .. Len(s) : s[i] = s[j] => i = j
         /\ \A i \in 1 .. Len(s) : s[i] \in Nodes /\ s[i] # NULL /\ Kid(K, a, s[i])
         /\ s = << >> => h.child[a] = NULL
         /\ s # << >> => Len(s) >= 1 /\ h.child[a] = s[1]
         /\ \A i \in 1 .. Len(s) : /\ h.next[s[i]] = Nth(s, i + 1) /\ h.prev[s[i]] = Prv(s, i)
                                   /\ Prv(s, i) \in Nodes
<1>1. IsInjective(s) /\ Row(h, a, s)
  BY RowOf
<1>2. \A i, j \in 1 .. Len(s) : s[i] = s[j] => i = j
  BY <1>1 DEF IsInjective
<1>3. \A i \in 1 .. Len(s) : s[i] \in Nodes /\ s[i] # NULL /\ Kid(K, a, s[i])
  BY TreeAssumption DEF Kid, In
<1>4. /\ s = << >> => h.child[a] = NULL
      /\ s # << >> => Len(s) >= 1 /\ h.child[a] = s[1]
  <2>1. s = << >> => Nth(s, 1) = NULL
    BY DEF Nth
  <2>2. s # << >> => Len(s) >= 1 /\ Nth(s, 1) = s[1]
    BY DEF Nth
  <2> QED
    BY <1>1, <2>1, <2>2 DEF Row
<1>5. \A i \in 1 .. Len(s) : /\ h.next[s[i]] = Nth(s, i + 1) /\ h.prev[s[i]] = Prv(s, i)
                             /\ Prv(s, i) \in Nodes
  BY <1>1 DEF Row, Prv
<1> QED
  BY <1>1, <1>2, <1>3, <1>4, <1>5

\* add_item_to_array puts a root at the end of the children of a.
LEMMA ShowsAppended ==
  ASSUME NEW h, NEW K, NEW H, Shows(h, K, H), NEW a \in Nodes, a \in h.alive, a \notin h.isRef,
         NEW e \in H, a \notin Under(K, e)
  PROVE  Shows(add_item_to_array(h, a, e),
               [K EXCEPT ![a] = InsertAt(K[a], Len(K[a]) + 1, e)], H \ {e})
<1>1. PICK s \in Seq(Nodes) : s = K[a]
  BY RowOf
<1>2. /\ IsInjective(s) /\ \A i, j \in 1 .. Len(s) : s[i] = s[j] => i = j
      /\ \A i \in 1 .. Len(s) : s[i] \in Nodes /\ s[i] # NULL /\ Kid(K, a, s[i])
      /\ s = << >> => h.child[a] = NULL
      /\ s # << >> => Len(s) >= 1 /\ h.child[a] = s[1]
      /\ \A i \in 1 .. Len(s) : /\ h.next[s[i]] = Nth(s, i + 1) /\ h.prev[s[i]] = Prv(s, i)
                                /\ Prv(s, i) \in Nodes
  BY <1>1, RowPointers
<1>3. e \in Nodes /\ ~HasParent(K, e) /\ h.next[e] = NULL
  BY HeldIsRoot
<1>4. a # e /\ h \in Heaps /\ \A i \in 1 .. Len(s) : s[i] # e
  <2>1. K \in Rows
    BY DEF Shows, Forest
  <2> QED
    BY <1>2, <1>3, <2>1, UnderIsLeast DEF Shows, HasParent
<1>5. h.child \in [Nodes -> Ptr] /\ h.next \in [Nodes -> Ptr] /\ h.prev \in [Nodes -> Ptr]
  BY <1>4, HeapFields
<1>6. PICK g : g = add_item_to_array(h, a, e)
  OBVIOUS
<1>7. PICK p : p = Len(s) + 1
  OBVIOUS
<1>8. ASSUME s = << >>
      PROVE  g \in Heaps /\ Alike(h, g) /\ Elsewhere(K, h, g, a, e) /\ PutIn(h, g, a, s, p, e)
  <2>1. Links(h, g, [h.child EXCEPT ![a] = e], [h.next EXCEPT ![e] = NULL], [h.prev EXCEPT ![e] = e])
    BY <1>2, <1>3, <1>4, <1>6, <1>8, AddToEmptyFields
  <2>2. Len(s) = 0 /\ p = 1 /\ Nth(s, p) = NULL
    BY <1>7, <1>8 DEF Nth
  <2>3. g \in Heaps /\ Alike(h, g) /\ Elsewhere(K, h, g, a, e)
    BY <1>3, <1>5, <2>1 DEF Links, Elsewhere
  <2>4. g.child[a] = e /\ g.next[e] = NULL /\ g.prev[e] = e
    BY <1>3, <1>5, <2>1 DEF Links
  <2>5. PutIn(h, g, a, s, p, e)
    BY <2>2, <2>4 DEF PutIn
  <2> QED
    BY <2>3, <2>5
<1>9. ASSUME s # << >>
      PROVE  g \in Heaps /\ Alike(h, g) /\ Elsewhere(K, h, g, a, e) /\ PutIn(h, g, a, s, p, e)
  <2>1. PICK c \in Nodes : c = s[1] /\ c = h.child[a]
    BY <1>2, <1>9
  <2>2. PICK m \in 1 .. Len(s) : m = Len(s) /\ 1 \in 1 .. Len(s)
    BY <1>2, <1>9
  <2>3. PICK l \in Nodes : l = s[m] /\ l = h.prev[c]
    BY <1>2, <2>1, <2>2 DEF Prv
  <2>4. Links(h, g, h.child, [h.next EXCEPT ![l] = e], [[h.prev EXCEPT ![e] = l] EXCEPT ![c] = e])
    BY <1>3, <1>4, <1>6, <2>1, <2>3, AppendFields
  <2>5. p = m + 1 /\ p # 1 /\ Nth(s, p) = NULL /\ Prv(s, p) = s[m] /\ Len(s) # 0 /\ p - 1 = m
    BY <1>7, <2>2 DEF Nth, Prv
  <2>6. Kid(K, a, l) /\ Kid(K, a, c) /\ c # e /\ l # e
    BY <1>2, <1>4, <2>1, <2>2, <2>3
  <2>7. \A i \in 1 .. Len(s) : (s[i] = l <=> i = m) /\ (s[i] = c <=> i = 1) /\ s[i] # e /\ s[i] \in Nodes /\ i # p
    <3>1. ASSUME NEW i \in 1 .. Len(s)
          PROVE  (s[i] = l <=> i = m) /\ (s[i] = c <=> i = 1) /\ s[i] # e /\ s[i] \in Nodes
      <4>1. s[i] = l <=> i = m
        BY <1>2, <2>3
      <4>2. s[i] = c <=> i = 1
        BY <1>2, <2>1, <2>2
      <4> QED
        BY <1>2, <1>4, <4>1, <4>2
    <3>2. \A i \in 1 .. Len(s) : i # p
      BY <1>7
    <3> QED
      BY <3>1, <3>2
  <2>8. /\ g \in Heaps /\ Alike(h, g) /\ g.child = h.child /\ g.next = [h.next EXCEPT ![l] = e]
        /\ g.prev = [[h.prev EXCEPT ![e] = l] EXCEPT ![c] = e]
    BY <2>4 DEF Links
  <2>9. \A n \in Nodes : n # e /\ ~Kid(K, a, n) => g.next[n] = h.next[n] /\ g.prev[n] = h.prev[n]
    BY <1>5, <2>6, <2>8
  <2>10. g.next[e] = NULL /\ g.prev[e] = s[m]
    BY <1>5, <1>3, <2>3, <2>6, <2>8
  <2>11. \A i \in 1 .. Len(s) : g.next[s[i]] = IF i = p - 1 THEN e ELSE h.next[s[i]]
    BY <1>5, <2>5, <2>7, <2>8
  <2>12. \A i \in 1 .. Len(s) : g.prev[s[i]] = IF i = 1 THEN e ELSE h.prev[s[i]]
    BY <1>5, <2>7, <2>8
  <2>13. Elsewhere(K, h, g, a, e)
    BY <2>8, <2>9 DEF Elsewhere
  <2>14. PutIn(h, g, a, s, p, e)
    <3>1. g.child[a] = h.child[a] /\ p = Len(s) + 1
      BY <1>7, <2>8
    <3>2. \A i \in 1 .. Len(s) :
            g.prev[s[i]] = IF i = p \/ (i = 1 /\ p = Len(s) + 1) THEN e ELSE h.prev[s[i]]
      BY <2>7, <2>12, <3>1
    <3> QED
      BY <2>5, <2>10, <2>11, <3>1, <3>2 DEF PutIn
  <2> QED
    BY <2>8, <2>13, <2>14
<1>10. g \in Heaps /\ Alike(h, g) /\ Elsewhere(K, h, g, a, e) /\ PutIn(h, g, a, s, p, e)
  BY <1>8, <1>9
<1>11. p \in 1 .. Len(s) + 1
  BY <1>7
<1>12. Shows(g, [K EXCEPT ![a] = InsertAt(s, p, e)], H \ {e})
  BY <1>1, <1>10, <1>11, ShowsInserted
<1> QED
  BY <1>1, <1>6, <1>7, <1>12

\* get_array_item finds the child at its place.
LEMMA ArrayItem ==
  ASSUME NEW h, NEW K, NEW H, Shows(h, K, H), NEW a \in Nodes, a \notin h.isRef,
         NEW which \in Nat \ {0}
  PROVE  get_array_item(h, a, which) = Nth(K[a], which)
<1>1. PICK s \in Seq(Nodes) : s = K[a] /\ Kids(h, a) = s
  BY RowOf, KidsAre
<1>2. get_array_item(h, a, which) = IF which \in DOMAIN s THEN s[which] ELSE NULL
  BY <1>1 DEF get_array_item
<1> QED
  BY <1>1, <1>2 DEF Nth

\* cJSON_InsertItemInArray puts a root at the place p.
LEMMA ShowsPutBefore ==
  ASSUME NEW h, NEW K, NEW H, Shows(h, K, H), NEW a \in Nodes, a \in h.alive, a \notin h.isRef,
         NEW e \in H, a \notin Under(K, e), NEW p \in 1 .. Len(K[a])
  PROVE  Shows(cJSON_InsertItemInArray(h, a, p, e), [K EXCEPT ![a] = InsertAt(K[a], p, e)], H \ {e})
<1>1. PICK s \in Seq(Nodes) : s = K[a]
  BY RowOf
<1>2. /\ IsInjective(s) /\ \A i, j \in 1 .. Len(s) : s[i] = s[j] => i = j
      /\ \A i \in 1 .. Len(s) : s[i] \in Nodes /\ s[i] # NULL /\ Kid(K, a, s[i])
      /\ s = << >> => h.child[a] = NULL
      /\ s # << >> => Len(s) >= 1 /\ h.child[a] = s[1]
      /\ \A i \in 1 .. Len(s) : /\ h.next[s[i]] = Nth(s, i + 1) /\ h.prev[s[i]] = Prv(s, i)
                                /\ Prv(s, i) \in Nodes
  BY <1>1, RowPointers
<1>3. e \in Nodes /\ ~HasParent(K, e) /\ h.next[e] = NULL
  BY HeldIsRoot
<1>4. h \in Heaps /\ \A i \in 1 .. Len(s) : s[i] # e
  BY <1>2, <1>3 DEF Shows, HasParent
<1>5. h.child \in [Nodes -> Ptr] /\ h.next \in [Nodes -> Ptr] /\ h.prev \in [Nodes -> Ptr]
  BY <1>4, HeapFields
<1>6. PICK g : g = cJSON_InsertItemInArray(h, a, p, e)
  OBVIOUS
<1>7. p \in 1 .. Len(s) /\ p \in Nat \ {0} /\ p \in Int
  BY <1>1
<1>8. PICK d \in Nodes : d = s[p] /\ d = get_array_item(h, a, p)
  <2>1. get_array_item(h, a, p) = Nth(K[a], p)
    BY <1>7, ArrayItem
  <2> QED
    BY <1>1, <1>2, <1>7, <2>1 DEF Nth
<1>9. PICK q \in Nodes : q = h.prev[d] /\ q = Prv(s, p)
  BY <1>2, <1>8, <1>7
<1>10. d # e /\ q # e
  <2>1. \E i \in 1 .. Len(s) : q = s[i]
    BY <1>9, <1>7 DEF Prv
  <2> QED
    BY <1>4, <1>8, <1>7, <2>1
<1>11. /\ g \in Heaps /\ Alike(h, g)
       /\ g.child = IF d = h.child[a] THEN [h.child EXCEPT ![a] = e] ELSE h.child
       /\ g.next = IF d = h.child[a] THEN [h.next EXCEPT ![e] = d]
                                  ELSE [[h.next EXCEPT ![e] = d] EXCEPT ![q] = e]
       /\ g.prev = [[h.prev EXCEPT ![e] = q] EXCEPT ![d] = e]
  <2>1. d # e
    BY <1>10
  <2>2. Links(h, cJSON_InsertItemInArray(h, a, p, e),
               IF d = h.child[a] THEN [h.child EXCEPT ![a] = e] ELSE h.child,
               IF d = h.child[a] THEN [h.next EXCEPT ![e] = d]
                                 ELSE [[h.next EXCEPT ![e] = d] EXCEPT ![q] = e],
               [[h.prev EXCEPT ![e] = q] EXCEPT ![d] = e])
    BY <1>3, <1>4, <1>8, <1>9, <2>1, InsertFields
  <2> QED
    BY <1>6, <2>2 DEF Links
<1>12. d = h.child[a] <=> p = 1
  <2>1. h.child[a] = s[1] /\ 1 \in 1 .. Len(s)
    BY <1>2, <1>7
  <2> QED
    BY <1>2, <1>8, <1>7, <2>1
<1>13. p # 1 => p - 1 \in 1 .. Len(s) /\ q = s[p - 1]
  BY <1>9, <1>7 DEF Prv
<1>14. Kid(K, a, d) /\ (p # 1 => Kid(K, a, q))
  BY <1>2, <1>8, <1>13, <1>7
<1>15. ASSUME NEW i \in 1 .. Len(s)
       PROVE  (s[i] = d <=> i = p) /\ (p # 1 => (s[i] = q <=> i = p - 1)) /\ s[i] # e /\ s[i] \in Nodes
  <2>1. s[i] = d <=> i = p
    BY <1>2, <1>8, <1>7
  <2>2. ASSUME p # 1 PROVE s[i] = q <=> i = p - 1
    <3>1. PICK k \in 1 .. Len(s) : k = p - 1 /\ q = s[k]
      BY <1>13, <2>2
    <3> QED
      BY <1>2, <3>1
  <2> QED
    BY <1>2, <1>4, <2>1, <2>2
<1>16. \A b \in Nodes : b # a => g.child[b] = h.child[b]
  BY <1>11, <1>5
<1>17. \A n \in Nodes : n # e /\ ~Kid(K, a, n) => g.next[n] = h.next[n] /\ g.prev[n] = h.prev[n]
  BY <1>11, <1>12, <1>14, <1>5
<1>18. g.child[a] = IF p = 1 THEN e ELSE h.child[a]
  BY <1>11, <1>12, <1>5
<1>19. g.next[e] = Nth(s, p) /\ g.prev[e] = q
  <2>1. Nth(s, p) = d
    BY <1>8, <1>7 DEF Nth
  <2> QED
    BY <1>3, <1>10, <1>11, <1>5, <2>1
<1>20. \A i \in 1 .. Len(s) : g.next[s[i]] = IF i = p - 1 THEN e ELSE h.next[s[i]]
  <2>1. CASE p = 1
    <3>1. \A i \in 1 .. Len(s) : i # p - 1
      BY <2>1
    <3> QED
      BY <1>11, <1>12, <1>15, <1>5, <2>1, <3>1
  <2>2. CASE p # 1
    BY <1>11, <1>12, <1>15, <1>5, <2>2
  <2> QED
    BY <2>1, <2>2
<1>21. \A i \in 1 .. Len(s) :
         g.prev[s[i]] = IF i = p \/ (i = 1 /\ p = Len(s) + 1) THEN e ELSE h.prev[s[i]]
  <2>1. p # Len(s) + 1
    BY <1>7
  <2> QED
    BY <1>11, <1>15, <1>5, <2>1
<1>22. g.prev[e] = IF Len(s) = 0 THEN e ELSE Prv(s, p)
  BY <1>9, <1>19, <1>7
<1>23. p \in 1 .. Len(s) + 1
  BY <1>7
<1>24. Shows(g, [K EXCEPT ![a] = InsertAt(s, p, e)], H \ {e})
  <2>1. g \in Heaps /\ Alike(h, g) /\ Elsewhere(K, h, g, a, e)
    BY <1>11, <1>16, <1>17 DEF Elsewhere
  <2>2. PutIn(h, g, a, s, p, e)
    BY <1>18, <1>19, <1>20, <1>21, <1>22 DEF PutIn
  <2> QED
    BY <1>1, <1>23, <2>1, <2>2, ShowsInserted
<1> QED
  BY <1>1, <1>6, <1>24

\* cJSON_DetachItemViaPointer makes the p-th child a root.
LEMMA ShowsUnlinked ==
  ASSUME NEW h, NEW K, NEW H, Shows(h, K, H), NEW a \in Nodes, a \in h.alive, a \notin h.isRef,
         NEW p \in 1 .. Len(K[a]), NEW e, e = K[a][p]
  PROVE  Shows(cJSON_DetachItemViaPointer(h, a, e),
               [K EXCEPT ![a] = RemoveAt(K[a], p)], H \cup {e})
<1>1. PICK s \in Seq(Nodes) : s = K[a]
  BY RowOf
<1>2. /\ IsInjective(s) /\ \A i, j \in 1 .. Len(s) : s[i] = s[j] => i = j
      /\ \A i \in 1 .. Len(s) : s[i] \in Nodes /\ s[i] # NULL /\ Kid(K, a, s[i])
      /\ s = << >> => h.child[a] = NULL
      /\ s # << >> => Len(s) >= 1 /\ h.child[a] = s[1]
      /\ \A i \in 1 .. Len(s) : /\ h.next[s[i]] = Nth(s, i + 1) /\ h.prev[s[i]] = Prv(s, i)
                                /\ Prv(s, i) \in Nodes
  BY <1>1, RowPointers
<1>3. /\ p \in 1 .. Len(s) /\ p \in Int /\ e = s[p] /\ e \in Nodes /\ Kid(K, a, e) /\ s # << >>
      /\ Len(s) \in Nat /\ 1 \in 1 .. Len(s)
  BY <1>1, <1>2
<1>4. h \in Heaps
  BY DEF Shows
<1>5. h.child \in [Nodes -> Ptr] /\ h.next \in [Nodes -> Ptr] /\ h.prev \in [Nodes -> Ptr]
  BY <1>4, HeapFields
<1>6. PICK g : g = cJSON_DetachItemViaPointer(h, a, e)
  OBVIOUS
<1>7. PICK c \in Nodes : c = h.child[a] /\ c = s[1] /\ Kid(K, a, c) /\ (e = c <=> p = 1)
  BY <1>2, <1>3
<1>8. PICK q \in Nodes : q = h.prev[e] /\ q = Prv(s, p)
  BY <1>2, <1>3
<1>9. PICK r \in Ptr : r = h.next[e] /\ r = Nth(s, p + 1)
  BY <1>2, <1>3, <1>5
<1>10. p # Len(s) => p + 1 \in 1 .. Len(s) /\ r = s[p + 1] /\ r # NULL /\ Kid(K, a, r) /\ r # e
  <2>1. ASSUME p # Len(s) PROVE p + 1 \in 1 .. Len(s)
    BY <1>3, <2>1
  <2>2. ASSUME p # Len(s) PROVE r = s[p + 1]
    BY <1>9, <2>1, <2>2 DEF Nth
  <2>3. p + 1 # p
    BY <1>3
  <2> QED
    BY <1>2, <1>3, <2>1, <2>2, <2>3
<1>11. p = Len(s) => r = NULL
  <2>1. p = Len(s) => ~(p + 1 \in 1 .. Len(s))
    BY <1>3
  <2> QED
    BY <1>9, <2>1 DEF Nth
<1>12. p # 1 => p - 1 \in 1 .. Len(s) /\ q = s[p - 1] /\ Kid(K, a, q) /\ q # e
  <2>1. ASSUME p # 1 PROVE p - 1 \in 1 .. Len(s) /\ p - 1 # p
    BY <1>3, <2>1
  <2> QED
    BY <1>2, <1>8, <1>3, <2>1 DEF Prv
<1>13. /\ g \in Heaps /\ Alike(h, g)
       /\ g.child = IF e = c THEN [h.child EXCEPT ![a] = r] ELSE h.child
       /\ g.next = [(IF e = c THEN h.next ELSE [h.next EXCEPT ![q] = r]) EXCEPT ![e] = NULL]
       /\ g.prev = [(IF r # NULL THEN [h.prev EXCEPT ![r] = q]
                     ELSE IF e = c THEN h.prev ELSE [h.prev EXCEPT ![c] = q]) EXCEPT ![e] = NULL]
  <2>1. r # e /\ (e # c => q # e)
    BY <1>7, <1>10, <1>11, <1>12, <1>3, TreeAssumption
  <2>2. /\ q \in Nodes /\ r \in Ptr /\ c \in Nodes /\ c = h.child[a] /\ q = h.prev[e] /\ r = h.next[e]
        /\ e \in Nodes
    BY <1>7, <1>8, <1>9, <1>3
  <2>3. LinkedPast(h, cJSON_DetachItemViaPointer(h, a, e), a, e, c, q, r)
    BY ONLY <1>4, <2>1, <2>2, DetachFields, a \in Nodes
  <2> QED
    BY <1>6, <2>3 DEF Links, LinkedPast
<1>14. ASSUME NEW i \in 1 .. Len(s)
       PROVE  /\ s[i] \in Nodes /\ (s[i] = e <=> i = p) /\ (s[i] = c <=> i = 1)
              /\ p # 1 => (s[i] = q <=> i = p - 1)
              /\ p # Len(s) => (s[i] = r <=> i = p + 1)
  <2>1. (s[i] = e <=> i = p) /\ (s[i] = c <=> i = 1)
    BY <1>2, <1>7, <1>3
  <2>2. ASSUME p # 1 PROVE s[i] = q <=> i = p - 1
    <3>1. PICK k \in 1 .. Len(s) : k = p - 1 /\ q = s[k]
      BY <1>12, <2>2
    <3> QED
      BY <1>2, <3>1
  <2>3. ASSUME p # Len(s) PROVE s[i] = r <=> i = p + 1
    <3>1. PICK k \in 1 .. Len(s) : k = p + 1 /\ r = s[k]
      BY <1>10, <2>3
    <3> QED
      BY <1>2, <3>1
  <2> QED
    BY <1>2, <2>1, <2>2, <2>3
<1>15. \A b \in Nodes : b # a => g.child[b] = h.child[b]
  BY <1>13, <1>5
<1>16. \A n \in Nodes : ~Kid(K, a, n) => g.next[n] = h.next[n] /\ g.prev[n] = h.prev[n]
  <2>1. ASSUME NEW n \in Nodes, ~Kid(K, a, n) PROVE n # e /\ n # c /\ (p # 1 => n # q) /\ n # r
    BY <1>7, <1>10, <1>11, <1>12, <1>3, <2>1, TreeAssumption
  <2> QED
    BY <1>7, <1>13, <1>5, <2>1
<1>17. g.child[a] = IF p = 1 THEN Nth(s, 2) ELSE h.child[a]
  <2>1. p = 1 => r = Nth(s, 2)
    BY <1>9
  <2> QED
    BY <1>7, <1>13, <1>5, <2>1
<1>18. g.next[e] = NULL
  BY <1>13, <1>5, <1>3
<1>19. \A i \in 1 .. Len(s) : i # p =>
         g.next[s[i]] = IF i = p - 1 THEN Nth(s, p + 1) ELSE h.next[s[i]]
  <2>1. CASE p = 1
    <3>1. \A i \in 1 .. Len(s) : i # p - 1
      BY <2>1
    <3> QED
      BY <1>7, <1>13, <1>14, <1>5, <2>1, <3>1
  <2>2. CASE p # 1
    BY <1>7, <1>9, <1>13, <1>14, <1>5, <2>2
  <2> QED
    BY <2>1, <2>2
<1>20. \A i \in 1 .. Len(s) : i # p =>
         g.prev[s[i]] = IF i = p + 1 \/ (i = 1 /\ p = Len(s)) THEN Prv(s, p) ELSE h.prev[s[i]]
  <2>1. CASE p # Len(s)
    BY <1>8, <1>10, <1>13, <1>14, <1>5, <2>1
  <2>2. CASE p = Len(s) /\ p = 1
    <3>1. \A i \in 1 .. Len(s) : i = p
      BY <2>2
    <3> QED
      BY <3>1
  <2>3. CASE p = Len(s) /\ p # 1
    <3>1. \A i \in 1 .. Len(s) : i # p + 1
      BY <1>3, <2>3
    <3> QED
      BY <1>7, <1>8, <1>11, <1>13, <1>14, <1>5, <2>3, <3>1
  <2> QED
    BY <2>1, <2>2, <2>3
<1>21. Shows(g, [K EXCEPT ![a] = RemoveAt(s, p)], H \cup {e})
  <2>1. g \in Heaps /\ Alike(h, g) /\ Elsewhere(K, h, g, a, e)
    BY <1>13, <1>15, <1>16 DEF Elsewhere
  <2>2. TakenOut(h, g, a, s, p)
    BY <1>17, <1>18, <1>19, <1>20, <1>3 DEF TakenOut
  <2> QED
    BY <1>1, <1>3, <2>1, <2>2, ShowsDetached
<1> QED
  BY <1>1, <1>6, <1>21

\* cJSON_ReplaceItemViaPointer puts a root in the place of a child.
LEMMA ShowsSwapped ==
  ASSUME NEW h, NEW K, NEW H, Shows(h, K, H), NEW a \in Nodes, a \in h.alive, a \notin h.isRef,
         NEW p \in 1 .. Len(K[a]), NEW o, o = K[a][p], NEW e \in H, a \notin Under(K, e)
  PROVE  Shows(Swapped(h, a, o, e), [K EXCEPT ![a] = ReplaceAt(K[a], p, e)], (H \ {e}) \cup {o})
<1>1. PICK s \in Seq(Nodes) : s = K[a]
  BY RowOf
<1>2. /\ IsInjective(s) /\ \A i, j \in 1 .. Len(s) : s[i] = s[j] => i = j
      /\ \A i \in 1 .. Len(s) : s[i] \in Nodes /\ s[i] # NULL /\ Kid(K, a, s[i])
      /\ s = << >> => h.child[a] = NULL
      /\ s # << >> => Len(s) >= 1 /\ h.child[a] = s[1]
      /\ \A i \in 1 .. Len(s) : /\ h.next[s[i]] = Nth(s, i + 1) /\ h.prev[s[i]] = Prv(s, i)
                                /\ Prv(s, i) \in Nodes
  BY ONLY <1>1, RowPointers, Shows(h, K, H), a \in Nodes, a \in h.alive, a \notin h.isRef, s \in Seq(Nodes)
<1>3. /\ p \in 1 .. Len(s) /\ p \in Int /\ o = s[p] /\ o \in Nodes /\ Kid(K, a, o) /\ s # << >>
      /\ Len(s) \in Nat /\ 1 \in 1 .. Len(s)
  BY <1>1, <1>2
<1>4. e \in Nodes /\ ~HasParent(K, e) /\ h.next[e] = NULL
  BY HeldIsRoot
<1>5. h \in Heaps /\ \A i \in 1 .. Len(s) : s[i] # e
  BY <1>2, <1>4 DEF Shows, HasParent
<1>6. h.child \in [Nodes -> Ptr] /\ h.next \in [Nodes -> Ptr] /\ h.prev \in [Nodes -> Ptr]
  BY <1>5, HeapFields
<1>7. PICK g : g = Swapped(h, a, o, e)
  OBVIOUS
<1>8. PICK c \in Nodes : c = h.child[a] /\ c = s[1] /\ Kid(K, a, c) /\ (o = c <=> p = 1)
  BY <1>2, <1>3
<1>9. PICK q \in Nodes : q = h.prev[o] /\ q = Prv(s, p)
  BY <1>2, <1>3
<1>10. PICK r \in Ptr : r = h.next[o] /\ r = Nth(s, p + 1)
  BY <1>2, <1>3, <1>6
<1>11. p # Len(s) => p + 1 \in 1 .. Len(s) /\ r = s[p + 1] /\ r # NULL /\ Kid(K, a, r) /\ r # o /\ r # e
  <2>1. ASSUME p # Len(s) PROVE p + 1 \in 1 .. Len(s)
    BY <1>3, <2>1
  <2>2. ASSUME p # Len(s) PROVE r = s[p + 1]
    BY <1>10, <2>1, <2>2 DEF Nth
  <2>3. p + 1 # p
    BY <1>3
  <2> QED
    BY <1>2, <1>5, <1>3, <2>1, <2>2, <2>3
<1>12. p = Len(s) => r = NULL
  <2>1. p = Len(s) => ~(p + 1 \in 1 .. Len(s))
    BY <1>3
  <2> QED
    BY <1>10, <2>1 DEF Nth
<1>13. p # 1 => p - 1 \in 1 .. Len(s) /\ q = s[p - 1] /\ Kid(K, a, q) /\ q # o /\ q # e
  <2>1. ASSUME p # 1 PROVE p - 1 \in 1 .. Len(s) /\ p - 1 # p
    BY <1>3, <2>1
  <2> QED
    BY <1>2, <1>5, <1>9, <1>3, <2>1 DEF Prv
<1>14. p = 1 => q = s[Len(s)] /\ q # e /\ (q = o <=> Len(s) = 1)
  <2>1. Len(s) \in 1 .. Len(s)
    BY <1>3
  <2>2. ASSUME p = 1 PROVE q = s[Len(s)]
    BY <1>9, <2>2 DEF Prv
  <2>3. s[Len(s)] = s[1] <=> Len(s) = 1
    BY <1>2, <1>3, <2>1
  <2> QED
    BY <1>5, <1>3, <2>1, <2>2, <2>3
<1>15. /\ g \in Heaps /\ Alike(h, g)
       /\ g.child = IF o = c THEN [h.child EXCEPT ![a] = e] ELSE h.child
       /\ g.next = [(IF o = c THEN [h.next EXCEPT ![e] = r]
                     ELSE [[h.next EXCEPT ![e] = r] EXCEPT ![q] = e]) EXCEPT ![o] = NULL]
       /\ g.prev = [(IF r # NULL
                     THEN [[h.prev EXCEPT ![e] = IF o = c /\ q = o THEN e ELSE q] EXCEPT ![r] = e]
                     ELSE IF o = c THEN [h.prev EXCEPT ![e] = IF q = o THEN e ELSE q]
                     ELSE [[h.prev EXCEPT ![e] = q] EXCEPT ![c] = e]) EXCEPT ![o] = NULL]
  <2>1. r # e /\ r # o /\ q # e /\ c # e /\ o # e
    BY <1>4, <1>5, <1>8, <1>11, <1>12, <1>13, <1>14, <1>3, TreeAssumption
  <2>2. /\ q \in Nodes /\ r \in Ptr /\ c \in Nodes /\ c = h.child[a] /\ q = h.prev[o] /\ r = h.next[o]
        /\ o \in Nodes /\ e \in Nodes
    BY <1>4, <1>8, <1>9, <1>10, <1>3
  <2>3. LinkedInstead(h, Swapped(h, a, o, e), a, o, e, c, q, r)
    BY ONLY <1>5, <2>1, <2>2, SwappedFields, a \in Nodes
  <2> QED
    BY <1>7, <2>3 DEF Links, LinkedInstead
<1>16. ASSUME NEW i \in 1 .. Len(s)
       PROVE  /\ s[i] \in Nodes /\ s[i] # e /\ (s[i] = o <=> i = p) /\ (s[i] = c <=> i = 1)
              /\ p # 1 => (s[i] = q <=> i = p - 1)
              /\ p # Len(s) => (s[i] = r <=> i = p + 1)
  <2>1. (s[i] = o <=> i = p) /\ (s[i] = c <=> i = 1)
    BY <1>2, <1>8, <1>3
  <2>2. ASSUME p # 1 PROVE s[i] = q <=> i = p - 1
    <3>1. PICK k \in 1 .. Len(s) : k = p - 1 /\ q = s[k]
      BY <1>13, <2>2
    <3> QED
      BY <1>2, <3>1
  <2>3. ASSUME p # Len(s) PROVE s[i] = r <=> i = p + 1
    <3>1. PICK k \in 1 .. Len(s) : k = p + 1 /\ r = s[k]
      BY <1>11, <2>3
    <3> QED
      BY <1>2, <3>1
  <2> QED
    BY <1>2, <1>5, <2>1, <2>2, <2>3
<1>17. c # e /\ o # e /\ r # e /\ q # e
  BY <1>4, <1>5, <1>8, <1>11, <1>12, <1>13, <1>14, <1>3, TreeAssumption
<1>18. Elsewhere(K, h, g, a, e)
  <2>1. \A b \in Nodes : b # a => g.child[b] = h.child[b]
    BY <1>15, <1>6
  <2>2. ASSUME NEW n \in Nodes, n # e, ~Kid(K, a, n) PROVE g.next[n] = h.next[n] /\ g.prev[n] = h.prev[n]
    <3>1. n # o /\ n # c /\ (p # 1 => n # q) /\ n # r
      BY <1>8, <1>11, <1>12, <1>13, <1>3, <2>2, TreeAssumption
    <3> QED
      BY <1>8, <1>15, <1>6, <2>2, <3>1
  <2> QED
    BY <2>1, <2>2 DEF Elsewhere
<1>19. g.child[a] = IF p = 1 THEN e ELSE h.child[a]
  BY <1>8, <1>15, <1>6
<1>20. g.next[e] = Nth(s, p + 1) /\ g.next[o] = NULL
  BY <1>4, <1>10, <1>15, <1>17, <1>6, <1>3
<1>21. \A i \in 1 .. Len(s) : i # p => g.next[s[i]] = IF i = p - 1 THEN e ELSE h.next[s[i]]
  <2>1. CASE p = 1
    <3>1. \A i \in 1 .. Len(s) : i # p - 1
      BY <2>1
    <3> QED
      BY <1>8, <1>15, <1>16, <1>6, <2>1, <3>1
  <2>2. CASE p # 1
    BY <1>8, <1>15, <1>16, <1>6, <2>2
  <2> QED
    BY <2>1, <2>2
<1>22. g.prev[e] = IF Len(s) = 1 THEN e ELSE Prv(s, p)
  <2>1. CASE p = 1
    <3>1. g.prev[e] = IF q = o THEN e ELSE q
      BY <1>4, <1>8, <1>15, <1>17, <1>6, <2>1
    <3> QED
      BY <1>9, <1>14, <2>1, <3>1
  <2>2. CASE p # 1
    <3>1. g.prev[e] = q /\ Len(s) # 1
      BY <1>4, <1>8, <1>15, <1>17, <1>6, <1>3, <2>2
    <3> QED
      BY <1>9, <3>1
  <2> QED
    BY <2>1, <2>2
<1>23. \A i \in 1 .. Len(s) : i # p =>
         g.prev[s[i]] = IF i = p + 1 \/ (i = 1 /\ p = Len(s)) THEN e ELSE h.prev[s[i]]
  <2>1. CASE p # Len(s)
    BY <1>11, <1>15, <1>16, <1>6, <2>1
  <2>2. CASE p = Len(s) /\ p = 1
    <3>1. \A i \in 1 .. Len(s) : i = p
      BY <2>2
    <3> QED
      BY <3>1
  <2>3. CASE p = Len(s) /\ p # 1
    <3>1. \A i \in 1 .. Len(s) : i # p + 1
      BY <1>3, <2>3
    <3> QED
      BY <1>8, <1>12, <1>15, <1>16, <1>6, <2>3, <3>1
  <2> QED
    BY <2>1, <2>2, <2>3
<1>24. Exchanged(h, g, a, s, p, e)
  BY <1>19, <1>20, <1>21, <1>22, <1>23, <1>3 DEF Exchanged
<1>25. Shows(g, [K EXCEPT ![a] = ReplaceAt(s, p, e)], (H \ {e}) \cup {o})
  <2>1. g \in Heaps /\ Alike(h, g)
    BY <1>15
  <2> QED
    BY <1>1, <1>18, <1>24, <1>3, <2>1, ShowsReplaced
<1> QED
  BY <1>1, <1>7, <1>25

-----------------------------------------------------------------------------
\* Deleting.

\* The forest without the children of D.
Cut(K, D) == [m \in Nodes |-> IF m \in D THEN << >> ELSE K[m]]

\* From a root, cJSON_Delete walks the subtree and nothing else: it stays out of
\* what references show.
LEMMA FreedIs ==
  ASSUME NEW h, NEW K, NEW H, Shows(h, K, H), NEW n \in Nodes, n \in h.alive, ~HasParent(K, n)
  PROVE  Freed(h, n) = Under(K, n)
<1> DEFINE to == [m \in Nodes |-> {h.next[m], IF m \in h.isRef THEN NULL ELSE h.child[m]} \ {NULL}]
<1>1. /\ h.child \in [Nodes -> Ptr] /\ h.next \in [Nodes -> Ptr] /\ K \in Rows
      /\ NULL \notin Nodes /\ h.next[n] = NULL
  BY HeapFields, TreeAssumption DEF Shows, Forest, Rooted
<1>2. to \in [Nodes -> SUBSET Nodes]
  BY <1>1 DEF Ptr
<1>3. \A m \in Nodes : to[m] = {h.next[m], IF m \in h.isRef THEN NULL ELSE h.child[m]} \ {NULL}
  OBVIOUS
<1>4. Freed(h, n) = Met(Nodes, n, to)
  BY DEF Freed
<1> HIDE DEF to
<1>5. PICK F : F = Met(Nodes, n, to)
  OBVIOUS
<1>6. /\ F \in SUBSET Nodes /\ n \in F /\ Closed(F, to)
      /\ \A S \in SUBSET Nodes : n \in S /\ Closed(S, to) => F \subseteq S
  BY <1>2, <1>5, MetIsLeast
<1>7. PICK U : U = Under(K, n)
  OBVIOUS
<1>8. /\ U \in SUBSET Nodes /\ n \in U
      /\ \A m \in U, c \in Nodes : Kid(K, m, c) => c \in U
      /\ \A S \in SUBSET Nodes : n \in S /\ (\A m \in S, c \in Nodes : Kid(K, m, c) => c \in S)
                                 => U \subseteq S
  BY <1>1, <1>7, UnderIsLeast
<1>9. U \subseteq h.alive /\ \A m \in U : m # n => \E a \in U : Kid(K, a, m)
  BY <1>1, <1>7, UnderAlive, UnderParent
<1>10. Closed(U, to)
  <2>1. ASSUME NEW m \in U, h.next[m] # NULL PROVE h.next[m] \in U
    <3>1. m # n
      BY <1>1, <2>1
    <3>2. PICK a \in U : Kid(K, a, m)
      BY <1>9, <3>1
    <3>3. a \in Nodes /\ a \in h.alive /\ a \notin h.isRef
      BY <1>8, <3>2, ParentOwns
    <3>4. K[a] \in Seq(Nodes) /\ Row(h, a, K[a])
      BY <3>3, RowOf
    <3>5. PICK i \in 1 .. Len(K[a]) : K[a][i] = m
      BY <3>2 DEF Kid, In
    <3>6. h.next[m] = Nth(K[a], i + 1)
      BY <3>4, <3>5 DEF Row
    <3>7. i + 1 \in 1 .. Len(K[a]) /\ h.next[m] = K[a][i + 1]
      BY <2>1, <3>6 DEF Nth
    <3>8. Kid(K, a, h.next[m]) /\ h.next[m] \in Nodes
      BY <3>4, <3>7 DEF Kid, In
    <3> QED
      BY <1>8, <3>8
  <2>2. ASSUME NEW m \in U, m \notin h.isRef, h.child[m] # NULL PROVE h.child[m] \in U
    <3>1. m \in Nodes /\ m \in h.alive
      BY <1>8, <1>9
    <3>2. K[m] \in Seq(Nodes) /\ Row(h, m, K[m])
      BY <2>2, <3>1, RowOf
    <3>3. h.child[m] = Nth(K[m], 1)
      BY <3>2 DEF Row
    <3>4. 1 \in 1 .. Len(K[m]) /\ h.child[m] = K[m][1]
      BY <2>2, <3>3 DEF Nth
    <3>5. Kid(K, m, h.child[m]) /\ h.child[m] \in Nodes
      BY <3>2, <3>4 DEF Kid, In
    <3> QED
      BY <1>8, <3>5
  <2>3. ASSUME NEW m \in U, NEW c \in to[m] PROVE c \in U
    BY <1>3, <1>8, <2>1, <2>2, <2>3
  <2> QED
    BY <2>3 DEF Closed
<1>11. ASSUME NEW m \in F, NEW c \in Nodes, Kid(K, m, c) PROVE c \in F
  <2>1. m \in Nodes /\ m \in h.alive /\ m \notin h.isRef
    BY <1>6, <1>11, ParentOwns
  <2>2. PICK s \in Seq(Nodes) : s = K[m] /\ Row(h, m, s)
    BY <2>1, RowOf
  <2> DEFINE S == {i \in Nat : i + 1 \in 1 .. Len(s) => s[i + 1] \in F}
  <2>3. 0 \in S
    <3>1. ASSUME 1 \in 1 .. Len(s) PROVE s[1] \in F
      <4>1. h.child[m] = s[1] /\ s[1] \in Nodes
        BY <2>2, <3>1 DEF Row, Nth
      <4>2. s[1] \in to[m]
        BY <1>1, <1>3, <2>1, <4>1
      <4> QED
        BY <1>6, <4>2 DEF Closed
    <3> QED
      BY <3>1
  <2>4. ASSUME NEW i \in Nat, i \in S PROVE i + 1 \in S
    <3>1. ASSUME i + 1 + 1 \in 1 .. Len(s) PROVE s[i + 1 + 1] \in F
      <4>1. i + 1 \in 1 .. Len(s) /\ s[i + 1] \in F
        BY <2>4, <3>1
      <4>2. h.next[s[i + 1]] = Nth(s, i + 1 + 1)
        BY <2>2, <4>1 DEF Row
      <4>3. Nth(s, i + 1 + 1) = s[i + 1 + 1] /\ s[i + 1 + 1] \in Nodes
        BY <3>1 DEF Nth
      <4>4. s[i + 1 + 1] \in to[s[i + 1]]
        BY <1>1, <1>3, <1>6, <4>1, <4>2, <4>3
      <4> QED
        BY <1>6, <4>1, <4>4 DEF Closed
    <3> QED
      BY <3>1
  <2>5. Nat \subseteq S
    <3> HIDE DEF S
    <3> QED
      BY <2>3, <2>4, NatUpwards
  <2>6. PICK i \in 1 .. Len(s) : s[i] = c
    BY <1>11, <2>2 DEF Kid, In
  <2>7. i - 1 \in Nat /\ i - 1 + 1 = i
    BY <2>6
  <2>8. i - 1 \in S
    BY <2>5, <2>7
  <2> QED
    BY <2>6, <2>7, <2>8
<1>12. F = U
  BY <1>6, <1>8, <1>10, <1>11
<1> QED
  BY <1>4, <1>5, <1>7, <1>12

\* Cutting off what is below a root leaves the other rows whole.
LEMMA CutRows ==
  ASSUME NEW h, NEW K, NEW H, Shows(h, K, H), NEW n \in H, NEW U, U = Under(K, n)
  PROVE  /\ Cut(K, U) \in Rows /\ Forest(Cut(K, U))
         /\ U \in SUBSET Nodes /\ U \subseteq h.alive /\ n \in U
         /\ \A m \in Nodes : Cut(K, U)[m] = IF m \in U THEN << >> ELSE K[m]
         /\ \A b, c \in Nodes : Kid(K, b, c) => (c \in U /\ c # n <=> b \in U)
         /\ \A m \in H : m # n => m \notin U
<1>1. K \in Rows /\ Forest(K) /\ n \in Nodes /\ n \in h.alive /\ ~HasParent(K, n)
  BY HeldIsRoot DEF Shows, Forest
<1>2. /\ U \in SUBSET Nodes /\ n \in U
      /\ \A m \in U, c \in Nodes : Kid(K, m, c) => c \in U
  BY <1>1, UnderIsLeast
<1>3. \A m \in U : m # n => \E a \in U : Kid(K, a, m)
  BY <1>1, UnderParent
<1>4. U \subseteq h.alive
  BY <1>1, UnderAlive
<1>5. \A m \in Nodes : Cut(K, U)[m] = IF m \in U THEN << >> ELSE K[m]
  BY DEF Cut
<1>6. Cut(K, U) \in Rows
  BY <1>1, EmptyRow DEF Cut, Rows
<1>7. ASSUME NEW b \in Nodes, NEW c \in Nodes, Kid(K, b, c) PROVE c \in U /\ c # n <=> b \in U
  <2>1. c # n
    BY <1>1, <1>7 DEF HasParent
  <2>2. ASSUME c \in U PROVE b \in U
    <3>1. PICK a \in U : Kid(K, a, c)
      BY <1>3, <2>1, <2>2
    <3>2. a = b
      BY <1>1, <1>2, <1>7, <3>1 DEF Forest, Apart
    <3> QED
      BY <3>1, <3>2
  <2> QED
    BY <1>2, <1>7, <2>1, <2>2
<1>8. ASSUME NEW m \in H, m # n PROVE m \notin U
  BY <1>1, <1>8, HeldIsRoot, RootApart
<1>9. Forest(Cut(K, U))
  <2>1. \A b \in Nodes : IsInjective(Cut(K, U)[b])
    BY <1>1, <1>5, EmptyRow DEF Forest, Apart
  <2>2. \A b, c \in Nodes : Kid(Cut(K, U), b, c) => Kid(K, b, c)
    BY <1>5, EmptyRow DEF Kid
  <2>3. PICK L : L = Cut(K, U)
    OBVIOUS
  <2>4. Forest(L)
    <3>1. L \in Rows /\ (\A b \in Nodes : IsInjective(L[b])) /\ \A b, c \in Nodes : Kid(L, b, c) => Kid(K, b, c)
      BY <1>6, <2>1, <2>2, <2>3
    <3> QED
      BY <1>1, <3>1, FewerKids
  <2> QED
    BY <2>3, <2>4
<1> QED
  BY <1>2, <1>4, <1>5, <1>6, <1>7, <1>8, <1>9

\* What cJSON_Delete writes.
LEMMA DeleteFields ==
  ASSUME NEW h \in Heaps, NEW n, NEW D \in SUBSET Nodes, D = Freed(h, n), NEW g, g = cJSON_Delete(h, n)
  PROVE  /\ g \in Heaps
         /\ \A m \in Nodes : /\ g.child[m] = IF m \in D THEN NULL ELSE h.child[m]
                             /\ g.next[m] = IF m \in D THEN NULL ELSE h.next[m]
                             /\ g.prev[m] = IF m \in D THEN NULL ELSE h.prev[m]
                             /\ g.string[m] = IF m \in D THEN NULL ELSE h.string[m]
         /\ g.isRef = h.isRef \ D /\ g.isConst = h.isConst \ D /\ g.alive = h.alive \ D
         /\ g.copied = h.copied \ {m \in D : m \notin h.isConst /\ h.string[m] # NULL}
         /\ g.wild = (h.wild \/ ~(D \subseteq h.alive)
                      \/ ~({m \in D : m \notin h.isConst /\ h.string[m] # NULL} \subseteq h.copied))
<1> DEFINE names == {m \in D : m \notin h.isConst /\ h.string[m] # NULL}
           Clear(f) == [m \in Nodes |-> IF m \in D THEN NULL ELSE f[m]]
<1>1. g = [child |-> Clear(h.child), next |-> Clear(h.next), prev |-> Clear(h.prev),
           string |-> Clear(h.string), isRef |-> h.isRef \ D,
           isConst |-> h.isConst \ D, copied |-> h.copied \ names,
           alive |-> h.alive \ D,
           wild |-> h.wild \/ ~(D \subseteq h.alive) \/ ~(names \subseteq h.copied)]
  BY DEF cJSON_Delete
<1>2. /\ h.child \in [Nodes -> Ptr] /\ h.next \in [Nodes -> Ptr] /\ h.prev \in [Nodes -> Ptr]
      /\ h.string \in [Nodes -> Keys \cup {NULL}]
      /\ h.isRef \in SUBSET Nodes /\ h.isConst \in SUBSET Nodes
      /\ h.copied \in SUBSET Nodes /\ h.alive \in SUBSET Nodes /\ h.wild \in BOOLEAN
  BY HeapFields
<1>3. /\ Clear(h.child) \in [Nodes -> Ptr] /\ Clear(h.next) \in [Nodes -> Ptr]
      /\ Clear(h.prev) \in [Nodes -> Ptr] /\ Clear(h.string) \in [Nodes -> Keys \cup {NULL}]
  BY <1>2 DEF Ptr
<1>4. /\ h.isRef \ D \in SUBSET Nodes /\ h.isConst \ D \in SUBSET Nodes /\ h.copied \ names \in SUBSET Nodes
      /\ h.alive \ D \in SUBSET Nodes
  BY <1>2
<1> DEFINE w == h.wild \/ ~(D \subseteq h.alive) \/ ~(names \subseteq h.copied)
<1>5. w \in BOOLEAN
  BY Zenon
<1> DEFINE C == Clear(h.child)
           X == Clear(h.next)
           Y == Clear(h.prev)
           Z == Clear(h.string)
<1>6. \A m \in Nodes : /\ C[m] = IF m \in D THEN NULL ELSE h.child[m]
                       /\ X[m] = IF m \in D THEN NULL ELSE h.next[m]
                       /\ Y[m] = IF m \in D THEN NULL ELSE h.prev[m]
                       /\ Z[m] = IF m \in D THEN NULL ELSE h.string[m]
  OBVIOUS
<1>7. g = [child |-> C, next |-> X, prev |-> Y, string |-> Z, isRef |-> h.isRef \ D,
           isConst |-> h.isConst \ D, copied |-> h.copied \ names, alive |-> h.alive \ D, wild |-> w]
  BY <1>1
<1>8. C \in [Nodes -> Ptr] /\ X \in [Nodes -> Ptr] /\ Y \in [Nodes -> Ptr] /\ Z \in [Nodes -> Keys \cup {NULL}]
  BY <1>3
<1> HIDE DEF C, X, Y, Z, w, Clear
<1>9. g \in Heaps
  <2> HIDE DEF names
  <2> QED
    BY <1>4, <1>5, <1>7, <1>8 DEF Heaps
<1>10. /\ g.child = C /\ g.next = X /\ g.prev = Y /\ g.string = Z /\ g.isRef = h.isRef \ D
       /\ g.isConst = h.isConst \ D /\ g.copied = h.copied \ names /\ g.alive = h.alive \ D /\ g.wild = w
  BY <1>7
<1> QED
  BY <1>6, <1>9, <1>10 DEF w

\* cJSON_Delete takes the subtree of a root away.
LEMMA ShowsDeleted ==
  ASSUME NEW h, NEW K, NEW H, Shows(h, K, H), NEW n \in H
  PROVE  Shows(cJSON_Delete(h, n), Cut(K, Under(K, n)), H \ {n})
<1>1. PICK U : U = Under(K, n)
  OBVIOUS
<1>2. PICK L : L = Cut(K, U)
  OBVIOUS
<1>3. /\ L \in Rows /\ Forest(L) /\ U \in SUBSET Nodes /\ U \subseteq h.alive /\ n \in U
      /\ \A m \in Nodes : L[m] = IF m \in U THEN << >> ELSE K[m]
      /\ \A b, c \in Nodes : Kid(K, b, c) => (c \in U /\ c # n <=> b \in U)
      /\ \A m \in H : m # n => m \notin U
  BY <1>1, <1>2, CutRows
<1>4. n \in Nodes /\ n \in h.alive /\ ~HasParent(K, n) /\ h \in Heaps
  BY HeldIsRoot DEF Shows
<1>5. U = Freed(h, n)
  BY <1>1, <1>4, FreedIs
<1>6. PICK g : g = cJSON_Delete(h, n)
  OBVIOUS
<1>7. /\ g \in Heaps
      /\ \A m \in Nodes : /\ g.child[m] = IF m \in U THEN NULL ELSE h.child[m]
                          /\ g.next[m] = IF m \in U THEN NULL ELSE h.next[m]
                          /\ g.prev[m] = IF m \in U THEN NULL ELSE h.prev[m]
                          /\ g.string[m] = IF m \in U THEN NULL ELSE h.string[m]
      /\ g.isRef = h.isRef \ U /\ g.isConst = h.isConst \ U /\ g.alive = h.alive \ U
      /\ g.copied = h.copied \ {m \in U : m \notin h.isConst /\ h.string[m] # NULL}
      /\ g.wild = (h.wild \/ ~(U \subseteq h.alive)
                   \/ ~({m \in U : m \notin h.isConst /\ h.string[m] # NULL} \subseteq h.copied))
  BY <1>3, <1>4, <1>5, <1>6, DeleteFields
<1>8. Laid(g, L)
  <2>1. ASSUME NEW b \in Nodes, b \in g.alive, b \notin g.isRef PROVE Row(g, b, L[b])
    <3>1. b \in h.alive /\ b \notin h.isRef /\ b \notin U /\ L[b] = K[b]
      BY <1>3, <1>7, <2>1
    <3>2. Row(h, b, K[b]) /\ K[b] \in Seq(Nodes)
      BY <3>1, RowOf
    <3>3. ASSUME NEW i \in 1 .. Len(K[b])
          PROVE  g.next[K[b][i]] = h.next[K[b][i]] /\ g.prev[K[b][i]] = h.prev[K[b][i]]
      <4>1. K[b][i] \in Nodes /\ Kid(K, b, K[b][i])
        BY <3>2 DEF Kid, In
      <4>2. K[b][i] # n
        BY <1>4, <4>1 DEF HasParent
      <4>3. K[b][i] \notin U
        BY <1>3, <3>1, <4>1, <4>2
      <4> QED
        BY <1>7, <4>1, <4>3
    <3>4. g.child[b] = h.child[b]
      BY <1>7, <3>1
    <3> QED
      BY <3>1, <3>2, <3>3, <3>4 DEF Row
  <2>2. ASSUME NEW b \in Nodes, ~(b \in g.alive /\ b \notin g.isRef) PROVE L[b] = << >>
    <3>1. CASE b \in U
      BY <1>3, <3>1
    <3>2. CASE b \notin U
      <4>1. b \notin h.alive \ h.isRef
        BY <1>7, <2>2, <3>2
      <4> QED
        BY <1>3, <3>2, <4>1, RowOf
    <3> QED
      BY <3>1, <3>2
  <2>3. ASSUME NEW b \in Nodes PROVE IF b \in g.alive \ g.isRef THEN Row(g, b, L[b]) ELSE L[b] = << >>
    BY <2>1, <2>2
  <2> QED
    BY <2>3 DEF Laid
<1>9. \A b, c \in Nodes : Kid(L, b, c) <=> Kid(K, b, c) /\ b \notin U
  BY <1>3, EmptyRow DEF Kid
<1>10. Rooted(g, L, H \ {n})
  <2>1. H \ {n} \subseteq g.alive
    BY <1>3, <1>7 DEF Shows, Rooted
  <2>2. ASSUME NEW c \in Nodes, HasParent(L, c) PROVE c \in g.alive /\ c \notin H \ {n}
    <3>1. PICK b \in Nodes : Kid(K, b, c) /\ b \notin U
      BY <1>9, <2>2 DEF HasParent
    <3>2. c \in h.alive /\ c \notin H /\ c # n
      BY <1>4, <3>1, ParentOwns
    <3> QED
      BY <1>3, <1>7, <3>1, <3>2
  <2>3. ASSUME NEW m \in g.alive, ~HasParent(L, m)
        PROVE  g.next[m] = NULL /\ (m \in H \ {n} \/ (m \in g.isRef /\ g.string[m] = NULL))
    <3>1. m \in Nodes /\ m \in h.alive /\ m \notin U
      BY <1>7, <2>3 DEF Heaps
    <3>2. ~HasParent(K, m)
      <4>1. ASSUME NEW b \in Nodes, Kid(K, b, m) PROVE FALSE
        <5>1. b \notin U
          BY <1>3, <3>1, <4>1
        <5> QED
          BY <1>9, <2>3, <3>1, <4>1, <5>1 DEF HasParent
      <4> QED
        BY <4>1 DEF HasParent
    <3> QED
      BY <1>3, <1>7, <3>1, <3>2 DEF Shows, Rooted
  <2> QED
    BY <2>1, <2>2, <2>3 DEF Rooted
<1>11. Cleared(g)
  BY <1>7 DEF Shows, Cleared
<1>12. Named(g)
  <2>1. {m \in U : m \notin h.isConst /\ h.string[m] # NULL} \subseteq h.copied
    BY <1>3 DEF Shows, Named
  <2>2. ~g.wild
    BY <1>3, <1>7, <2>1 DEF Shows, Named
  <2>3. ASSUME NEW m \in Nodes
        PROVE  m \in g.copied <=> m \in g.alive /\ g.string[m] # NULL /\ m \notin g.isConst
    BY <1>7 DEF Shows, Named
  <2> QED
    BY <2>2, <2>3 DEF Named
<1>13. Shows(g, L, H \ {n})
  BY <1>3, <1>7, <1>8, <1>10, <1>11, <1>12 DEF Shows
<1> QED
  BY <1>1, <1>2, <1>6, <1>13

-----------------------------------------------------------------------------
\* Creating and naming.

\* g is h with the new item n, which has no children of its own.
Born(h, g, n) ==
  /\ g \in Heaps /\ g.alive = h.alive \cup {n} /\ g.wild = h.wild
  /\ g.next = h.next /\ g.prev = h.prev
  /\ \A m \in Nodes : m # n => /\ g.child[m] = h.child[m] /\ g.string[m] = h.string[m]
                               /\ m \in g.isRef <=> m \in h.isRef
                               /\ m \in g.isConst <=> m \in h.isConst
                               /\ m \in g.copied <=> m \in h.copied
  /\ n \notin g.isRef => g.child[n] = NULL
  /\ n \in g.copied <=> g.string[n] # NULL /\ n \notin g.isConst

\* A subtree without children.
LEMMA NoKidsBelow ==
  ASSUME NEW K \in Rows, NEW n \in Nodes, K[n] = << >>
  PROVE  Under(K, n) = {n}
<1>1. \A m \in {n}, c \in Nodes : Kid(K, m, c) => c \in {n}
  BY EmptyRow DEF Kid
<1>2. {n} \in SUBSET Nodes /\ n \in {n}
  OBVIOUS
<1>3. Under(K, n) \subseteq {n}
  BY <1>1, <1>2, UnderIsLeast
<1> QED
  BY <1>3, UnderIsLeast

\* A new item is a root.
LEMMA ShowsBorn ==
  ASSUME NEW h, NEW K, NEW H, Shows(h, K, H), NEW n \in Nodes, n \notin h.alive,
         NEW g, Born(h, g, n)
  PROVE  Shows(g, K, H \cup {n}) /\ K[n] = << >> /\ Under(K, n) = {n}
<1>1. h.alive \in SUBSET Nodes /\ K \in Rows
  BY HeapFields DEF Shows, Forest
<1>2. K[n] = << >> /\ ~HasParent(K, n) /\ h.next[n] = NULL
  <2>1. K[n] = << >>
    BY RowOf
  <2> QED
    BY <2>1 DEF Shows, Rooted, Cleared
<1>3. Laid(g, K)
  <2>1. ASSUME NEW a \in Nodes, a \in g.alive, a \notin g.isRef PROVE Row(g, a, K[a])
    <3>1. CASE a = n
      BY <1>2, <2>1, <3>1, EmptyRow DEF Row, Born
    <3>2. CASE a # n
      <4>1. Row(h, a, K[a])
        BY <2>1, <3>2, RowOf DEF Born
      <4> QED
        BY <3>2, <4>1 DEF Row, Born
    <3> QED
      BY <3>1, <3>2
  <2>2. ASSUME NEW a \in Nodes, ~(a \in g.alive /\ a \notin g.isRef) PROVE K[a] = << >>
    <3>1. CASE a = n
      BY <1>2, <3>1
    <3>2. CASE a # n
      BY <2>2, <3>2, RowOf DEF Born
    <3> QED
      BY <3>1, <3>2
  <2>3. ASSUME NEW a \in Nodes
        PROVE  IF a \in g.alive \ g.isRef THEN Row(g, a, K[a]) ELSE K[a] = << >>
    BY <2>1, <2>2
  <2> QED
    BY <2>3 DEF Laid
<1>4. Rooted(g, K, H \cup {n})
  <2>1. H \cup {n} \subseteq g.alive
    BY DEF Shows, Rooted, Born
  <2>2. ASSUME NEW m \in Nodes, HasParent(K, m) PROVE m \in g.alive /\ m \notin H \cup {n}
    BY <1>2, <2>2 DEF Shows, Rooted, Born
  <2>3. ASSUME NEW m \in g.alive, ~HasParent(K, m)
        PROVE  g.next[m] = NULL /\ (m \in H \cup {n} \/ (m \in g.isRef /\ g.string[m] = NULL))
    <3>1. CASE m = n
      BY <1>2, <3>1 DEF Born
    <3>2. CASE m # n
      BY <1>1, <2>3, <3>2 DEF Shows, Rooted, Born
    <3> QED
      BY <3>1, <3>2
  <2> QED
    BY <2>1, <2>2, <2>3 DEF Rooted
<1>5. Cleared(g)
  <2>1. ASSUME NEW m \in Nodes \ g.alive
        PROVE  /\ g.child[m] = NULL /\ g.next[m] = NULL /\ g.string[m] = NULL
               /\ m \notin g.isRef /\ m \notin g.isConst
    BY DEF Shows, Cleared, Born
  <2> QED
    BY <2>1 DEF Cleared
<1>6. Named(g)
  <2>1. ASSUME NEW m \in Nodes
        PROVE  m \in g.copied <=> m \in g.alive /\ g.string[m] # NULL /\ m \notin g.isConst
    <3>1. CASE m = n
      BY <3>1 DEF Born
    <3>2. CASE m # n
      BY <3>2 DEF Shows, Named, Born
    <3> QED
      BY <3>1, <3>2
  <2> QED
    BY <2>1 DEF Named, Shows, Born
<1> QED
  BY <1>1, <1>2, <1>3, <1>4, <1>5, <1>6, NoKidsBelow DEF Shows, Born

\* What malloc gives is blank.
LEMMA BlankBefore ==
  ASSUME NEW h, NEW K, NEW H, Shows(h, K, H), NEW n \in Nodes, n \notin h.alive
  PROVE  /\ h.child[n] = NULL /\ h.string[n] = NULL /\ n \notin h.isRef
         /\ n \notin h.isConst /\ n \notin h.copied
BY DEF Shows, Cleared, Named

\* The items of cJSON_New_Item,
LEMMA NewBorn ==
  ASSUME NEW h, NEW K, NEW H, Shows(h, K, H), NEW n \in Nodes, n \notin h.alive
  PROVE  Born(h, cJSON_New_Item(h, n), n)
<1>1. h \in Heaps
  BY DEF Shows
<1>2. PICK g : g = cJSON_New_Item(h, n)
  OBVIOUS
<1>3. /\ g.alive = h.alive \cup {n} /\ g.child = h.child /\ g.next = h.next /\ g.prev = h.prev
      /\ g.string = h.string /\ g.isRef = h.isRef /\ g.isConst = h.isConst
      /\ g.copied = h.copied /\ g.wild = h.wild /\ g \in Heaps
  BY <1>1, <1>2 DEF cJSON_New_Item, Heaps
<1>4. Born(h, g, n)
  BY <1>3, BlankBefore DEF Born
<1> QED
  BY <1>2, <1>4

\* create_reference,
LEMMA ReferenceBorn ==
  ASSUME NEW h, NEW K, NEW H, Shows(h, K, H), NEW n \in Nodes, n \notin h.alive, NEW item \in Nodes
  PROVE  /\ Born(h, create_reference(h, n, item), n)
         /\ n \in create_reference(h, n, item).isRef
         /\ create_reference(h, n, item).string[n] = NULL
<1>1. h \in Heaps
  BY DEF Shows
<1>2. PICK g : g = create_reference(h, n, item)
  OBVIOUS
<1>3. /\ g.alive = h.alive \cup {n} /\ g.next = h.next /\ g.prev = h.prev
      /\ g.child = [h.child EXCEPT ![n] = h.child[item]]
      /\ g.string = h.string /\ g.isRef = h.isRef \cup {n}
      /\ g.isConst = IF item \in h.isConst THEN h.isConst \cup {n} ELSE h.isConst
      /\ g.copied = h.copied /\ g.wild = h.wild /\ g \in Heaps
  BY <1>1, <1>2 DEF create_reference, cJSON_New_Item, Heaps
<1>4. \A m \in Nodes : m # n => g.child[m] = h.child[m]
  BY <1>1, <1>3, HeapFields
<1>5. Born(h, g, n)
  BY <1>3, <1>4, BlankBefore DEF Born
<1> QED
  BY <1>2, <1>3, <1>5, BlankBefore

\* The heap of CreateReference.
LEMMA ViewBorn ==
  ASSUME NEW h, NEW K, NEW H, Shows(h, K, H), NEW n \in Nodes, n \notin h.alive, NEW item \in Nodes,
         NEW g, g = [cJSON_New_Item(h, n) EXCEPT !.child[n] = h.child[item], !.isRef = @ \cup {n}]
  PROVE  Born(h, g, n)
<1>1. h \in Heaps
  BY DEF Shows
<1>2. /\ g.alive = h.alive \cup {n} /\ g.next = h.next /\ g.prev = h.prev
      /\ g.child = [h.child EXCEPT ![n] = h.child[item]]
      /\ g.string = h.string /\ g.isRef = h.isRef \cup {n} /\ g.isConst = h.isConst
      /\ g.copied = h.copied /\ g.wild = h.wild /\ g \in Heaps
  BY <1>1 DEF cJSON_New_Item, Heaps
<1>3. \A m \in Nodes : m # n => g.child[m] = h.child[m]
  BY <1>1, <1>2, HeapFields
<1> QED
  BY <1>2, <1>3, BlankBefore DEF Born

\* and the copy of a single item are new ones.
LEMMA CopyBorn ==
  ASSUME NEW h, NEW K, NEW H, Shows(h, K, H), NEW n \in Nodes, n \notin h.alive, NEW item \in Nodes
  PROVE  Born(h, CopyOf(h, n, item), n) /\ CopyOf(h, n, item).isRef = h.isRef
<1>1. h \in Heaps
  BY DEF Shows
<1>2. PICK g : g = CopyOf(h, n, item)
  OBVIOUS
<1>3. /\ g.alive = h.alive \cup {n} /\ g.next = h.next /\ g.prev = h.prev /\ g.child = h.child
      /\ g.string = [h.string EXCEPT ![n] = h.string[item]] /\ g.isRef = h.isRef
      /\ g.isConst = IF item \in h.isConst THEN h.isConst \cup {n} ELSE h.isConst
      /\ g.copied = IF item \in h.isConst \/ h.string[item] = NULL THEN h.copied ELSE h.copied \cup {n}
      /\ g.wild = h.wild /\ g \in Heaps
  BY <1>1, <1>2 DEF CopyOf, cJSON_New_Item, Heaps
<1>4. /\ \A m \in Nodes : m # n => g.string[m] = h.string[m]
      /\ g.string[n] = h.string[item]
  BY <1>1, <1>3, HeapFields
<1>5. Born(h, g, n)
  BY <1>3, <1>4, BlankBefore DEF Born
<1> QED
  BY <1>2, <1>3, <1>5

\* A nameless reference nobody keeps.
LEMMA ShowsLost ==
  ASSUME NEW h, NEW K, NEW H, Shows(h, K, H), NEW n, n \in h.isRef, h.string[n] = NULL
  PROVE  Shows(h, K, H \ {n})
BY DEF Shows, Rooted

\* A new name for a root changes the names alone, and frees what it should.
LEMMA NamedItem ==
  ASSUME NEW h, NEW K, NEW H, Shows(h, K, H), NEW e \in H, NEW name \in Keys \cup {NULL},
         NEW c \in BOOLEAN
  PROVE  /\ Shows(NameItem(h, e, name, c), K, H)
         /\ NameItem(h, e, name, c).alive = h.alive /\ NameItem(h, e, name, c).isRef = h.isRef
         /\ NameItem(h, e, name, c).next = h.next /\ NameItem(h, e, name, c).child = h.child
<1>1. h \in Heaps /\ e \in Nodes /\ e \in h.alive /\ ~h.wild
  BY HeldIsRoot DEF Shows, Named
<1>2. PICK f : f = FreeName(h, e)
  OBVIOUS
<1>3. /\ f \in Heaps /\ f.child = h.child /\ f.next = h.next /\ f.prev = h.prev
      /\ f.string = h.string /\ f.alive = h.alive /\ f.isRef = h.isRef /\ f.isConst = h.isConst
      /\ f.copied = h.copied \ {e} /\ f.wild = FALSE
  <2>1. CASE e \in h.isConst \/ h.string[e] = NULL
    <3>1. f = h /\ e \notin h.copied
      BY <1>1, <1>2, <2>1 DEF FreeName, Shows, Named
    <3>2. h.wild = FALSE
      <4>1. h.wild \in BOOLEAN
        BY <1>1, HeapFields
      <4> QED
        BY <1>1, <4>1, Zenon
    <3> QED
      BY <1>1, <3>1, <3>2
  <2>2. CASE ~(e \in h.isConst \/ h.string[e] = NULL)
    <3>1. e \in h.copied
      BY <1>1, <2>2 DEF Shows, Named
    <3>2. f = [h EXCEPT !.copied = @ \ {e}, !.wild = @ \/ e \notin h.copied]
      BY <1>2, <2>2 DEF FreeName
    <3>3. f \in Heaps /\ f.wild = (h.wild \/ e \notin h.copied)
      BY <1>1, <3>2 DEF Heaps
    <3>4. f.wild = FALSE
      BY <1>1, <3>1, <3>3, Zenon
    <3> QED
      BY <1>1, <3>2, <3>3, <3>4 DEF Heaps
  <2> QED
    BY <2>1, <2>2
<1>4. PICK g : g = NameItem(h, e, name, c)
  OBVIOUS
<1>5. /\ g \in Heaps /\ g.child = f.child /\ g.next = f.next /\ g.prev = f.prev
      /\ g.string = [f.string EXCEPT ![e] = name] /\ g.alive = f.alive /\ g.isRef = f.isRef
      /\ g.isConst = (IF c THEN f.isConst \cup {e} ELSE f.isConst \ {e})
      /\ g.copied = (IF c \/ name = NULL THEN f.copied ELSE f.copied \cup {e}) /\ g.wild = f.wild
  BY <1>1, <1>2, <1>3, <1>4, ZenonT(40) DEF NameItem, Heaps
<1>6. g.string[e] = name /\ \A m \in Nodes : m # e => g.string[m] = h.string[m]
  BY <1>1, <1>3, <1>5, HeapFields
<1>7. Named(g)
  <2>1. ASSUME NEW m \in Nodes
        PROVE  m \in g.copied <=> m \in g.alive /\ g.string[m] # NULL /\ m \notin g.isConst
    <3>1. CASE m = e
      BY <1>1, <1>3, <1>5, <1>6, <3>1
    <3>2. CASE m # e
      BY <1>3, <1>5, <1>6, <3>2 DEF Shows, Named
    <3> QED
      BY <3>1, <3>2
  <2> QED
    BY <1>3, <1>5, <2>1 DEF Named
<1>8. Laid(g, K)
  <2>1. \A a \in Nodes : Row(g, a, K[a]) <=> Row(h, a, K[a])
    BY <1>3, <1>5 DEF Row
  <2> QED
    BY <1>3, <1>5, <2>1 DEF Shows, Laid
<1>9. Rooted(g, K, H)
  <2>1. h.alive \in SUBSET Nodes
    BY <1>1, HeapFields
  <2>2. ASSUME NEW m \in g.alive, ~HasParent(K, m)
        PROVE  g.next[m] = NULL /\ (m \in H \/ (m \in g.isRef /\ g.string[m] = NULL))
    BY <1>3, <1>5, <1>6, <2>1, <2>2 DEF Shows, Rooted
  <2> QED
    BY <1>3, <1>5, <2>2 DEF Shows, Rooted
<1>10. Cleared(g)
  <2>1. ASSUME NEW m \in Nodes \ g.alive
        PROVE  /\ g.child[m] = NULL /\ g.next[m] = NULL /\ g.string[m] = NULL
               /\ m \notin g.isRef /\ m \notin g.isConst
    <3>1. m # e /\ m \in Nodes \ h.alive
      BY <1>1, <1>3, <1>5
    <3> QED
      BY <1>3, <1>5, <1>6, <3>1 DEF Shows, Cleared
  <2> QED
    BY <2>1 DEF Cleared
<1> QED
  BY <1>3, <1>4, <1>5, <1>7, <1>8, <1>9, <1>10 DEF Shows

\* add_item_to_object names a root and appends it.
LEMMA ShowsEntered ==
  ASSUME NEW h, NEW K, NEW H, Shows(h, K, H), NEW a \in Nodes, a \in h.alive, a \notin h.isRef,
         NEW e \in H, a \notin Under(K, e), NEW name \in Keys \cup {NULL}, NEW c \in BOOLEAN
  PROVE  Shows(add_item_to_object(h, a, name, e, c),
               [K EXCEPT ![a] = InsertAt(K[a], Len(K[a]) + 1, e)], H \ {e})
<1>1. e \in Nodes /\ K \in Rows
  BY HeldIsRoot DEF Shows, Forest
<1>2. a # e
  BY <1>1, UnderIsLeast
<1>3. e # NULL
  BY <1>1, TreeAssumption
<1>4. PICK g : g = NameItem(h, e, name, c)
  OBVIOUS
<1>5. add_item_to_object(h, a, name, e, c) = add_item_to_array(g, a, e)
  BY <1>2, <1>3, <1>4 DEF add_item_to_object
<1>6. Shows(g, K, H) /\ g.alive = h.alive /\ g.isRef = h.isRef
  BY <1>4, NamedItem
<1>7. a \in g.alive /\ a \notin g.isRef
  BY <1>6
<1>8. Shows(add_item_to_array(g, a, e),
               [K EXCEPT ![a] = InsertAt(K[a], Len(K[a]) + 1, e)], H \ {e})
  BY ONLY <1>6, <1>7, a \in Nodes, e \in H, a \notin Under(K, e), ShowsAppended
<1> QED
  BY <1>5, <1>8

\* An item looked up by name is one of the children.
LEMMA ObjectItem ==
  ASSUME NEW h, NEW K, NEW H, Shows(h, K, H), NEW a \in Nodes, a \notin h.isRef,
         NEW name, NEW cs
  PROVE  \/ get_object_item(h, a, name, cs) = NULL
         \/ \E p \in 1 .. Len(K[a]) : get_object_item(h, a, name, cs) = K[a][p]
<1> DEFINE kids == Kids(h, a)
           Name(i) == h.string[kids[i]] # NULL
           hits == {i \in DOMAIN kids :
                 IF cs
                 THEN h.string[kids[i]] = name /\ \A j \in 1 .. i - 1 : Name(j)
                 ELSE Name(i) /\ Lower[h.string[kids[i]]] = Lower[name]}
           m == CHOOSE i \in hits : \A j \in hits : i <= j
<1>1. get_object_item(h, a, name, cs) = IF hits = {} THEN NULL ELSE kids[m]
  BY DEF get_object_item
<1>2. kids = K[a] /\ K[a] \in Seq(Nodes)
  BY KidsAre, RowOf
<1>3. hits \subseteq 1 .. Len(K[a])
  <2>1. hits \subseteq DOMAIN kids
    OBVIOUS
  <2> QED
    BY <1>2, <2>1
<1> HIDE DEF kids, hits
<1>4. CASE hits # {}
  <2>1. \E i \in hits : \A j \in hits : i <= j
    <3>1. hits \in SUBSET Nat
      BY <1>3
    <3> QED
      BY <1>4, <3>1, LeastNat
  <2>2. m \in hits
    BY <2>1
  <2> HIDE DEF m
  <2> QED
    BY <1>1, <1>2, <1>3, <1>4, <2>2
<1> QED
  BY <1>1, <1>4

-----------------------------------------------------------------------------
\* New lists.

\* The place of n in s, 0 without one.
Place(s, n) == SelectInSeq(s, LAMBDA m : m = n)

\* The place of an item found in a list without repetitions.
LEMMA PlaceIs ==
  ASSUME NEW s \in Seq(Nodes), IsInjective(s), NEW n
  PROVE  /\ ~In(s, n) => Place(s, n) = 0
         /\ \A i \in 1 .. Len(s) : s[i] = n => Place(s, n) = i
<1> DEFINE I == {i \in 1 .. Len(s) : s[i] = n}
<1>1. Place(s, n) = IF I # {} THEN Min(I) ELSE 0
  BY DEF Place, SelectInSeq
<1>2. ~In(s, n) => I = {}
  BY DEF In
<1>3. ASSUME NEW i \in 1 .. Len(s), s[i] = n PROVE I = {i}
  BY <1>3 DEF IsInjective
<1>4. \A i \in Nat : Min({i}) = i
  BY DEF Min
<1> HIDE DEF I
<1>5. ASSUME NEW i \in 1 .. Len(s), s[i] = n PROVE Place(s, n) = i
  <2>1. I = {i} /\ i \in Nat
    BY <1>3, <1>5
  <2>2. I # {}
    BY <2>1
  <2> QED
    BY <1>1, <1>4, <2>1, <2>2
<1> QED
  BY <1>1, <1>2, <1>5

\* g is h with s for the children of a, where q goes before the first.
LinkedUp(h, g, a, s, q) ==
  /\ g \in Heaps /\ Alike(h, g)
  /\ g.child[a] = Nth(s, 1) /\ \A b \in Nodes : b # a => g.child[b] = h.child[b]
  /\ \A n \in Nodes : ~In(s, n) => g.next[n] = h.next[n] /\ g.prev[n] = h.prev[n]
  /\ \A i \in 1 .. Len(s) : /\ g.next[s[i]] = IF i < Len(s) THEN s[i + 1] ELSE h.next[s[i]]
                            /\ g.prev[s[i]] = IF i > 1 THEN s[i - 1] ELSE q

\* What the loops that build a list write.
LEMMA ChainedFields ==
  ASSUME NEW h \in Heaps, NEW a \in Nodes, NEW s \in Seq(Nodes), IsInjective(s), NEW whole \in BOOLEAN
  PROVE  LinkedUp(h, Chained(h, a, s, whole), a, s,
                  IF whole THEN Last(s) ELSE h.prev[Nth(s, 1)])
<1> DEFINE next == [n \in Nodes |-> IF Place(s, n) \in 1 .. Len(s) - 1 THEN s[Place(s, n) + 1]
                                    ELSE h.next[n]]
           prev == [n \in Nodes |-> IF Place(s, n) > 1 THEN s[Place(s, n) - 1]
                                    ELSE IF Place(s, n) = 1 /\ whole THEN Last(s) ELSE h.prev[n]]
           first == IF s = << >> THEN NULL ELSE s[1]
<1>1. Chained(h, a, s, whole) =
        [h EXCEPT !.child[a] = first, !.next = next, !.prev = prev]
  BY DEF Chained, Place
<1>2. first = Nth(s, 1) /\ first \in Ptr
  BY EmptyRow DEF Nth, Ptr
<1>3. \A n \in Nodes : Place(s, n) \in 0 .. Len(s) /\ (Place(s, n) > 0 => s[Place(s, n)] = n)
  BY PlaceIs DEF In
<1>4. next \in [Nodes -> Ptr]
  <2>1. ASSUME NEW n \in Nodes PROVE next[n] \in Ptr
    <3>1. h.next[n] \in Ptr
      BY HeapFields
    <3> QED
      BY <1>3, <3>1 DEF Ptr
  <2> QED
    BY <2>1
<1>5. prev \in [Nodes -> Ptr]
  <2>1. ASSUME NEW n \in Nodes PROVE prev[n] \in Ptr
    <3>1. h.prev[n] \in Ptr
      BY HeapFields
    <3>2. CASE Place(s, n) > 1
      BY <1>3, <3>2 DEF Ptr
    <3>3. CASE Place(s, n) = 1 /\ whole
      <4>1. Len(s) \in 1 .. Len(s)
        BY <1>3, <3>3
      <4> QED
        BY <3>3, <4>1 DEF Ptr, Last
    <3>4. CASE ~(Place(s, n) > 1) /\ ~(Place(s, n) = 1 /\ whole)
      BY <3>1, <3>4
    <3> QED
      BY <3>2, <3>3, <3>4
  <2> QED
    BY <2>1
<1>6. \A n \in Nodes : ~In(s, n) => next[n] = h.next[n] /\ prev[n] = h.prev[n]
  BY PlaceIs
<1>7. ASSUME NEW i \in 1 .. Len(s)
      PROVE  /\ next[s[i]] = IF i < Len(s) THEN s[i + 1] ELSE h.next[s[i]]
             /\ prev[s[i]] = IF i > 1 THEN s[i - 1] ELSE IF whole THEN Last(s) ELSE h.prev[Nth(s, 1)]
  <2>1. Place(s, s[i]) = i /\ s[i] \in Nodes
    BY PlaceIs
  <2>2. next[s[i]] = IF i < Len(s) THEN s[i + 1] ELSE h.next[s[i]]
    BY <2>1
  <2>3. prev[s[i]] = IF i > 1 THEN s[i - 1] ELSE IF whole THEN Last(s) ELSE h.prev[Nth(s, 1)]
    BY <2>1 DEF Nth
  <2> QED
    BY <2>2, <2>3
<1> HIDE DEF next, prev, first
<1>8. PICK g : g = [h EXCEPT !.child[a] = first, !.next = next, !.prev = prev]
  OBVIOUS
<1>9. /\ g \in Heaps /\ Alike(h, g) /\ g.next = next /\ g.prev = prev
      /\ g.child = [h.child EXCEPT ![a] = first]
  BY <1>2, <1>4, <1>5, <1>8 DEF Heaps, Alike
<1>10. g.child[a] = first /\ \A b \in Nodes : b # a => g.child[b] = h.child[b]
  BY <1>9, HeapFields
<1>11. LinkedUp(h, g, a, s, IF whole THEN Last(s) ELSE h.prev[Nth(s, 1)])
  BY <1>2, <1>6, <1>7, <1>9, <1>10 DEF LinkedUp
<1> QED
  BY <1>1, <1>8, <1>11

\* Roots other than a, each once.
Loose(s, a, H) == IsInjective(s) /\ \A n : In(s, n) => n \in H /\ n # a

\* The roots s become the children of the root a.
LEMMA ShowsChained ==
  ASSUME NEW h, NEW K, NEW H, Shows(h, K, H), NEW a \in H, a \notin h.isRef, K[a] = << >>,
         NEW s \in Seq(Nodes), Loose(s, a, H),
         NEW L, L = [K EXCEPT ![a] = s], NEW G, G = {n \in H : ~In(s, n)}
  PROVE  Shows(Chained(h, a, s, TRUE), L, G) /\ L \in Rows
<1>1. IsInjective(s) /\ \A n : In(s, n) => n \in H /\ n # a
  BY DEF Loose
<1>2. h \in Heaps /\ a \in Nodes /\ a \in h.alive /\ ~HasParent(K, a)
  BY HeldIsRoot DEF Shows
<1>3. PICK g : g = Chained(h, a, s, TRUE)
  OBVIOUS
<1>4. LinkedUp(h, g, a, s, Last(s))
  BY <1>2, <1>3, <1>1, ChainedFields
<1>5. \A n : In(s, n) => n \in Nodes /\ n \in h.alive /\ ~HasParent(K, n) /\ h.next[n] = NULL
  BY <1>1, HeldIsRoot
<1>6. Forest(K) /\ K \in Rows /\ \A b \in Nodes : IsInjective(K[b])
  BY DEF Shows, Forest, Apart
<1>7. L \in Rows /\ L[a] = s /\ \A b \in Nodes : b # a => L[b] = K[b]
  BY <1>2, <1>6 DEF Rows
<1>8. \A b, n \in Nodes : Kid(L, b, n) <=> Kid(K, b, n) \/ (b = a /\ In(s, n))
  BY <1>7, EmptyRow DEF Kid
<1>9. \A n \in Nodes : HasParent(L, n) <=> HasParent(K, n) \/ In(s, n)
  BY <1>2, <1>1, <1>8 DEF HasParent
<1>10. Apart(L)
  <2>1. \A b \in Nodes : IsInjective(L[b])
    BY <1>6, <1>7, <1>1
  <2>2. ASSUME NEW b \in Nodes, NEW c \in Nodes, NEW n \in Nodes, Kid(L, b, n), Kid(L, c, n)
        PROVE  b = c
    <3>1. CASE In(s, n)
      BY <1>5, <1>8, <2>2, <3>1 DEF HasParent
    <3>2. CASE ~In(s, n)
      BY <1>6, <1>8, <2>2, <3>2 DEF Forest, Apart
    <3> QED
      BY <3>1, <3>2
  <2> QED
    BY <2>1, <2>2 DEF Apart
<1>11. Founded(L)
  <2>1. ASSUME NEW S \in SUBSET Nodes, \A n \in S : \E b \in S : Kid(L, b, n) PROVE S = {}
    <3>1. ~HasParent(L, a)
      BY <1>2, <1>9, <1>1
    <3>2. a \notin S
      BY <2>1, <3>1 DEF HasParent
    <3>3. \A n \in S : \E b \in S : Kid(K, b, n)
      BY <1>8, <2>1, <3>2
    <3> QED
      BY <1>6, <3>3 DEF Forest, Founded
  <2> QED
    BY <2>1 DEF Founded
<1>12. Forest(L)
  BY <1>7, <1>10, <1>11 DEF Forest
<1>13. Laid(g, L)
  <2>1. Row(g, a, s)
    <3>1. ASSUME NEW i \in 1 .. Len(s)
          PROVE  g.next[s[i]] = Nth(s, i + 1) /\ g.prev[s[i]] = Prv(s, i)
      <4>1. h.next[s[i]] = NULL
        BY <1>5 DEF In
      <4>2. g.next[s[i]] = IF i < Len(s) THEN s[i + 1] ELSE h.next[s[i]]
        BY <1>4 DEF LinkedUp
      <4>3. g.prev[s[i]] = IF i > 1 THEN s[i - 1] ELSE Last(s)
        BY <1>4 DEF LinkedUp
      <4>4. g.next[s[i]] = Nth(s, i + 1)
        BY <4>1, <4>2 DEF Nth
      <4>5. g.prev[s[i]] = Prv(s, i)
        BY <4>3 DEF Prv, Last
      <4> QED
        BY <4>4, <4>5
    <3> QED
      BY <1>4, <3>1 DEF Row, LinkedUp
  <2>2. ASSUME NEW b \in Nodes, b # a, b \in g.alive, b \notin g.isRef PROVE Row(g, b, K[b])
    <3>1. Row(h, b, K[b]) /\ K[b] \in Seq(Nodes)
      BY <1>4, <2>2, RowOf DEF Alike, LinkedUp
    <3>2. ASSUME NEW i \in 1 .. Len(K[b])
          PROVE  g.next[K[b][i]] = h.next[K[b][i]] /\ g.prev[K[b][i]] = h.prev[K[b][i]]
      <4>1. K[b][i] \in Nodes /\ Kid(K, b, K[b][i])
        BY <3>1 DEF Kid, In
      <4>2. ~In(s, K[b][i])
        BY <1>5, <4>1 DEF HasParent
      <4> QED
        BY <1>4, <4>1, <4>2 DEF LinkedUp
    <3>3. g.child[b] = h.child[b]
      BY <1>4, <2>2 DEF LinkedUp
    <3> QED
      BY <3>1, <3>2, <3>3 DEF Row
  <2>3. ASSUME NEW b \in Nodes, ~(b \in g.alive /\ b \notin g.isRef) PROVE L[b] = << >>
    <3>1. b \notin h.alive \ h.isRef
      BY <1>4, <2>3 DEF Alike, LinkedUp
    <3>2. b # a
      BY <1>2, <3>1
    <3> QED
      BY <1>7, <3>1, <3>2, RowOf
  <2>4. ASSUME NEW b \in Nodes
        PROVE  IF b \in g.alive \ g.isRef THEN Row(g, b, L[b]) ELSE L[b] = << >>
    BY <1>7, <2>1, <2>2, <2>3
  <2> QED
    BY <2>4 DEF Laid
<1>14. Rooted(g, L, G)
  <2>1. h.alive \in SUBSET Nodes /\ g.alive = h.alive /\ g.isRef = h.isRef /\ g.string = h.string
    BY <1>2, <1>4, HeapFields DEF LinkedUp, Alike
  <2>2. G \subseteq g.alive
    BY <2>1 DEF Shows, Rooted
  <2>3. ASSUME NEW n \in Nodes, HasParent(L, n) PROVE n \in g.alive /\ n \notin G
    BY <1>5, <1>9, <1>1, <2>1, <2>3 DEF Shows, Rooted
  <2>4. ASSUME NEW n \in g.alive, ~HasParent(L, n)
        PROVE  g.next[n] = NULL /\ (n \in G \/ (n \in g.isRef /\ g.string[n] = NULL))
    <3>1. n \in Nodes /\ n \in h.alive /\ ~HasParent(K, n) /\ ~In(s, n)
      BY <1>9, <2>1, <2>4
    <3>2. g.next[n] = h.next[n]
      BY <1>4, <3>1 DEF LinkedUp
    <3>3. h.next[n] = NULL /\ (n \in H \/ (n \in h.isRef /\ h.string[n] = NULL))
      BY <3>1 DEF Shows, Rooted
    <3> QED
      BY <2>1, <3>1, <3>2, <3>3
  <2> QED
    BY <2>2, <2>3, <2>4 DEF Rooted
<1>15. Cleared(g)
  <2>1. ASSUME NEW n \in Nodes \ g.alive
        PROVE  /\ g.child[n] = NULL /\ g.next[n] = NULL /\ g.string[n] = NULL
               /\ n \notin g.isRef /\ n \notin g.isConst
    <3>1. n \in Nodes \ h.alive /\ n # a /\ ~In(s, n)
      BY <1>2, <1>4, <1>5, <1>1 DEF LinkedUp, Alike
    <3>2. g.child[n] = h.child[n] /\ g.next[n] = h.next[n]
      BY <1>4, <3>1 DEF LinkedUp
    <3>3. g.string = h.string /\ g.isRef = h.isRef /\ g.isConst = h.isConst
      BY <1>4 DEF LinkedUp, Alike
    <3> QED
      BY <3>1, <3>2, <3>3 DEF Shows, Cleared
  <2> QED
    BY <2>1 DEF Cleared
<1>16. Named(g)
  BY <1>4 DEF Shows, Named, Alike, LinkedUp
<1> QED
  BY <1>3, <1>4, <1>7, <1>12, <1>13, <1>14, <1>15, <1>16 DEF Shows, LinkedUp

\* What is below the new list.
LEMMA UnderChained ==
  ASSUME NEW K \in Rows, NEW a \in Nodes, NEW s \in Seq(Nodes), NEW L \in Rows,
         L = [K EXCEPT ![a] = s], NEW D \in SUBSET Nodes, a \in D, \A n : In(s, n) => n \in D,
         \A b \in D, n \in Nodes : b # a /\ Kid(K, b, n) => n \in D
  PROVE  Under(L, a) \subseteq D
<1>1. ASSUME NEW b \in D, NEW n \in Nodes, Kid(L, b, n) PROVE n \in D
  <2>1. L[a] = s /\ (b # a => L[b] = K[b])
    BY DEF Rows
  <2> QED
    BY <1>1, <2>1 DEF Kid
<1> QED
  BY <1>1, UnderIsLeast

\* A list whose first has not been told of the last is deleted like another.
EndsAlike(h, a, s) ==
  cJSON_Delete(Chained(h, a, s, FALSE), a) = cJSON_Delete(Chained(h, a, s, TRUE), a)

\* Whether the first has been told of the last does not matter to a deletion.
LEMMA DeletedAlike ==
  ASSUME NEW h, NEW K, NEW H, Shows(h, K, H), NEW a \in H, a \notin h.isRef, K[a] = << >>,
         NEW s \in Seq(Nodes), Loose(s, a, H)
  PROVE  EndsAlike(h, a, s)
<1>1. IsInjective(s) /\ \A n : In(s, n) => n \in H /\ n # a
  BY DEF Loose
<1>2. h \in Heaps /\ a \in Nodes /\ a \in h.alive /\ ~HasParent(K, a)
  BY HeldIsRoot DEF Shows
<1>3. PICK f : f = Chained(h, a, s, FALSE)
  OBVIOUS
<1>4. PICK g : g = Chained(h, a, s, TRUE)
  OBVIOUS
<1>5. /\ f.child = g.child /\ f.next = g.next /\ Alike(f, g)
  BY <1>2, <1>3, <1>4 DEF Chained, Alike, Heaps
<1>6. /\ \A n \in Nodes : n # Nth(s, 1) => f.prev[n] = g.prev[n]
  <2>1. LinkedUp(h, f, a, s, h.prev[Nth(s, 1)]) /\ LinkedUp(h, g, a, s, Last(s))
    BY <1>2, <1>1, <1>3, <1>4, ChainedFields
  <2>2. ASSUME NEW n \in Nodes, n # Nth(s, 1) PROVE f.prev[n] = g.prev[n]
    <3>1. CASE ~In(s, n)
      BY <2>1, <3>1 DEF LinkedUp
    <3>2. CASE In(s, n)
      <4>1. PICK i \in 1 .. Len(s) : s[i] = n
        BY <3>2 DEF In
      <4>2. i > 1
        BY <2>2, <4>1 DEF Nth
      <4>3. f.prev[s[i]] = s[i - 1] /\ g.prev[s[i]] = s[i - 1]
        BY <2>1, <4>2 DEF LinkedUp
      <4> QED
        BY <4>1, <4>3
    <3> QED
      BY <3>1, <3>2
  <2> QED
    BY <2>2
<1>7. Freed(f, a) = Freed(g, a)
  BY <1>5 DEF Freed, Alike
<1>8. s # << >> => Nth(s, 1) \in Freed(g, a)
  <2>1. ASSUME s # << >> PROVE Nth(s, 1) \in Freed(g, a)
    <3>1. PICK L : L = [K EXCEPT ![a] = s]
      OBVIOUS
    <3>2. PICK G : G = {n \in H : ~In(s, n)}
      OBVIOUS
    <3>3. Shows(g, L, G) /\ L \in Rows
      BY ONLY <1>4, <3>1, <3>2, ShowsChained, Shows(h, K, H), a \in H, a \notin h.isRef,
         K[a] = << >>, s \in Seq(Nodes), Loose(s, a, H)
    <3>4. a \in g.alive /\ a \in G
      BY <1>2, <1>1, <3>2, <3>3 DEF Shows, Rooted
    <3>5. ~HasParent(L, a)
      BY <1>2, <3>3, <3>4 DEF Shows, Rooted
    <3>6. Freed(g, a) = Under(L, a)
      BY <1>2, <3>3, <3>4, <3>5, FreedIs
    <3>7. Kid(L, a, s[1]) /\ s[1] \in Nodes /\ Nth(s, 1) = s[1]
      <4>1. 1 \in 1 .. Len(s)
        BY <2>1
      <4>2. L[a] = s
        BY <1>2, <3>1 DEF Shows, Forest, Rows
      <4> QED
        BY <4>1, <4>2 DEF Kid, In, Nth
    <3> QED
      BY <1>2, <3>3, <3>6, <3>7, UnderIsLeast
  <2> QED
    BY <2>1
<1>9. \A n \in Nodes : n \notin Freed(g, a) => f.prev[n] = g.prev[n]
  <2>1. s = << >> => Nth(s, 1) \notin Nodes
    BY EmptyRow, TreeAssumption
  <2> QED
    BY <1>6, <1>8, <2>1
<1>10. [n \in Nodes |-> IF n \in Freed(f, a) THEN NULL ELSE f.prev[n]]
      = [n \in Nodes |-> IF n \in Freed(g, a) THEN NULL ELSE g.prev[n]]
  BY <1>7, <1>9
<1>11. cJSON_Delete(f, a) = cJSON_Delete(g, a)
  BY <1>5, <1>7, <1>10 DEF cJSON_Delete, Alike
<1> QED
  BY <1>3, <1>4, <1>11 DEF EndsAlike

\* New blank items.
LEMMA ShowsBornAll ==
  ASSUME NEW h, NEW K, NEW H, Shows(h, K, H), NEW D \in SUBSET Nodes, D \cap h.alive = {},
         NEW g, g = [h EXCEPT !.alive = @ \cup D]
  PROVE  Shows(g, K, H \cup D) /\ g.isRef = h.isRef /\ \A n \in D : K[n] = << >> /\ n \notin h.isRef
<1>1. h \in Heaps /\ h.alive \in SUBSET Nodes
  BY HeapFields DEF Shows
<1>2. /\ g \in Heaps /\ g.alive = h.alive \cup D /\ g.child = h.child /\ g.next = h.next
      /\ g.prev = h.prev /\ g.string = h.string /\ g.isRef = h.isRef /\ g.isConst = h.isConst
      /\ g.copied = h.copied /\ g.wild = h.wild
  BY <1>1 DEF Heaps
<1>3. \A n \in D : K[n] = << >> /\ ~HasParent(K, n) /\ h.child[n] = NULL /\ h.next[n] = NULL
                   /\ h.string[n] = NULL /\ n \notin h.isRef /\ n \notin h.isConst /\ n \notin h.copied
  <2>1. ASSUME NEW n \in D
        PROVE  K[n] = << >> /\ ~HasParent(K, n) /\ h.child[n] = NULL /\ h.next[n] = NULL
               /\ h.string[n] = NULL /\ n \notin h.isRef /\ n \notin h.isConst /\ n \notin h.copied
    <3>1. n \in Nodes /\ n \notin h.alive
      OBVIOUS
    <3>2. K[n] = << >>
      BY <3>1, RowOf
    <3>3. /\ h.child[n] = NULL /\ h.string[n] = NULL /\ n \notin h.isRef
          /\ n \notin h.isConst /\ n \notin h.copied
      BY <3>1, BlankBefore
    <3>4. ~HasParent(K, n) /\ h.next[n] = NULL
      BY <3>1 DEF Shows, Rooted, Cleared
    <3> QED
      BY <3>2, <3>3, <3>4
  <2> QED
    BY <2>1
<1>4. Laid(g, K)
  <2>1. ASSUME NEW a \in Nodes
        PROVE  IF a \in g.alive \ g.isRef THEN Row(g, a, K[a]) ELSE K[a] = << >>
    <3>1. CASE a \in D
      BY <1>2, <1>3, <3>1, EmptyRow DEF Row
    <3>2. CASE a \notin D
      BY <1>2, <3>2, RowOf DEF Row
    <3> QED
      BY <3>1, <3>2
  <2> QED
    BY <2>1 DEF Laid
<1>5. Rooted(g, K, H \cup D)
  <2>1. ASSUME NEW m \in g.alive, ~HasParent(K, m)
        PROVE  g.next[m] = NULL /\ (m \in H \cup D \/ (m \in g.isRef /\ g.string[m] = NULL))
    BY <1>1, <1>2, <1>3, <2>1 DEF Shows, Rooted
  <2>2. H \cup D \subseteq g.alive
    BY <1>2 DEF Shows, Rooted
  <2>3. ASSUME NEW m \in Nodes, HasParent(K, m) PROVE m \in g.alive /\ m \notin H \cup D
    BY <1>2, <1>3, <2>3 DEF Shows, Rooted
  <2> QED
    BY <2>1, <2>2, <2>3 DEF Rooted
<1>6. Cleared(g) /\ Named(g)
  <2>1. Cleared(g)
    BY <1>2 DEF Shows, Cleared
  <2>2. ASSUME NEW m \in Nodes
        PROVE  m \in g.copied <=> m \in g.alive /\ g.string[m] # NULL /\ m \notin g.isConst
    BY <1>2, <1>3 DEF Shows, Named
  <2> QED
    BY <1>2, <2>1, <2>2 DEF Shows, Named
<1> QED
  BY <1>2, <1>3, <1>4, <1>5, <1>6 DEF Shows

-----------------------------------------------------------------------------
\* Copying.

\* What follows r when the child m is copied.
Onward(fresh, copy, r, m) ==
  LET s == copy[m][r.used][r.heap] IN
  IF ~r.ok THEN r
  ELSE [ok |-> s.ok, heap |-> s.heap, used |-> s.used,
        kids |-> IF s.ok THEN Append(r.kids, fresh[r.used + 1]) ELSE r.kids]

\* CopyKids goes on child by child.
LEMMA CopyKidsIs ==
  ASSUME NEW fresh, NEW kids \in Seq(Nodes), NEW start, NEW copy
  PROVE  \E all : /\ CopyKids(fresh, kids, start, copy) = all[Len(kids)]
                  /\ all[0] = start
                  /\ \A j \in 1 .. Len(kids) : all[j] = Onward(fresh, copy, all[j - 1], kids[j])
<1> DEFINE N == Len(kids)
           Step(r, j) == Onward(fresh, copy, r, kids[j])
           Up(n, f) == f[0] = start /\ \A j \in 1 .. n : f[j] = Step(f[j - 1], j)
           Can(n) == \E f : Up(n, f)
           all[j \in 0 .. N] == LET r == all[j - 1] IN IF j = 0 THEN start ELSE Step(r, j)
<1>1. N \in Nat
  OBVIOUS
<1>2. CopyKids(fresh, kids, start, copy) = all[N]
  BY DEF CopyKids, Onward
<1> HIDE DEF Step
<1>3. Can(0)
  <2>1. Up(0, [j \in {0} |-> start])
    OBVIOUS
  <2> QED
    BY <2>1
<1>4. ASSUME NEW n \in Nat, Can(n) PROVE Can(n + 1)
  <2>1. PICK f : Up(n, f)
    BY <1>4
  <2>2. PICK g : g = [j \in 0 .. n + 1 |-> IF j <= n THEN f[j] ELSE Step(f[n], n + 1)]
    OBVIOUS
  <2>3. g[0] = start
    BY <2>1, <2>2
  <2>4. ASSUME NEW j \in 1 .. n + 1 PROVE g[j] = Step(g[j - 1], j)
    <3>1. CASE j <= n
      <4>1. g[j] = f[j] /\ g[j - 1] = f[j - 1] /\ f[j] = Step(f[j - 1], j)
        BY <2>1, <2>2, <3>1
      <4> QED
        BY <4>1
    <3>2. CASE j = n + 1
      <4>1. g[n + 1] = Step(f[n], n + 1) /\ g[n] = f[n]
        BY <2>2
      <4>2. g[n + 1] = Step(g[n], n + 1) /\ n + 1 - 1 = n
        BY <4>1
      <4> QED
        BY <3>2, <4>2
    <3> QED
      BY <3>1, <3>2
  <2> QED
    BY <2>3, <2>4
<1>5. Can(N)
  <2> HIDE DEF Can
  <2>1. PICK S : S = {n \in Nat : Can(n)}
    OBVIOUS
  <2>2. 0 \in S /\ \A n \in Nat : n \in S => n + 1 \in S
    BY <1>3, <1>4, <2>1
  <2>3. Nat \subseteq S
    BY <2>2, NatUpwards
  <2> QED
    BY <1>1, <2>1, <2>3
<1>6. all[0] = start /\ \A j \in 1 .. N : all[j] = Step(all[j - 1], j)
  <2>1. PICK f : Up(N, f)
    BY <1>5
  <2>2. PICK g : g = [j \in 0 .. N |-> f[j]]
    OBVIOUS
  <2>3. g = [j \in 0 .. N |-> IF j = 0 THEN start ELSE Step(g[j - 1], j)]
    <3>1. ASSUME NEW j \in 0 .. N PROVE g[j] = IF j = 0 THEN start ELSE Step(g[j - 1], j)
      BY <1>1, <2>1, <2>2
    <3> QED
      BY <2>2, <3>1
  <2>4. all = CHOOSE x : x = [j \in 0 .. N |-> IF j = 0 THEN start ELSE Step(x[j - 1], j)]
    OBVIOUS
  <2> HIDE DEF all
  <2>5. all = [j \in 0 .. N |-> IF j = 0 THEN start ELSE Step(all[j - 1], j)]
    BY <2>3, <2>4
  <2>6. ASSUME NEW j \in 0 .. N PROVE all[j] = IF j = 0 THEN start ELSE Step(all[j - 1], j)
    BY <2>5
  <2> QED
    BY <1>1, <2>6
<1> QED
  BY <1>2, <1>6 DEF Step

\* F[k] copies trees of no more than k levels.
Copies(fresh, F) ==
  \A k \in 0 .. Len(fresh), n \in Nodes, g \in Heaps, used \in 0 .. Len(fresh) :
    F[k][n][used][g] = IF k = 0 \/ used = Len(fresh) THEN [ok |-> FALSE, heap |-> g, used |-> used]
                       ELSE CopyTree(fresh, n, g, used, F[k - 1])

\* cJSON_Duplicate is the last of functions each of which uses the one before.
LEMMA DuplicateIs ==
  ASSUME NEW fresh \in Seq(Nodes), NEW h, NEW item
  PROVE  \E F : Copies(fresh, F) /\ cJSON_Duplicate(h, item, fresh) = F[Len(fresh)][item][0][h]
<1> DEFINE M == Len(fresh)
           Level(c, k) == [n \in Nodes |-> [used \in 0 .. M |-> [g \in Heaps |->
                             IF k = 0 \/ used = M THEN [ok |-> FALSE, heap |-> g, used |-> used]
                             ELSE CopyTree(fresh, n, g, used, c)]]]
           Up(m, f) == \A k \in 0 .. m : f[k] = Level(f[k - 1], k)
           Can(m) == \E f : Up(m, f)
           copy[k \in 0 .. M] == Level(copy[k - 1], k)
<1>1. M \in Nat
  OBVIOUS
<1>2. cJSON_Duplicate(h, item, fresh) = copy[M][item][0][h]
  BY DEF cJSON_Duplicate
<1>3. \A c, d : Level(c, 0) = Level(d, 0)
  OBVIOUS
<1>4. ASSUME NEW c, NEW k, NEW n \in Nodes, NEW g \in Heaps, NEW used \in 0 .. M
      PROVE  Level(c, k)[n][used][g] = IF k = 0 \/ used = M THEN [ok |-> FALSE, heap |-> g, used |-> used]
                             ELSE CopyTree(fresh, n, g, used, c)
  OBVIOUS
<1> HIDE DEF Level
<1>5. Can(0)
  <2>1. Up(0, [k \in {0} |-> Level(0, 0)])
    BY <1>3
  <2> QED
    BY <2>1
<1>6. ASSUME NEW n \in Nat, Can(n) PROVE Can(n + 1)
  <2>1. PICK f : Up(n, f)
    BY <1>6
  <2>2. PICK g : g = [j \in 0 .. n + 1 |-> IF j <= n THEN f[j] ELSE Level(f[n], n + 1)]
    OBVIOUS
  <2>3. ASSUME NEW j \in 0 .. n + 1 PROVE g[j] = Level(g[j - 1], j)
    <3>1. CASE j = 0
      BY <1>3, <2>1, <2>2, <3>1
    <3>2. CASE j # 0 /\ j <= n
      <4>1. g[j] = f[j] /\ g[j - 1] = f[j - 1] /\ f[j] = Level(f[j - 1], j)
        BY <2>1, <2>2, <3>2
      <4> QED
        BY <4>1
    <3>3. CASE j = n + 1
      <4>1. g[n + 1] = Level(f[n], n + 1) /\ g[n] = f[n]
        BY <2>2
      <4>2. g[n + 1] = Level(g[n], n + 1) /\ n + 1 - 1 = n
        BY <4>1
      <4> QED
        BY <3>3, <4>2
    <3> QED
      BY <3>1, <3>2, <3>3
  <2> QED
    BY <2>3
<1>7. Can(M)
  <2> HIDE DEF Can
  <2>1. PICK S : S = {n \in Nat : Can(n)}
    OBVIOUS
  <2>2. 0 \in S /\ \A n \in Nat : n \in S => n + 1 \in S
    BY <1>5, <1>6, <2>1
  <2>3. Nat \subseteq S
    BY <2>2, NatUpwards
  <2> QED
    BY <1>1, <2>1, <2>3
<1>8. \A k \in 0 .. M : copy[k] = Level(copy[k - 1], k)
  <2>1. PICK f : Up(M, f)
    BY <1>7
  <2>2. PICK g : g = [k \in 0 .. M |-> f[k]]
    OBVIOUS
  <2>3. g = [k \in 0 .. M |-> Level(g[k - 1], k)]
    <3>1. ASSUME NEW k \in 0 .. M PROVE g[k] = Level(g[k - 1], k)
      <4>1. CASE k = 0
        BY <1>1, <1>3, <2>1, <2>2, <4>1
      <4>2. CASE k # 0
        BY <1>1, <2>1, <2>2, <4>2
      <4> QED
        BY <4>1, <4>2
    <3> QED
      BY <2>2, <3>1
  <2>4. copy = CHOOSE x : x = [k \in 0 .. M |-> Level(x[k - 1], k)]
    OBVIOUS
  <2> HIDE DEF copy
  <2>5. copy = [k \in 0 .. M |-> Level(copy[k - 1], k)]
    BY <2>3, <2>4
  <2> QED
    BY <2>5
<1> HIDE DEF copy
<1>9. Copies(fresh, copy)
  <2>1. ASSUME NEW k \in 0 .. M, NEW n \in Nodes, NEW g \in Heaps, NEW used \in 0 .. M
        PROVE  copy[k][n][used][g] = IF k = 0 \/ used = M THEN [ok |-> FALSE, heap |-> g, used |-> used]
                                     ELSE CopyTree(fresh, n, g, used, copy[k - 1])
    <3>1. copy[k] = Level(copy[k - 1], k)
      BY <1>8
    <3>2. PICK c : c = copy[k - 1]
      OBVIOUS
    <3>3. Level(c, k)[n][used][g] = IF k = 0 \/ used = M THEN [ok |-> FALSE, heap |-> g, used |-> used]
                                    ELSE CopyTree(fresh, n, g, used, c)
      BY <1>4
    <3> QED
      BY <3>1, <3>2, <3>3
  <2> QED
    BY <2>1 DEF Copies
<1> QED
  BY <1>2, <1>9

\* The nodes malloc gives from the u-th on to the v-th.
Taken(fresh, u, v) == {fresh[i] : i \in u + 1 .. v}

\* The children of every item d of D are copies of those of e[d].
Copied(K, L, D, e) ==
  \A d \in D : /\ Len(L[d]) = Len(K[e[d]])
               /\ \A i \in 1 .. Len(L[d]) : L[d][i] \in D /\ e[L[d][i]] = K[e[d]][i]

\* Everything is there to copy n.
Ready(g, K, H, n, fresh, used) ==
  /\ Shows(g, K, H) /\ n \in g.alive /\ Under(K, n) \cap g.isRef = {}
  /\ fresh \in Seq(Nodes) /\ IsInjective(fresh) /\ used \in 0 .. Len(fresh)
  /\ \A i \in used + 1 .. Len(fresh) : fresh[i] \notin g.alive

\* In h the items that g lacks are copies of those below n, new that of n.
Grafted(g, K, H, n, new, h, L, e) ==
  /\ Shows(h, L, H \cup {new}) /\ g.alive \subseteq h.alive /\ h.isRef = g.isRef
  /\ new \in h.alive /\ new \notin g.alive
  /\ \A m \in g.alive : L[m] = K[m]
  /\ e \in [h.alive \ g.alive -> Under(K, n)] /\ e[new] = n
  /\ Copied(K, L, h.alive \ g.alive, e)

\* What is left of an attempt to copy n.
Outcome(g, K, H, n, fresh, used, r) ==
  /\ r.used \in used .. Len(fresh)
  /\ ~r.ok => Shows(r.heap, K, H) /\ r.heap.alive = g.alive /\ r.heap.isRef = g.isRef
  /\ r.ok => /\ r.used > used
             /\ r.heap.alive \subseteq g.alive \cup Taken(fresh, used, r.used)
             /\ \E L, e : Grafted(g, K, H, n, fresh[used + 1], r.heap, L, e)

\* The copier c does what it should, whatever the heap.
Works(fresh, c) ==
  \A n \in Nodes, used \in 0 .. Len(fresh), g \in Heaps, K \in Rows, H \in SUBSET Nodes :
    Ready(g, K, H, n, fresh, used) => Outcome(g, K, H, n, fresh, used, c[n][used][g])

\* Some children of n are copied, the roots r.kids, and new waits for them.
Underway(g, K, H, n, fresh, used, r, L, e) ==
  LET new == fresh[used + 1]
      D   == r.heap.alive \ g.alive
  IN  /\ r.used \in used + 1 .. Len(fresh)
      /\ r.kids \in Seq(Nodes) /\ Len(r.kids) <= Len(K[n])
      /\ Loose(r.kids, new, D)
      /\ \A i \in 1 .. Len(r.kids) : e[r.kids[i]] = K[n][i]
      /\ Shows(r.heap, L, H \cup {new} \cup ToSet(r.kids))
      /\ g.alive \subseteq r.heap.alive /\ r.heap.isRef = g.isRef
      /\ new \in D /\ L[new] = << >> /\ D \subseteq Taken(fresh, used, r.used)
      /\ \A m \in g.alive : L[m] = K[m]
      /\ e \in [D -> Under(K, n)] /\ e[new] = n
      /\ Copied(K, L, D \ {new}, e)

-----------------------------------------------------------------------------

\* Nothing changes below an item whose surroundings stay.
LEMMA UnderSame ==
  ASSUME NEW K \in Rows, NEW L \in Rows, NEW A \in SUBSET Nodes, NEW n \in A,
         \A m \in A, c \in Nodes : Kid(K, m, c) => c \in A, \A m \in A : L[m] = K[m]
  PROVE  Under(L, n) = Under(K, n)
<1>1. \A m \in A, c \in Nodes : Kid(L, m, c) <=> Kid(K, m, c)
  BY DEF Kid
<1>2. Under(K, n) \subseteq A /\ Under(L, n) \subseteq A
  BY <1>1, UnderIsLeast
<1>3. Under(L, n) \subseteq Under(K, n)
  <2>1. \A m \in Under(K, n), c \in Nodes : Kid(L, m, c) => c \in Under(K, n)
    BY <1>1, <1>2, UnderIsLeast
  <2> QED
    BY <2>1, UnderIsLeast
<1>4. Under(K, n) \subseteq Under(L, n)
  <2>1. \A m \in Under(L, n), c \in Nodes : Kid(K, m, c) => c \in Under(L, n)
    BY <1>1, <1>2, UnderIsLeast
  <2> QED
    BY <2>1, UnderIsLeast
<1> QED
  BY <1>3, <1>4

\* The subtree of an item of a subtree is in it.
LEMMA UnderKid ==
  ASSUME NEW K \in Rows, NEW n \in Nodes, NEW m \in Nodes, m \in Under(K, n)
  PROVE  Under(K, m) \subseteq Under(K, n)
BY UnderIsLeast

\* The rows of a heap that shows them stay among allocated items.
LEMMA AliveClosed ==
  ASSUME NEW h, NEW K, NEW H, Shows(h, K, H)
  PROVE  /\ h \in Heaps /\ K \in Rows /\ h.alive \in SUBSET Nodes /\ H \subseteq h.alive
         /\ h.isRef \subseteq h.alive
         /\ \A m \in h.alive, c \in Nodes : Kid(K, m, c) => c \in h.alive
         /\ \A m \in Nodes : m \notin h.alive => K[m] = << >>
<1>1. h \in Heaps /\ K \in Rows /\ h.alive \in SUBSET Nodes /\ H \subseteq h.alive
  BY HeapFields DEF Shows, Forest, Rooted
<1>2. h.isRef \subseteq h.alive
  <2>1. h.isRef \in SUBSET Nodes
    BY <1>1, HeapFields
  <2> QED
    BY <2>1 DEF Shows, Cleared
<1>3. \A m \in h.alive, c \in Nodes : Kid(K, m, c) => c \in h.alive
  BY <1>1 DEF Shows, Rooted, HasParent
<1>4. \A m \in Nodes : m \notin h.alive => K[m] = << >>
  BY RowOf
<1> QED
  BY <1>1, <1>2, <1>3, <1>4

\* The copy of the item alone is the start.
LEMMA StartUnderway ==
  ASSUME NEW g, NEW K, NEW H, NEW n, NEW fresh, NEW used, Ready(g, K, H, n, fresh, used),
         used < Len(fresh), NEW r,
         r = [ok |-> TRUE, heap |-> CopyOf(g, fresh[used + 1], n), used |-> used + 1, kids |-> << >>]
  PROVE  \E L, e : Underway(g, K, H, n, fresh, used, r, L, e)
<1>1. PICK new : new = fresh[used + 1]
  OBVIOUS
<1>2. /\ Shows(g, K, H) /\ n \in Nodes /\ n \in g.alive /\ new \in Nodes /\ new \notin g.alive
      /\ K \in Rows /\ used \in Nat /\ Len(fresh) \in Nat /\ g.alive \in SUBSET Nodes
  <2>1. /\ Shows(g, K, H) /\ n \in g.alive /\ used \in 0 .. Len(fresh) /\ fresh \in Seq(Nodes)
        /\ used + 1 \in 1 .. Len(fresh) /\ used + 1 \in used + 1 .. Len(fresh)
    BY DEF Ready
  <2>2. new \in Nodes /\ new \notin g.alive
    BY <1>1, <2>1 DEF Ready
  <2> QED
    BY <2>1, <2>2, AliveClosed
<1>3. PICK h : h = CopyOf(g, new, n)
  OBVIOUS
<1>4. Born(g, h, new) /\ h.isRef = g.isRef
  BY <1>2, <1>3, CopyBorn
<1>5. Shows(h, K, H \cup {new}) /\ K[new] = << >>
  <2>1. Shows(g, K, H) /\ new \in Nodes /\ new \notin g.alive
    BY <1>2
  <2>2. Born(g, h, new)
    BY <1>4
  <2>3. Shows(h, K, H \cup {new})
    BY ONLY <2>1, <2>2, ShowsBorn
  <2>4. K[new] = << >>
    BY ONLY <2>1, <2>2, ShowsBorn
  <2> QED
    BY <2>3, <2>4
<1>6. PICK e : e = [d \in {new} |-> n]
  OBVIOUS
<1>7. h.alive = g.alive \cup {new} /\ h.alive \ g.alive = {new}
  BY <1>2, <1>4 DEF Born
<1>8. r.heap = h /\ r.used = used + 1 /\ r.kids = << >>
  BY <1>1, <1>3
<1>9. ToSet(<< >>) = {} /\ H \cup {new} \cup {} = H \cup {new}
  BY EmptyRow, InToSet
<1>10. Loose(<< >>, new, {new})
  BY EmptyRow DEF Loose
<1>11. {new} \subseteq Taken(fresh, used, used + 1)
  <2>1. used + 1 \in used + 1 .. used + 1
    BY <1>2
  <2> QED
    BY <1>1, <2>1 DEF Taken
<1>12. e \in [{new} -> Under(K, n)] /\ e[new] = n
  BY <1>2, <1>6, UnderIsLeast
<1>13. K[n] \in Seq(Nodes)
  BY <1>2 DEF Rows
<1>14. Underway(g, K, H, n, fresh, used, r, K, e)
  <2>1. r.used \in used + 1 .. Len(fresh) /\ r.kids \in Seq(Nodes) /\ Len(r.kids) <= Len(K[n])
    BY <1>2, <1>8, <1>13, EmptyRow
  <2>2. \A i \in 1 .. Len(r.kids) : e[r.kids[i]] = K[n][i]
    BY <1>8, EmptyRow
  <2>3. Copied(K, K, {new} \ {new}, e)
    BY DEF Copied
  <2>4. Shows(r.heap, K, H \cup {new} \cup ToSet(r.kids))
    BY <1>5, <1>8, <1>9
  <2>5. g.alive \subseteq r.heap.alive /\ r.heap.isRef = g.isRef /\ r.heap.alive \ g.alive = {new}
    BY <1>4, <1>7, <1>8
  <2>6. Loose(r.kids, new, {new})
    BY <1>8, <1>10
  <2> QED
    BY <1>1, <1>5, <1>8, <1>11, <1>12, <2>1, <2>2, <2>3, <2>4, <2>5, <2>6 DEF Underway
<1> QED
  BY <1>14

\* u is t with e at its end.
Longer(t, e, u) ==
  /\ u \in Seq(Nodes) /\ Len(u) = Len(t) + 1 /\ IsInjective(u)
  /\ \A i \in 1 .. Len(t) : u[i] = t[i]
  /\ u[Len(t) + 1] = e
  /\ \A n : In(u, n) <=> In(t, n) \/ n = e
  /\ ToSet(u) = ToSet(t) \cup {e}

\* A list with one more root.
LEMMA AppendedItems ==
  ASSUME NEW t \in Seq(Nodes), IsInjective(t), NEW e \in Nodes, ~In(t, e), NEW u, u = Append(t, e)
  PROVE  Longer(t, e, u)
<1>1. /\ u \in Seq(Nodes) /\ Len(u) = Len(t) + 1 /\ Len(t) \in Nat
      /\ \A i \in 1 .. Len(t) : u[i] = t[i]
      /\ u[Len(t) + 1] = e
  OBVIOUS
<1>2. \A i \in 1 .. Len(u) : i \in 1 .. Len(t) \/ i = Len(t) + 1
  BY <1>1
<1>3. \A n : In(u, n) <=> In(t, n) \/ n = e
  <2>1. ASSUME NEW n, In(u, n) PROVE In(t, n) \/ n = e
    BY <1>1, <1>2, <2>1 DEF In
  <2>2. ASSUME NEW n, In(t, n) PROVE In(u, n)
    BY <1>1, <2>2 DEF In
  <2>3. In(u, e)
    <3>1. Len(t) + 1 \in 1 .. Len(u)
      BY <1>1
    <3> QED
      BY <1>1, <3>1 DEF In
  <2> QED
    BY <2>1, <2>2, <2>3
<1>4. IsInjective(u)
  <2>1. ASSUME NEW i \in 1 .. Len(u), NEW j \in 1 .. Len(u), u[i] = u[j] PROVE i = j
    <3>1. CASE i \in 1 .. Len(t) /\ j \in 1 .. Len(t)
      BY <1>1, <2>1, <3>1 DEF IsInjective
    <3>2. CASE i = Len(t) + 1 /\ j \in 1 .. Len(t)
      BY <1>1, <2>1, <3>2 DEF In
    <3>3. CASE i \in 1 .. Len(t) /\ j = Len(t) + 1
      BY <1>1, <2>1, <3>3 DEF In
    <3>4. CASE i = Len(t) + 1 /\ j = Len(t) + 1
      BY <3>4
    <3> QED
      BY <1>2, <3>1, <3>2, <3>3, <3>4
  <2> QED
    BY <1>1, <2>1 DEF IsInjective
<1>5. ToSet(u) = ToSet(t) \cup {e}
  BY <1>1, <1>3, InToSet
<1> QED
  BY <1>1, <1>3, <1>4, <1>5 DEF Longer

\* What is used of fresh.
LEMMA MoreTaken ==
  ASSUME NEW fresh, NEW u \in Nat, NEW v \in Nat, NEW w \in Nat, u <= v, v <= w
  PROVE  /\ Taken(fresh, u, v) \subseteq Taken(fresh, u, w)
         /\ Taken(fresh, v, w) \subseteq Taken(fresh, u, w)
BY DEF Taken

\* m, somewhere below n, can be copied after what r has.
NextReady(g, K, L, G, n, m, fresh, r) ==
  /\ Ready(r.heap, L, G, m, fresh, r.used)
  /\ m \in Nodes /\ r.heap \in Heaps /\ L \in Rows /\ G \in SUBSET Nodes
  /\ r.used \in 0 .. Len(fresh)
  /\ Under(L, m) = Under(K, m) /\ Under(K, m) \subseteq Under(K, n)
  /\ Under(K, n) \subseteq g.alive

\* Between two children everything is there to copy the next.
LEMMA ReadyForKid ==
  ASSUME NEW g, NEW K, NEW H, NEW n, NEW fresh, NEW used, Ready(g, K, H, n, fresh, used),
         NEW r, NEW L, NEW e, Underway(g, K, H, n, fresh, used, r, L, e),
         NEW j \in 1 .. Len(K[n]), NEW m, m = K[n][j], NEW G,
         G = H \cup {fresh[used + 1]} \cup ToSet(r.kids)
  PROVE  NextReady(g, K, L, G, n, m, fresh, r)
<1>1. /\ Shows(g, K, H) /\ n \in g.alive /\ n \in Nodes /\ used \in Nat /\ Len(fresh) \in Nat
      /\ K \in Rows /\ g.alive \in SUBSET Nodes /\ fresh \in Seq(Nodes) /\ IsInjective(fresh)
      /\ \A a \in g.alive, c \in Nodes : Kid(K, a, c) => c \in g.alive
      /\ \A i \in used + 1 .. Len(fresh) : fresh[i] \notin g.alive
      /\ Under(K, n) \cap g.isRef = {}
  <2>1. /\ Shows(g, K, H) /\ n \in g.alive /\ used \in 0 .. Len(fresh) /\ fresh \in Seq(Nodes)
        /\ IsInjective(fresh) /\ Under(K, n) \cap g.isRef = {}
        /\ \A i \in used + 1 .. Len(fresh) : fresh[i] \notin g.alive
    BY DEF Ready
  <2> QED
    BY <2>1, AliveClosed
<1>2. /\ Shows(r.heap, L, G) /\ r.used \in used + 1 .. Len(fresh)
      /\ g.alive \subseteq r.heap.alive /\ r.heap.isRef = g.isRef
      /\ r.heap.alive \ g.alive \subseteq Taken(fresh, used, r.used)
      /\ \A a \in g.alive : L[a] = K[a]
  BY DEF Underway
<1>3. r.heap \in Heaps /\ L \in Rows /\ r.heap.alive \in SUBSET Nodes /\ G \in SUBSET Nodes
  BY <1>2, AliveClosed
<1>4. K[n] \in Seq(Nodes) /\ m \in Nodes /\ Kid(K, n, m)
  <2>1. K[n] \in Seq(Nodes)
    BY <1>1 DEF Rows
  <2>2. m \in Nodes
    BY <2>1
  <2> QED
    BY <2>1, <2>2 DEF Kid, In
<1>5. m \in g.alive /\ m \in Under(K, n)
  <2>1. n \in Under(K, n)
    BY <1>1, UnderIsLeast
  <2> QED
    BY <1>1, <1>4, <2>1, UnderIsLeast
<1>6. Under(K, m) \subseteq Under(K, n)
  BY <1>1, <1>4, <1>5, UnderKid
<1>7. Under(K, n) \subseteq g.alive
  BY <1>1, UnderAlive
<1>8. Under(L, m) = Under(K, m)
  <2>1. PICK A : A = g.alive
    OBVIOUS
  <2>2. /\ A \in SUBSET Nodes /\ m \in A /\ (\A a \in A, c \in Nodes : Kid(K, a, c) => c \in A)
        /\ \A a \in A : L[a] = K[a]
    BY <1>1, <1>2, <1>5, <2>1
  <2> QED
    BY <1>1, <1>3, <2>2, UnderSame
<1>9. \A i \in r.used + 1 .. Len(fresh) : fresh[i] \notin r.heap.alive
  <2>1. ASSUME NEW i \in r.used + 1 .. Len(fresh), fresh[i] \in r.heap.alive PROVE FALSE
    <3>1. r.used \in Nat /\ r.used >= used + 1 /\ r.used <= Len(fresh)
      BY <1>1, <1>2
    <3>2. fresh[i] \notin g.alive /\ i \in 1 .. Len(fresh)
      <4>1. i \in used + 1 .. Len(fresh) /\ i \in 1 .. Len(fresh)
        BY <1>1, <3>1
      <4> QED
        BY <1>1, <4>1
    <3>3. fresh[i] \in Taken(fresh, used, r.used)
      BY <1>2, <2>1, <3>2
    <3>4. PICK k \in used + 1 .. r.used : fresh[i] = fresh[k]
      BY <3>3 DEF Taken
    <3>5. k \in 1 .. Len(fresh) /\ k # i
      BY <1>1, <3>1, <3>4
    <3> QED
      BY <1>1, <3>2, <3>4, <3>5 DEF IsInjective
  <2> QED
    BY <2>1
<1>10. m \in r.heap.alive /\ Under(L, m) \cap r.heap.isRef = {} /\ r.used \in 0 .. Len(fresh)
  BY <1>1, <1>2, <1>5, <1>6, <1>8
<1> QED
  BY <1>1, <1>2, <1>3, <1>4, <1>6, <1>7, <1>8, <1>9, <1>10 DEF Ready, NextReady

\* One more child is copied, or what was copied of it is gone again.
LEMMA OnwardUnderway ==
  ASSUME NEW g, NEW K, NEW H, NEW n, NEW fresh, NEW used, Ready(g, K, H, n, fresh, used),
         NEW c, Works(fresh, c),
         NEW r, NEW L, NEW e, Underway(g, K, H, n, fresh, used, r, L, e),
         NEW j \in 1 .. Len(K[n]), r.ok, Len(r.kids) = j - 1,
         NEW q, q = Onward(fresh, c, r, K[n][j])
  PROVE  /\ \E M, f : Underway(g, K, H, n, fresh, used, q, M, f)
         /\ q.ok => Len(q.kids) = j
<1>1. PICK m : m = K[n][j]
  OBVIOUS
<1>2. PICK G : G = H \cup {fresh[used + 1]} \cup ToSet(r.kids)
  OBVIOUS
<1>3. /\ Ready(r.heap, L, G, m, fresh, r.used)
      /\ m \in Nodes /\ r.heap \in Heaps /\ L \in Rows /\ G \in SUBSET Nodes
      /\ r.used \in 0 .. Len(fresh)
      /\ Under(L, m) = Under(K, m) /\ Under(K, m) \subseteq Under(K, n)
      /\ Under(K, n) \subseteq g.alive
  <2>1. NextReady(g, K, L, G, n, m, fresh, r)
    BY ONLY <1>1, <1>2, ReadyForKid, Ready(g, K, H, n, fresh, used), j \in 1 .. Len(K[n]),
       Underway(g, K, H, n, fresh, used, r, L, e)
  <2> QED
    BY <2>1 DEF NextReady
<1>4. PICK s : s = c[m][r.used][r.heap]
  OBVIOUS
<1>5. Outcome(r.heap, L, G, m, fresh, r.used, s)
  BY <1>3, <1>4 DEF Works
<1>6. q = [ok |-> s.ok, heap |-> s.heap, used |-> s.used,
           kids |-> IF s.ok THEN Append(r.kids, fresh[r.used + 1]) ELSE r.kids]
  BY <1>1, <1>4 DEF Onward
<1>7. PICK new : new = fresh[used + 1]
  OBVIOUS
<1>8. PICK D : D = r.heap.alive \ g.alive
  OBVIOUS
<1>9. /\ r.used \in used + 1 .. Len(fresh)
      /\ r.kids \in Seq(Nodes) /\ Len(r.kids) <= Len(K[n])
      /\ Loose(r.kids, new, D)
      /\ \A i \in 1 .. Len(r.kids) : e[r.kids[i]] = K[n][i]
      /\ g.alive \subseteq r.heap.alive /\ r.heap.isRef = g.isRef
      /\ new \in D /\ L[new] = << >> /\ D \subseteq Taken(fresh, used, r.used)
      /\ \A a \in g.alive : L[a] = K[a]
      /\ e \in [D -> Under(K, n)] /\ e[new] = n
      /\ Copied(K, L, D \ {new}, e)
  BY <1>7, <1>8 DEF Underway
<1>10. Shows(r.heap, L, G)
  BY <1>2 DEF Underway
<1>11. used \in Nat /\ r.used \in Nat /\ used + 1 <= r.used /\ Len(fresh) \in Nat /\ fresh \in Seq(Nodes)
  <2>1. used \in 0 .. Len(fresh) /\ fresh \in Seq(Nodes)
    BY DEF Ready
  <2> QED
    BY <1>9, <2>1
<1>12. K[n] \in Seq(Nodes) /\ j \in Nat /\ j <= Len(K[n])
  <2>1. K \in Rows /\ n \in Nodes
    BY AliveClosed DEF Ready
  <2>2. K[n] \in Seq(Nodes)
    BY <2>1 DEF Rows
  <2> QED
    BY <2>2
<1>13. CASE ~s.ok
  <2>1. /\ q.ok = s.ok /\ q.kids = r.kids /\ q.heap = s.heap /\ q.used = s.used
    BY <1>6, <1>13
  <2>2. /\ s.used \in r.used .. Len(fresh) /\ Shows(s.heap, L, G) /\ s.heap.alive = r.heap.alive
        /\ s.heap.isRef = r.heap.isRef
    BY <1>5, <1>13 DEF Outcome
  <2>3. q.used \in used + 1 .. Len(fresh) /\ q.used \in Nat /\ r.used <= q.used
    BY <1>11, <2>1, <2>2
  <2>4. D \subseteq Taken(fresh, used, q.used)
    BY <1>9, <1>11, <2>3, MoreTaken
  <2>5. Shows(q.heap, L, H \cup {new} \cup ToSet(q.kids))
    BY <1>2, <1>7, <2>1, <2>2
  <2>6. q.heap.alive = r.heap.alive /\ q.heap.isRef = r.heap.isRef /\ q.kids = r.kids
    BY <2>1, <2>2
  <2>7. Underway(g, K, H, n, fresh, used, q, L, e)
    BY ONLY <1>7, <1>8, <1>9, <2>3, <2>4, <2>5, <2>6 DEF Underway
  <2> QED
    BY <1>13, <2>1, <2>7
<1>14. CASE s.ok
  <2>1. PICK t : t = Append(r.kids, fresh[r.used + 1])
    OBVIOUS
  <2>2. /\ q.ok = s.ok /\ q.kids = t /\ q.heap = s.heap /\ q.used = s.used
    BY <1>6, <1>14, <2>1
  <2>3. PICK b : b = fresh[r.used + 1]
    OBVIOUS
  <2>4. PICK M, e2 : Grafted(r.heap, L, G, m, b, s.heap, M, e2)
    BY <1>5, <1>14, <2>3 DEF Outcome
  <2>5. /\ s.used \in r.used .. Len(fresh) /\ s.used > r.used
        /\ s.heap.alive \subseteq r.heap.alive \cup Taken(fresh, r.used, s.used)
    BY <1>5, <1>14 DEF Outcome
  <2>6. PICK D2 : D2 = s.heap.alive \ r.heap.alive
    OBVIOUS
  <2>7. /\ Shows(s.heap, M, G \cup {b}) /\ r.heap.alive \subseteq s.heap.alive
        /\ s.heap.isRef = r.heap.isRef /\ b \in D2
        /\ \A a \in r.heap.alive : M[a] = L[a]
        /\ e2 \in [D2 -> Under(L, m)] /\ e2[b] = m /\ Copied(L, M, D2, e2)
    BY <2>4, <2>6 DEF Grafted
  <2>8. b \in Nodes /\ ~In(r.kids, b) /\ IsInjective(r.kids)
    <3>1. r.used + 1 \in 1 .. Len(fresh)
      BY <1>11, <2>5
    <3>2. b \in Nodes
      BY <1>11, <2>3, <3>1
    <3>3. \A a : In(r.kids, a) => a \in D
      BY <1>9 DEF Loose
    <3>4. b \notin D
      BY <1>8, <2>6, <2>7
    <3> QED
      BY <1>9, <3>2, <3>3, <3>4 DEF Loose
  <2>9. /\ t \in Seq(Nodes) /\ Len(t) = j /\ IsInjective(t)
        /\ \A i \in 1 .. Len(r.kids) : t[i] = r.kids[i]
        /\ t[j] = b
        /\ \A a : In(t, a) <=> In(r.kids, a) \/ a = b
        /\ ToSet(t) = ToSet(r.kids) \cup {b}
    <3>1. /\ t \in Seq(Nodes) /\ Len(t) = Len(r.kids) + 1 /\ IsInjective(t)
          /\ \A i \in 1 .. Len(r.kids) : t[i] = r.kids[i]
          /\ t[Len(r.kids) + 1] = b
          /\ \A a : In(t, a) <=> In(r.kids, a) \/ a = b
          /\ ToSet(t) = ToSet(r.kids) \cup {b}
      <4>1. r.kids \in Seq(Nodes) /\ t = Append(r.kids, b)
        BY <1>9, <2>1, <2>3
      <4>2. PICK x : x = r.kids
        OBVIOUS
      <4>3. x \in Seq(Nodes) /\ IsInjective(x) /\ b \in Nodes /\ ~In(x, b) /\ t = Append(x, b)
        BY <2>8, <4>1, <4>2
      <4>4. Longer(x, b, t)
        BY ONLY <4>3, AppendedItems
      <4> QED
        BY <4>2, <4>4 DEF Longer
    <3>2. Len(r.kids) + 1 = j
      BY <1>12
    <3> QED
      BY <3>1, <3>2
  <2>10. PICK f : f = [d \in D \cup D2 |-> IF d \in D THEN e[d] ELSE e2[d]]
    OBVIOUS
  <2>11. /\ D \cap D2 = {} /\ q.heap.alive \ g.alive = D \cup D2
         /\ g.alive \subseteq q.heap.alive /\ q.heap.isRef = g.isRef
    BY <1>8, <1>9, <2>2, <2>6, <2>7
  <2>12. (\A d \in D : f[d] = e[d]) /\ (\A d \in D2 : f[d] = e2[d]) /\ f \in [D \cup D2 -> Under(K, n)]
    <3>1. \A d \in D2 : e2[d] \in Under(K, n)
      BY <1>3, <2>7
    <3> QED
      BY <1>9, <2>10, <2>11, <3>1
  <2>13. /\ q.used \in used + 1 .. Len(fresh) /\ q.used \in Nat /\ r.used <= q.used
    BY <1>11, <2>2, <2>5
  <2>14. D \cup D2 \subseteq Taken(fresh, used, q.used)
    <3>1. D2 \subseteq Taken(fresh, r.used, q.used)
      BY <2>2, <2>5, <2>6
    <3>2. PICK v : v = q.used
      OBVIOUS
    <3>3. used \in Nat /\ r.used \in Nat /\ v \in Nat /\ used <= r.used /\ r.used <= v
      BY <1>11, <2>13, <3>2
    <3>4. /\ Taken(fresh, used, r.used) \subseteq Taken(fresh, used, v)
          /\ Taken(fresh, r.used, v) \subseteq Taken(fresh, used, v)
      BY ONLY <3>3, MoreTaken
    <3> QED
      BY <1>9, <3>1, <3>2, <3>4
  <2>15. Shows(q.heap, M, H \cup {new} \cup ToSet(q.kids))
    <3>1. G \cup {b} = H \cup {new} \cup ToSet(q.kids)
      BY <1>2, <1>7, <2>2, <2>9
    <3> QED
      BY <2>2, <2>7, <3>1
  <2>16. Loose(q.kids, new, D \cup D2)
    <3>1. \A a : In(r.kids, a) => a \in D /\ a # new
      BY <1>9 DEF Loose
    <3>2. b # new
      BY <1>9, <2>7, <2>11
    <3> QED
      BY <2>2, <2>7, <2>9, <3>1, <3>2 DEF Loose
  <2>17. \A i \in 1 .. Len(q.kids) : f[q.kids[i]] = K[n][i]
    <3>1. ASSUME NEW i \in 1 .. j PROVE f[t[i]] = K[n][i]
      <4>1. CASE i < j
        <5>1. i \in 1 .. Len(r.kids) /\ t[i] = r.kids[i] /\ In(r.kids, r.kids[i])
          BY <1>12, <2>9, <4>1 DEF In
        <5>2. r.kids[i] \in D
          BY <1>9, <5>1 DEF Loose
        <5> QED
          BY <1>9, <2>12, <5>1, <5>2
      <4>2. CASE i = j
        BY <1>1, <2>7, <2>9, <2>12, <4>2
      <4> QED
        BY <1>12, <4>1, <4>2
    <3> QED
      BY <2>2, <2>9, <3>1
  <2>18. M[new] = << >> /\ \A a \in g.alive : M[a] = K[a]
    BY <1>8, <1>9, <2>7
  <2>19. Copied(K, M, (D \cup D2) \ {new}, f)
    <3>1. ASSUME NEW d \in (D \cup D2) \ {new}
          PROVE  /\ Len(M[d]) = Len(K[f[d]])
                 /\ \A i \in 1 .. Len(M[d]) : M[d][i] \in (D \cup D2) \ {new} /\ f[M[d][i]] = K[f[d]][i]
      <4>1. CASE d \in D
        <5>1. M[d] = L[d] /\ f[d] = e[d]
          BY <1>8, <2>7, <2>12, <4>1
        <5>2. /\ Len(L[d]) = Len(K[e[d]])
              /\ \A i \in 1 .. Len(L[d]) : L[d][i] \in D \ {new} /\ e[L[d][i]] = K[e[d]][i]
          BY <1>9, <3>1, <4>1 DEF Copied
        <5> QED
          BY <2>12, <5>1, <5>2
      <4>2. CASE d \in D2
        <5>1. f[d] = e2[d] /\ e2[d] \in g.alive /\ L[e2[d]] = K[e2[d]]
          BY <1>3, <1>9, <2>7, <2>12, <4>2
        <5>2. /\ Len(M[d]) = Len(L[e2[d]])
              /\ \A i \in 1 .. Len(M[d]) : M[d][i] \in D2 /\ e2[M[d][i]] = L[e2[d]][i]
          BY <2>7, <4>2 DEF Copied
        <5>3. new \notin D2
          BY <1>9, <2>11
        <5> QED
          BY <2>12, <5>1, <5>2, <5>3
      <4> QED
        BY <4>1, <4>2
    <3> QED
      BY <3>1 DEF Copied
  <2>20. q.kids \in Seq(Nodes) /\ Len(q.kids) <= Len(K[n]) /\ new \in D \cup D2 /\ f[new] = n
    BY <1>9, <1>12, <2>2, <2>9, <2>12
  <2>21. Underway(g, K, H, n, fresh, used, q, M, f)
    BY <1>7, <2>11, <2>12, <2>13, <2>14, <2>15, <2>16, <2>17, <2>18, <2>19, <2>20 DEF Underway
  <2> QED
    BY <2>2, <2>9, <2>21
<1> QED
  BY <1>13, <1>14

\* g with the children of new in place, its forest L.
Closing(g, K, H, n, fresh, used, r, h, L, e) ==
  LET new == fresh[used + 1]
      D   == r.heap.alive \ g.alive
  IN  /\ Shows(h, L, H \cup {new}) /\ h.alive = r.heap.alive /\ h.isRef = g.isRef
      /\ g.alive \subseteq h.alive /\ new \in D /\ D = Under(L, new)
      /\ L[new] = r.kids /\ \A m \in g.alive : L[m] = K[m]
      /\ e \in [D -> Under(K, n)] /\ e[new] = n
      /\ Copied(K, L, D \ {new}, e)
      /\ \A i \in 1 .. Len(r.kids) : r.kids[i] \in D /\ e[r.kids[i]] = K[n][i]

\* Linking the copies of the children.
LEMMA ChainedClosing ==
  ASSUME NEW g, NEW K, NEW H, NEW n, NEW fresh, NEW used, Ready(g, K, H, n, fresh, used),
         NEW r, NEW L, NEW e, Underway(g, K, H, n, fresh, used, r, L, e),
         NEW new, new = fresh[used + 1]
  PROVE  /\ \E M : Closing(g, K, H, n, fresh, used, r, Chained(r.heap, new, r.kids, TRUE), M, e)
         /\ EndsAlike(r.heap, new, r.kids)
<1>1. PICK t : t = r.kids
  OBVIOUS
<1>2. PICK D : D = r.heap.alive \ g.alive
  OBVIOUS
<1>3. PICK G : G = H \cup {new} \cup ToSet(t)
  OBVIOUS
<1>4. PICK h : h = r.heap
  OBVIOUS
<1>5. /\ t \in Seq(Nodes) /\ Loose(t, new, D)
      /\ \A i \in 1 .. Len(t) : e[t[i]] = K[n][i]
      /\ Shows(h, L, G) /\ g.alive \subseteq h.alive /\ h.isRef = g.isRef
      /\ new \in D /\ L[new] = << >> /\ \A m \in g.alive : L[m] = K[m]
      /\ e \in [D -> Under(K, n)] /\ e[new] = n
      /\ Copied(K, L, D \ {new}, e)
  BY <1>1, <1>2, <1>3, <1>4 DEF Underway
<1>6. /\ g \in Heaps /\ K \in Rows /\ g.alive \in SUBSET Nodes /\ H \subseteq g.alive
      /\ g.isRef \subseteq g.alive
      /\ \A m \in g.alive, c \in Nodes : Kid(K, m, c) => c \in g.alive
  BY AliveClosed DEF Ready
<1>7. /\ h \in Heaps /\ L \in Rows /\ h.alive \in SUBSET Nodes
      /\ \A m \in Nodes : m \notin h.alive => L[m] = << >>
  BY <1>5, AliveClosed
<1>8. /\ IsInjective(t) /\ \A x : In(t, x) => x \in D /\ x # new
      /\ ToSet(t) \in SUBSET Nodes /\ \A x : x \in ToSet(t) <=> In(t, x)
  BY <1>5, InToSet DEF Loose
<1>9. new \in G /\ new \notin h.isRef /\ new \in Nodes /\ Loose(t, new, G)
  <2>1. new \notin h.isRef /\ new \in Nodes
    BY <1>2, <1>4, <1>5, <1>6, <1>7
  <2> QED
    BY <1>3, <1>8, <2>1 DEF Loose
<1>10. PICK M : M = [L EXCEPT ![new] = t]
  OBVIOUS
<1>11. {x \in G : ~In(t, x)} = H \cup {new}
  <2>1. \A x \in H : ~In(t, x)
    BY <1>2, <1>6, <1>8
  <2> QED
    BY <1>3, <1>8, <2>1
<1>12. PICK c : c = Chained(h, new, t, TRUE)
  OBVIOUS
<1>13. Shows(c, M, H \cup {new}) /\ M \in Rows
  <2>1. PICK F : F = {x \in G : ~In(t, x)}
    OBVIOUS
  <2>2. Shows(Chained(h, new, t, TRUE), M, F) /\ M \in Rows
    BY ONLY <1>5, <1>9, <1>10, <2>1, ShowsChained
  <2> QED
    BY <1>11, <1>12, <2>1, <2>2
<1>14. c.alive = h.alive /\ c.isRef = h.isRef
  BY <1>7, <1>12 DEF Chained, Heaps
<1>15. M[new] = t /\ \A m \in Nodes : m # new => M[m] = L[m]
  BY <1>7, <1>9, <1>10 DEF Rows
<1>16. \A m \in g.alive : M[m] = K[m]
  BY <1>2, <1>5, <1>6, <1>15
<1>17. Under(M, new) \subseteq D
  <2>1. D \in SUBSET Nodes
    BY <1>2, <1>4, <1>7
  <2>2. ASSUME NEW b \in D, NEW x \in Nodes, b # new, Kid(L, b, x) PROVE x \in D
    BY <1>5, <2>2 DEF Copied, Kid, In
  <2>3. \A x : In(t, x) => x \in D
    BY <1>8
  <2> QED
    BY <1>5, <1>7, <1>9, <1>10, <1>13, <2>1, <2>2, <2>3, UnderChained
<1>18. D \subseteq Under(M, new)
  <2>1. PICK S : S = D \ Under(M, new)
    OBVIOUS
  <2>2. ASSUME NEW x \in S PROVE \E p \in S : Kid(M, p, x)
    <3>1. x \in D /\ x \in Nodes /\ x \in h.alive /\ x \notin g.alive /\ x # new
      BY <1>2, <1>4, <1>7, <1>9, <1>13, <2>1, UnderIsLeast
    <3>2. HasParent(M, x)
      <4>1. x \notin H \cup {new} /\ x \notin c.isRef /\ x \in c.alive
        BY <1>5, <1>6, <1>14, <3>1
      <4> QED
        BY <1>13, <4>1 DEF Shows, Rooted
    <3>3. PICK p \in Nodes : Kid(M, p, x)
      BY <3>2 DEF HasParent
    <3>4. p \in c.alive
      BY <1>13, <3>1, <3>3, ParentOwns
    <3>5. p \notin g.alive
      BY <1>6, <1>16, <3>1, <3>3 DEF Kid
    <3>6. p \notin Under(M, new)
      BY <1>9, <1>13, <2>1, <3>1, <3>3, UnderIsLeast
    <3> QED
      BY <1>2, <1>4, <1>14, <2>1, <3>3, <3>4, <3>5, <3>6
  <2>3. S \in SUBSET Nodes
    BY <1>2, <1>4, <1>7, <2>1
  <2>4. S = {}
    BY <1>13, <2>2, <2>3 DEF Shows, Forest, Founded
  <2> QED
    BY <2>1, <2>4
<1>19. Copied(K, M, D \ {new}, e)
  <2>1. \A d \in D \ {new} : M[d] = L[d]
    BY <1>2, <1>4, <1>7, <1>15
  <2> QED
    BY <1>5, <2>1 DEF Copied
<1>20. \A i \in 1 .. Len(t) : t[i] \in D /\ e[t[i]] = K[n][i]
  BY <1>5, <1>8 DEF In
<1>21. Closing(g, K, H, n, fresh, used, r, c, M, e)
  BY <1>1, <1>2, <1>4, <1>5, <1>13, <1>14, <1>15, <1>16, <1>17, <1>18, <1>19, <1>20 DEF Closing
<1>22. EndsAlike(h, new, t)
  <2>1. /\ Shows(h, L, G) /\ new \in G /\ new \notin h.isRef /\ L[new] = << >>
        /\ t \in Seq(Nodes) /\ Loose(t, new, G)
    BY <1>5, <1>9
  <2> QED
    BY ONLY <2>1, DeletedAlike
<1> QED
  BY <1>1, <1>4, <1>12, <1>21, <1>22

\* With all of the children, it is a copy.
LEMMA ClosingGrafted ==
  ASSUME NEW g, NEW K, NEW H, NEW n, NEW fresh, NEW used, Ready(g, K, H, n, fresh, used),
         NEW r, NEW h, NEW L, NEW e, Closing(g, K, H, n, fresh, used, r, h, L, e),
         Len(r.kids) = Len(K[n])
  PROVE  Grafted(g, K, H, n, fresh[used + 1], h, L, e)
<1>1. PICK new : new = fresh[used + 1]
  OBVIOUS
<1>2. PICK D : D = r.heap.alive \ g.alive
  OBVIOUS
<1>3. /\ Shows(h, L, H \cup {new}) /\ h.alive = r.heap.alive /\ h.isRef = g.isRef
      /\ g.alive \subseteq h.alive /\ new \in D
      /\ L[new] = r.kids /\ \A m \in g.alive : L[m] = K[m]
      /\ e \in [D -> Under(K, n)] /\ e[new] = n
      /\ Copied(K, L, D \ {new}, e)
      /\ \A i \in 1 .. Len(r.kids) : r.kids[i] \in D /\ e[r.kids[i]] = K[n][i]
  BY <1>1, <1>2 DEF Closing
<1>4. Copied(K, L, D, e)
  <2>1. ASSUME NEW d \in D
        PROVE  /\ Len(L[d]) = Len(K[e[d]])
               /\ \A i \in 1 .. Len(L[d]) : L[d][i] \in D /\ e[L[d][i]] = K[e[d]][i]
    <3>1. CASE d = new
      BY <1>3, <3>1
    <3>2. CASE d # new
      BY <1>3, <3>2 DEF Copied
    <3> QED
      BY <3>1, <3>2
  <2> QED
    BY <2>1 DEF Copied
<1> QED
  BY <1>1, <1>2, <1>3, <1>4 DEF Grafted

\* Deleting what was copied leaves what was there before.
LEMMA ClosingDeleted ==
  ASSUME NEW g, NEW K, NEW H, NEW n, NEW fresh, NEW used, Ready(g, K, H, n, fresh, used),
         NEW r, NEW h, NEW L, NEW e, Closing(g, K, H, n, fresh, used, r, h, L, e),
         NEW new, new = fresh[used + 1], NEW f, f = cJSON_Delete(h, new)
  PROVE  Shows(f, K, H) /\ f.alive = g.alive /\ f.isRef = g.isRef
<1>1. PICK D : D = r.heap.alive \ g.alive
  OBVIOUS
<1>2. /\ Shows(h, L, H \cup {new}) /\ h.alive = r.heap.alive /\ h.isRef = g.isRef
      /\ g.alive \subseteq h.alive /\ new \in D /\ D = Under(L, new)
      /\ \A m \in g.alive : L[m] = K[m]
  BY <1>1 DEF Closing
<1>3. /\ g \in Heaps /\ K \in Rows /\ g.alive \in SUBSET Nodes /\ H \subseteq g.alive
      /\ g.isRef \subseteq g.alive /\ \A m \in Nodes : m \notin g.alive => K[m] = << >>
  BY AliveClosed DEF Ready
<1>4. /\ h \in Heaps /\ L \in Rows /\ h.alive \in SUBSET Nodes
      /\ \A m \in Nodes : m \notin h.alive => L[m] = << >>
  BY <1>2, AliveClosed
<1>5. PICK G : G = H \cup {new}
  OBVIOUS
<1>6. new \in G /\ Shows(h, L, G) /\ G \ {new} = H
  BY <1>1, <1>2, <1>3, <1>5
<1>7. Shows(f, Cut(L, D), H)
  <2>1. Shows(cJSON_Delete(h, new), Cut(L, Under(L, new)), G \ {new})
    BY ONLY <1>6, ShowsDeleted
  <2> QED
    BY <1>2, <1>6, <2>1
<1>8. Cut(L, D) = K
  <2>1. ASSUME NEW m \in Nodes PROVE (IF m \in D THEN << >> ELSE L[m]) = K[m]
    <3>1. CASE m \in g.alive
      BY <1>1, <1>2, <3>1
    <3>2. CASE m \notin g.alive
      BY <1>1, <1>2, <1>3, <1>4, <3>2
    <3> QED
      BY <3>1, <3>2
  <2> QED
    BY <1>3, <2>1 DEF Cut, Rows
<1>9. f.alive = h.alive \ D /\ f.isRef = h.isRef \ D
  <2>1. new \in Nodes /\ new \in h.alive /\ ~HasParent(L, new)
    BY <1>6, HeldIsRoot
  <2>2. Freed(h, new) = D
    BY <1>2, <2>1, FreedIs
  <2>3. D \in SUBSET Nodes
    BY <1>1, <1>2, <1>4
  <2> QED
    BY <1>4, <2>2, <2>3, DeleteFields
<1> QED
  BY <1>1, <1>2, <1>3, <1>7, <1>8, <1>9

\* CopyTree works when what it copies the children with does,
LEMMA CopyTreeWorks ==
  ASSUME NEW fresh, NEW c, Works(fresh, c), NEW g, NEW K, NEW H, NEW n, NEW used,
         Ready(g, K, H, n, fresh, used), used < Len(fresh)
  PROVE  Outcome(g, K, H, n, fresh, used, CopyTree(fresh, n, g, used, c))
<1>1. PICK new : new = fresh[used + 1]
  OBVIOUS
<1>2. PICK start : start = [ok |-> TRUE, heap |-> CopyOf(g, new, n), used |-> used + 1, kids |-> << >>]
  OBVIOUS
<1>3. /\ Shows(g, K, H) /\ n \in g.alive /\ n \in Nodes /\ n \notin g.isRef
      /\ K \in Rows /\ used \in Nat /\ Len(fresh) \in Nat /\ K[n] \in Seq(Nodes)
  <2>1. /\ Shows(g, K, H) /\ n \in g.alive /\ Under(K, n) \cap g.isRef = {} /\ used \in 0 .. Len(fresh)
        /\ fresh \in Seq(Nodes)
    BY DEF Ready
  <2>2. K \in Rows /\ g.alive \in SUBSET Nodes
    BY <2>1, AliveClosed
  <2>3. n \in Under(K, n) /\ K[n] \in Seq(Nodes)
    BY <2>1, <2>2, UnderIsLeast DEF Rows
  <2> QED
    BY <2>1, <2>2, <2>3
<1>4. PICK s : s = K[n]
  OBVIOUS
<1>5. Kids(g, n) = s
  BY <1>3, <1>4, KidsAre
<1>6. PICK all : /\ CopyKids(fresh, s, start, c) = all[Len(s)] /\ all[0] = start
                 /\ \A j \in 1 .. Len(s) : all[j] = Onward(fresh, c, all[j - 1], s[j])
  BY <1>3, <1>4, CopyKidsIs
<1> DEFINE Good(j) == /\ \E L, e : Underway(g, K, H, n, fresh, used, all[j], L, e)
                      /\ all[j].ok => Len(all[j].kids) = j
<1>7. Good(0)
  <2>1. start = [ok |-> TRUE, heap |-> CopyOf(g, fresh[used + 1], n), used |-> used + 1, kids |-> << >>]
    BY <1>1, <1>2
  <2>2. \E L, e : Underway(g, K, H, n, fresh, used, start, L, e)
    BY ONLY <2>1, StartUnderway, Ready(g, K, H, n, fresh, used), used < Len(fresh)
  <2> QED
    BY <1>2, <1>6, <2>2, EmptyRow
<1>8. ASSUME NEW j \in 1 .. Len(s), Good(j - 1) PROVE Good(j)
  <2>1. PICK r : r = all[j - 1]
    OBVIOUS
  <2>2. PICK q : q = all[j]
    OBVIOUS
  <2>3. PICK L, e : Underway(g, K, H, n, fresh, used, r, L, e)
    BY <1>8, <2>1
  <2>4. q = Onward(fresh, c, r, K[n][j])
    BY <1>4, <1>6, <2>1, <2>2
  <2>5. CASE r.ok
    <3>1. Len(r.kids) = j - 1 /\ j \in 1 .. Len(K[n])
      BY <1>4, <1>8, <2>1, <2>5
    <3>2. /\ \E M, f : Underway(g, K, H, n, fresh, used, q, M, f)
          /\ q.ok => Len(q.kids) = j
      BY ONLY <2>3, <2>4, <2>5, <3>1, OnwardUnderway, Ready(g, K, H, n, fresh, used), Works(fresh, c)
    <3> QED
      BY <2>2, <3>2
  <2>6. CASE ~r.ok
    <3>1. q = r
      BY <2>4, <2>6 DEF Onward
    <3> QED
      BY <2>2, <2>3, <2>6, <3>1
  <2> QED
    BY <2>5, <2>6
<1>9. Good(Len(s))
  <2> HIDE DEF Good
  <2>1. PICK S : S = {j \in Nat : j <= Len(s) => Good(j)}
    OBVIOUS
  <2>2. Len(s) \in Nat
    BY <1>3, <1>4
  <2>3. 0 \in S
    BY <1>7, <2>1
  <2>4. ASSUME NEW j \in Nat, j \in S PROVE j + 1 \in S
    <3>1. ASSUME j + 1 <= Len(s) PROVE Good(j + 1)
      <4>1. Good(j)
        BY <2>1, <2>2, <2>4, <3>1
      <4>2. j + 1 \in 1 .. Len(s) /\ j + 1 - 1 = j
        BY <2>2, <3>1
      <4> QED
        BY <1>8, <4>1, <4>2
    <3> QED
      BY <2>1, <3>1
  <2>5. Nat \subseteq S
    BY <2>3, <2>4, NatUpwards
  <2> QED
    BY <2>1, <2>2, <2>5
<1>10. PICK r : r = all[Len(s)]
  OBVIOUS
<1>11. PICK L, e : Underway(g, K, H, n, fresh, used, r, L, e)
  BY <1>9, <1>10
<1>12. PICK whole : whole = Chained(r.heap, new, r.kids, TRUE)
  OBVIOUS
<1>13. /\ \E M : Closing(g, K, H, n, fresh, used, r, whole, M, e)
       /\ cJSON_Delete(Chained(r.heap, new, r.kids, FALSE), new) = cJSON_Delete(whole, new)
  <2>1. \E M : Closing(g, K, H, n, fresh, used, r, Chained(r.heap, new, r.kids, TRUE), M, e)
    BY ONLY <1>1, <1>11, ChainedClosing, Ready(g, K, H, n, fresh, used)
  <2>2. EndsAlike(r.heap, new, r.kids)
    BY ONLY <1>1, <1>11, ChainedClosing, Ready(g, K, H, n, fresh, used)
  <2> QED
    BY <1>12, <2>1, <2>2 DEF EndsAlike
<1>14. PICK M : Closing(g, K, H, n, fresh, used, r, whole, M, e)
  BY <1>13
<1>15. r.used \in used + 1 .. Len(fresh) /\ r.heap.alive \ g.alive \subseteq Taken(fresh, used, r.used)
  BY <1>11 DEF Underway
<1>16. PICK q : q = CopyTree(fresh, n, g, used, c)
  OBVIOUS
<1>17. q = [ok |-> r.ok, used |-> r.used,
            heap |-> IF r.ok THEN Chained(r.heap, new, r.kids, r.ok)
                     ELSE cJSON_Delete(Chained(r.heap, new, r.kids, r.ok), new)]
  BY <1>1, <1>2, <1>5, <1>6, <1>10, <1>16 DEF CopyTree
<1>18. q.used \in used .. Len(fresh) /\ q.used > used /\ q.used = r.used
  BY <1>3, <1>15, <1>17
<1>19. CASE r.ok
  <2>1. Len(r.kids) = Len(K[n])
    BY <1>4, <1>9, <1>10, <1>19
  <2>2. Grafted(g, K, H, n, fresh[used + 1], whole, M, e)
    BY ONLY <1>14, <2>1, ClosingGrafted, Ready(g, K, H, n, fresh, used)
  <2>3. whole.alive = r.heap.alive /\ g.alive \subseteq whole.alive
    BY <1>14 DEF Closing
  <2>4. q.ok = r.ok /\ q.heap = whole
    <3>1. Chained(r.heap, new, r.kids, r.ok) = whole
      BY <1>12, <1>19 DEF Chained
    <3> QED
      BY <1>17, <1>19, <3>1
  <2> QED
    BY <1>15, <1>16, <1>18, <1>19, <2>2, <2>3, <2>4 DEF Outcome
<1>20. CASE ~r.ok
  <2>1. PICK f : f = cJSON_Delete(whole, new)
    OBVIOUS
  <2>2. Shows(f, K, H) /\ f.alive = g.alive /\ f.isRef = g.isRef
    BY ONLY <1>1, <1>14, <2>1, ClosingDeleted, Ready(g, K, H, n, fresh, used)
  <2>3. Chained(r.heap, new, r.kids, r.ok) = Chained(r.heap, new, r.kids, FALSE)
    BY <1>20 DEF Chained
  <2>4. q.ok = r.ok /\ q.heap = f
    BY <1>13, <1>17, <1>20, <2>1, <2>3
  <2> QED
    BY <1>16, <1>18, <1>20, <2>2, <2>4 DEF Outcome
<1> QED
  BY <1>19, <1>20

\* so every function of the sequence works,
LEMMA CopiesWork ==
  ASSUME NEW fresh \in Seq(Nodes), NEW F, Copies(fresh, F), NEW k \in 0 .. Len(fresh)
  PROVE  Works(fresh, F[k])
<1> DEFINE Good(i) == i \in 0 .. Len(fresh) => Works(fresh, F[i])
<1>1. ASSUME NEW i \in 0 .. Len(fresh), i > 0 => Works(fresh, F[i - 1]) PROVE Works(fresh, F[i])
  <2>1. ASSUME NEW n \in Nodes, NEW used \in 0 .. Len(fresh), NEW g \in Heaps, NEW K \in Rows,
               NEW H \in SUBSET Nodes, Ready(g, K, H, n, fresh, used)
        PROVE  Outcome(g, K, H, n, fresh, used, F[i][n][used][g])
    <3>1. F[i][n][used][g] = IF i = 0 \/ used = Len(fresh) THEN [ok |-> FALSE, heap |-> g, used |-> used]
                             ELSE CopyTree(fresh, n, g, used, F[i - 1])
      BY DEF Copies
    <3>2. CASE i = 0 \/ used = Len(fresh)
      <4>1. PICK r : r = [ok |-> FALSE, heap |-> g, used |-> used]
        OBVIOUS
      <4>2. ~r.ok /\ r.heap = g /\ r.used = used
        BY <4>1
      <4>3. Outcome(g, K, H, n, fresh, used, r)
        BY <2>1, <4>2 DEF Outcome, Ready
      <4> QED
        BY <3>1, <3>2, <4>1, <4>3
    <3>3. CASE ~(i = 0 \/ used = Len(fresh))
      <4>1. PICK c : c = F[i - 1]
        OBVIOUS
      <4>2. Works(fresh, c) /\ used < Len(fresh)
        BY <1>1, <3>3, <4>1
      <4>3. Outcome(g, K, H, n, fresh, used, CopyTree(fresh, n, g, used, c))
        BY ONLY <2>1, <4>2, CopyTreeWorks
      <4> QED
        BY <3>1, <3>3, <4>1, <4>3
    <3> QED
      BY <3>2, <3>3
  <2> QED
    BY <2>1 DEF Works
<1>2. Good(0)
  BY <1>1
<1>3. ASSUME NEW i \in Nat, Good(i) PROVE Good(i + 1)
  <2>1. ASSUME i + 1 \in 0 .. Len(fresh) PROVE Works(fresh, F[i + 1])
    <3>1. i \in 0 .. Len(fresh) /\ i + 1 - 1 = i /\ Works(fresh, F[i])
      BY <1>3, <2>1
    <3>2. Works(fresh, F[i + 1 - 1])
      BY <3>1
    <3> QED
      BY <1>1, <2>1, <3>2
  <2> QED
    BY <2>1
<1>4. Good(k)
  <2> HIDE DEF Good
  <2>1. PICK S : S = {i \in Nat : Good(i)}
    OBVIOUS
  <2>2. 0 \in S /\ \A i \in Nat : i \in S => i + 1 \in S
    BY <1>2, <1>3, <2>1
  <2>3. Nat \subseteq S
    BY <2>2, NatUpwards
  <2> QED
    BY <2>1, <2>3
<1> QED
  BY <1>4

\* and so does cJSON_Duplicate: it leaves a copy of the whole subtree or, when
\* malloc fails anywhere, the heap it found.
LEMMA DuplicateWorks ==
  ASSUME NEW h, NEW K, NEW H, NEW item, NEW fresh, Ready(h, K, H, item, fresh, 0)
  PROVE  Outcome(h, K, H, item, fresh, 0, cJSON_Duplicate(h, item, fresh))
<1>1. /\ Shows(h, K, H) /\ fresh \in Seq(Nodes) /\ item \in h.alive
  BY DEF Ready
<1>2. h \in Heaps /\ K \in Rows /\ h.alive \in SUBSET Nodes /\ H \in SUBSET Nodes
  BY <1>1, AliveClosed
<1>3. PICK F : Copies(fresh, F) /\ cJSON_Duplicate(h, item, fresh) = F[Len(fresh)][item][0][h]
  BY <1>1, DuplicateIs
<1>4. Len(fresh) \in 0 .. Len(fresh) /\ 0 \in 0 .. Len(fresh) /\ item \in Nodes
  BY <1>1, <1>2
<1>5. Works(fresh, F[Len(fresh)])
  BY <1>1, <1>3, <1>4, CopiesWork
<1>6. Outcome(h, K, H, item, fresh, 0, F[Len(fresh)][item][0][h])
  BY <1>2, <1>4, <1>5 DEF Works
<1> QED
  BY <1>3, <1>6

-----------------------------------------------------------------------------
\* The steps of a caller.

\* The inductive invariant: the heap shows a forest whose roots the caller
\* holds.
IInv == \E K \in Rows : Shows(heap, K, held)

\* The forest is the one the refinement maps the heap to.
LEMMA ShownIs ==
  ASSUME NEW h, NEW K, NEW H, Shows(h, K, H)
  PROVE  Shown(h) = K
<1>1. K \in Rows /\ h.isRef \subseteq h.alive
  BY AliveClosed
<1>2. ASSUME NEW n \in Nodes PROVE (IF n \in h.isRef THEN << >> ELSE Kids(h, n)) = K[n]
  <2>1. CASE n \in h.isRef
    <3>1. K[n] = << >>
      BY <2>1, RowOf
    <3> QED
      BY <2>1, <3>1
  <2>2. CASE n \notin h.isRef
    BY <2>2, KidsAre
  <2> QED
    BY <2>1, <2>2
<1> QED
  BY <1>1, <1>2 DEF Shown, Rows

\* What the caller reaches from an item is its subtree.
LEMMA BelowIs ==
  ASSUME NEW K, Shows(heap, K, held), NEW n \in Nodes
  PROVE  Below(n) = Under(K, n)
<1>1. K \in Rows
  BY AliveClosed
<1>2. ASSUME NEW m \in Nodes
      PROVE  (IF m \in heap.isRef THEN {} ELSE ToSet(Kids(heap, m))) = ToSet(K[m])
  <2>1. CASE m \in heap.isRef
    <3>1. K[m] = << >>
      BY <2>1, RowOf
    <3> QED
      BY <2>1, <3>1, EmptyRow, InToSet
  <2>2. CASE m \notin heap.isRef
    BY <2>2, KidsAre
  <2> QED
    BY <2>1, <2>2
<1>3. [m \in Nodes |-> IF m \in heap.isRef THEN {} ELSE ToSet(Kids(heap, m))]
      = [m \in Nodes |-> ToSet(K[m])]
  BY <1>2
<1> QED
  BY <1>3 DEF Below, Under

\* What the caller adds to is allocated and no reference.
LEMMA ContainerOwns ==
  ASSUME NEW K, Shows(heap, K, held), NEW a \in Containers
  PROVE  a \in Nodes /\ a \in heap.alive /\ a \notin heap.isRef
<1>1. PICK n \in held : a \in Below(n)
  BY DEF Containers
<1>2. n \in Nodes /\ n \in heap.alive
  BY HeldIsRoot
<1>3. a \in Under(K, n)
  BY <1>1, <1>2, BelowIs
<1>4. Under(K, n) \subseteq heap.alive /\ heap.alive \in SUBSET Nodes
  BY <1>2, AliveClosed, UnderAlive
<1> QED
  BY <1>3, <1>4 DEF Containers

\* What may be put below a is a root that a is not below.
LEMMA TakeIs ==
  ASSUME NEW K, Shows(heap, K, held), NEW a \in Nodes, NEW e, MayTake(a, e)
  PROVE  e \in held /\ e \in Nodes /\ (a = e \/ a \notin Under(K, e))
<1>1. e \in held /\ e \in Nodes
  BY HeldIsRoot DEF MayTake
<1> QED
  BY <1>1, BelowIs DEF MayTake

\* A child is not below itself.
LEMMA KidNotAbove ==
  ASSUME NEW K, Forest(K), NEW a \in Nodes, NEW o \in Nodes, Kid(K, a, o)
  PROVE  a \notin Under(K, o)
<1>1. K \in Rows
  BY DEF Forest
<1>2. ASSUME a \in Under(K, o) PROVE FALSE
  <2>1. \A m \in Under(K, o) : \E b \in Under(K, o) : Kid(K, b, m)
    BY <1>1, <1>2, UnderParent
  <2>2. Under(K, o) \in SUBSET Nodes /\ o \in Under(K, o)
    BY <1>1, UnderIsLeast
  <2> QED
    BY <2>1, <2>2 DEF Forest, Founded
<1> QED
  BY <1>2

\* The place p of a row that e joins counts among the nodes.
LEMMA PlaceCounts ==
  ASSUME NEW h, NEW K, NEW H, Shows(h, K, H), NEW a \in Nodes
  PROVE  Cardinality(Nodes) \in Nat /\ Len(K[a]) \in Nat /\ Len(K[a]) <= Cardinality(Nodes)
BY RowOf, NoLongerThanNodes

\* InsertAt behind the last is Append.
LEMMA InsertedAtEnd ==
  ASSUME NEW s \in Seq(Nodes), NEW e \in Nodes
  PROVE  InsertAt(s, Len(s) + 1, e) = Append(s, e)
<1>1. PICK p : p = Len(s) + 1
  OBVIOUS
<1>2. p \in 1 .. Len(s) + 1 /\ Len(s) \in Nat
  BY <1>1
<1>3. PICK t : t = InsertAt(s, p, e)
  OBVIOUS
<1>4. /\ t \in Seq(Nodes) /\ Len(t) = Len(s) + 1
      /\ \A i \in 1 .. Len(s) + 1 : t[i] = IF i < p THEN s[i] ELSE IF i = p THEN e ELSE s[i - 1]
  <2>1. /\ InsertAt(s, p, e) \in Seq(Nodes) /\ Len(InsertAt(s, p, e)) = Len(s) + 1
        /\ \A i \in 1 .. Len(s) + 1 : InsertAt(s, p, e)[i] =
              IF i < p THEN s[i] ELSE IF i = p THEN e ELSE s[i - 1]
    BY ONLY <1>2, s \in Seq(Nodes), e \in Nodes, Inserted
  <2> QED
    BY <1>3, <2>1
<1>5. PICK u : u = Append(s, e)
  OBVIOUS
<1>6. /\ u \in Seq(Nodes) /\ Len(u) = Len(s) + 1
      /\ \A i \in 1 .. Len(s) + 1 : u[i] = IF i < p THEN s[i] ELSE e
  BY <1>1, <1>5
<1>7. \A i \in 1 .. Len(t) : t[i] = u[i]
  BY <1>1, <1>2, <1>4, <1>6
<1>8. t = u
  BY <1>4, <1>6, <1>7
<1> QED
  BY <1>1, <1>3, <1>5, <1>8

\* What is allocated stays so while links change.
LEMMA AppendKeeps ==
  ASSUME NEW h \in Heaps, NEW a \in Nodes, NEW e \in Nodes
  PROVE  add_item_to_array(h, a, e).alive = h.alive
BY DEF add_item_to_array, suffix_object, Heaps

\* Nor does cJSON_InsertItemInArray allocate or free,
LEMMA InsertKeeps ==
  ASSUME NEW h \in Heaps, NEW a \in Nodes, NEW which, NEW e \in Nodes
  PROVE  cJSON_InsertItemInArray(h, a, which, e).alive = h.alive
<1>1. PICK d : d = get_array_item(h, a, which)
  OBVIOUS
<1>2. CASE d = NULL
  <2>1. cJSON_InsertItemInArray(h, a, which, e) = add_item_to_array(h, a, e)
    BY <1>1, <1>2 DEF cJSON_InsertItemInArray
  <2> QED
    BY <2>1, AppendKeeps
<1>3. CASE d # NULL
  BY <1>1, <1>3 DEF cJSON_InsertItemInArray, Heaps
<1> QED
  BY <1>2, <1>3

\* nor cJSON_DetachItemViaPointer,
LEMMA DetachKeeps ==
  ASSUME NEW h \in Heaps, NEW a \in Nodes, NEW e \in Nodes
  PROVE  cJSON_DetachItemViaPointer(h, a, e).alive = h.alive
<1> DEFINE first == e = h.child[a]
           h1 == IF first THEN h ELSE [h EXCEPT !.next[h.prev[e]] = h.next[e]]
           h2 == IF h1.next[e] = NULL THEN h1
                 ELSE [h1 EXCEPT !.prev[h1.next[e]] = h1.prev[e]]
           h3 == IF first THEN [h2 EXCEPT !.child[a] = h2.next[e]]
                 ELSE IF h2.next[e] = NULL
                      THEN [h2 EXCEPT !.prev[h2.child[a]] = h2.prev[e]]
                 ELSE h2
           Same(x) == x.alive = h.alive /\ DOMAIN x = DOMAIN h
<1>1. DOMAIN h = {"child", "next", "prev", "string", "isRef", "isConst", "copied", "alive", "wild"}
  BY DEF Heaps
<1>2. cJSON_DetachItemViaPointer(h, a, e) = [h3 EXCEPT !.prev[e] = NULL, !.next[e] = NULL]
  BY DEF cJSON_DetachItemViaPointer
<1>3. Same(h1)
  BY <1>1
<1> HIDE DEF h1
<1>4. Same(h2)
  BY <1>1, <1>3
<1> HIDE DEF h2
<1>5. Same(h3)
  BY <1>1, <1>4
<1> HIDE DEF h3
<1> QED
  BY <1>1, <1>2, <1>5

\* nor what a replacement does before it deletes.
LEMMA SwappedKeeps ==
  ASSUME NEW h \in Heaps, NEW a \in Nodes, NEW o \in Nodes, NEW e \in Nodes
  PROVE  Swapped(h, a, o, e).alive = h.alive
<1> DEFINE h1 == [h EXCEPT !.next[e] = h.next[o], !.prev[e] = h.prev[o]]
           h2 == IF h1.next[e] = NULL THEN h1
                 ELSE [h1 EXCEPT !.prev[h1.next[e]] = e]
           first == h2.child[a] = o
           alone == h2.prev[o] = o
           h3 == IF first
                 THEN [h2 EXCEPT !.prev[e] = IF alone THEN e ELSE @, !.child[a] = e]
                 ELSE [h2 EXCEPT !.next[h2.prev[e]] = e,
                                 !.prev[h2.child[a]] = IF h2.next[e] = NULL THEN e ELSE @]
           Same(x) == x.alive = h.alive /\ DOMAIN x = DOMAIN h
<1>1. DOMAIN h = {"child", "next", "prev", "string", "isRef", "isConst", "copied", "alive", "wild"}
  BY DEF Heaps
<1>2. Swapped(h, a, o, e) = [h3 EXCEPT !.next[o] = NULL, !.prev[o] = NULL]
  BY DEF Swapped
<1>3. Same(h1)
  BY <1>1
<1> HIDE DEF h1
<1>4. Same(h2)
  BY <1>1, <1>3
<1> HIDE DEF h2
<1>5. Same(h3)
  BY <1>1, <1>4
<1> HIDE DEF h3
<1> QED
  BY <1>1, <1>2, <1>5

\* cJSON_Delete frees the subtree.
LEMMA DeletedAlive ==
  ASSUME NEW h, NEW K, NEW H, Shows(h, K, H), NEW n \in H
  PROVE  cJSON_Delete(h, n).alive = h.alive \ Under(K, n)
<1>1. n \in Nodes /\ n \in h.alive /\ ~HasParent(K, n)
  BY HeldIsRoot
<1>2. h \in Heaps /\ K \in Rows
  BY AliveClosed
<1>3. Under(K, n) \in SUBSET Nodes
  BY <1>1, <1>2, UnderIsLeast
<1>4. PICK D : D = Under(K, n)
  OBVIOUS
<1>5. D = Freed(h, n) /\ D \in SUBSET Nodes
  BY <1>1, <1>3, <1>4, FreedIs
<1>6. PICK g : g = cJSON_Delete(h, n)
  OBVIOUS
<1>7. g.alive = h.alive \ D
  BY <1>2, <1>5, <1>6, DeleteFields
<1> QED
  BY <1>4, <1>6, <1>7

\* When the row of a loses o, what is below o stays, and can be cut off.
CutsOff(L, K, a, o, t) ==
  /\ Under(L, o) = Under(K, o)
  /\ Cut(L, Under(L, o)) = [Cut(K, Under(K, o)) EXCEPT ![a] = t]

\* A child unlinked and deleted.
LEMMA CutFrom ==
  ASSUME NEW K, Forest(K), NEW a \in Nodes, NEW o \in Nodes, Kid(K, a, o),
         NEW t \in Seq(Nodes), NEW L, L = [K EXCEPT ![a] = t]
  PROVE  CutsOff(L, K, a, o, t)
<1>1. K \in Rows /\ a \notin Under(K, o)
  BY KidNotAbove DEF Forest
<1>2. L \in Rows /\ L[a] = t /\ \A b \in Nodes : b # a => L[b] = K[b]
  BY <1>1 DEF Rows
<1>3. PICK U : U = Under(K, o)
  OBVIOUS
<1>4. U \in SUBSET Nodes /\ o \in U /\ \A m \in U, c \in Nodes : Kid(K, m, c) => c \in U
  BY <1>1, <1>3, UnderIsLeast
<1>5. \A m \in U : L[m] = K[m]
  BY <1>1, <1>2, <1>3, <1>4
<1>6. Under(L, o) = U
  <2>1. o \in U /\ \A m \in U, c \in Nodes : Kid(K, m, c) => c \in U
    BY <1>4
  <2>2. Under(L, o) = Under(K, o)
    BY ONLY <1>1, <1>2, <1>4, <1>5, <2>1, UnderSame
  <2> QED
    BY <1>3, <2>2
<1>7. Cut(L, U) = [Cut(K, U) EXCEPT ![a] = t]
  BY <1>1, <1>2, <1>3 DEF Cut
<1> QED
  BY <1>3, <1>6, <1>7 DEF CutsOff

-----------------------------------------------------------------------------
\* Adding.

\* What a step does to the forest: it shows L to the caller, who holds H.
Becomes(L, H) == L \in Rows /\ Shows(heap', L, held') /\ held' = H

\* Such a step keeps the invariant, and is seen so through the refinement.
LEMMA BecomesInv ==
  ASSUME NEW K, Shows(heap, K, held), NEW L, NEW H, Becomes(L, H)
  PROVE  /\ IInv' /\ Shown(heap) = K /\ Shown(heap)' = L /\ K \in Rows
<1>1. Shows(heap', L, held') /\ L \in Rows
  BY DEF Becomes
<1>2. Shown(heap') = L
  BY <1>1, ShownIs
<1>3. IInv'
  BY <1>1 DEF IInv
<1>4. Shown(heap) = K /\ K \in Rows
  BY AliveClosed, ShownIs
<1> QED
  BY <1>2, <1>3, <1>4

\* The library operators JsonTree uses are those used here: InsertAt,
LEMMA SameInsert ==
  ASSUME NEW s, NEW i, NEW e
  PROVE  Tree!InsertAt(s, i, e) = InsertAt(s, i, e)
BY DEF InsertAt, Tree!InsertAt

\* RemoveAt,
LEMMA SameRemove ==
  ASSUME NEW s, NEW i
  PROVE  Tree!RemoveAt(s, i) = RemoveAt(s, i)
BY DEF RemoveAt, Tree!RemoveAt

\* ReplaceAt,
LEMMA SameReplace ==
  ASSUME NEW s, NEW i, NEW e
  PROVE  Tree!ReplaceAt(s, i, e) = ReplaceAt(s, i, e)
BY DEF ReplaceAt, Tree!ReplaceAt

\* ToSet,
LEMMA SameToSet ==
  ASSUME NEW s
  PROVE  Tree!ToSet(s) = ToSet(s)
BY DEF ToSet, Tree!ToSet

\* Range,
LEMMA SameRange ==
  ASSUME NEW s
  PROVE  Tree!Range(s) = Range(s)
BY DEF Range, Tree!Range

\* IsInjective,
LEMMA SameInj ==
  ASSUME NEW s
  PROVE  Tree!IsInjective(s) = IsInjective(s)
BY DEF IsInjective, Tree!IsInjective

\* Cardinality
LEMMA SameCard ==
  ASSUME NEW S
  PROVE  Tree!Cardinality(S) = Cardinality(S)
BY DEF Cardinality, Tree!Cardinality

\* and Met.
LEMMA SameMet ==
  ASSUME NEW N, NEW r, NEW to
  PROVE  Tree!Met(N, r, to) = Met(N, r, to)
BY SameCard DEF Met, Tree!Met

\* The subtrees of JsonTree.
LEMMA SubtreeIs ==
  ASSUME NEW K, Shown(heap) = K, NEW n
  PROVE  Tree!Subtree(n) = Under(K, n)
<1>1. [m \in Nodes |-> Tree!ToSet(Shown(heap)[m])] = [m \in Nodes |-> ToSet(K[m])]
  BY SameToSet
<1>2. Tree!Subtree(n) = Tree!Met(Nodes, n, [m \in Nodes |-> ToSet(K[m])])
  BY <1>1 DEF Tree!Subtree
<1> QED
  BY <1>2, SameMet DEF Under

\* A step of JsonTree for each change of the forest: a root becomes a child,
LEMMA InsertStep ==
  ASSUME NEW K, Shows(heap, K, held), NEW a \in Nodes, a \in heap.alive,
         NEW e \in held, a \notin Under(K, e), NEW p \in 1 .. Len(K[a]) + 1,
         Becomes([K EXCEPT ![a] = InsertAt(K[a], p, e)], held \ {e}), heap'.alive = heap.alive
  PROVE  IInv' /\ Tree!Next
<1>1. PICK L : L = [K EXCEPT ![a] = InsertAt(K[a], p, e)]
  OBVIOUS
<1>2. Becomes(L, held \ {e})
  BY <1>1
<1>3. IInv' /\ Shown(heap) = K /\ Shown(heap)' = L /\ K \in Rows
  BY <1>2, BecomesInv
<1>4. e \in Nodes
  BY HeldIsRoot
<1>5. p \in 1 .. Cardinality(Nodes)
  <2>1. Len(L[a]) = Len(K[a]) + 1
    <3>1. K[a] \in Seq(Nodes)
      BY <1>3 DEF Rows
    <3>2. L[a] = InsertAt(K[a], p, e)
      BY <1>1, <1>3 DEF Rows
    <3> QED
      BY <1>4, <3>1, <3>2, Inserted
  <2>2. Shows(heap', L, held')
    BY <1>2 DEF Becomes
  <2>3. Cardinality(Nodes) \in Nat /\ Len(K[a]) \in Nat
    BY PlaceCounts
  <2>4. Len(L[a]) <= Cardinality(Nodes)
    BY ONLY <2>2, PlaceCounts, a \in Nodes
  <2> QED
    BY <2>1, <2>3, <2>4
<1>6. a \notin Tree!Subtree(e)
  BY <1>3, SubtreeIs
<1>7. Tree!Insert(a, p, e)
  <2>1. L = [Shown(heap) EXCEPT ![a] = Tree!InsertAt(Shown(heap)[a], p, e)]
    BY <1>1, <1>3, SameInsert
  <2>2. p \in 1 .. Len(Shown(heap)[a]) + 1
    BY <1>3
  <2> QED
    BY <1>2, <1>3, <1>6, <2>1, <2>2 DEF Tree!Insert, Becomes
<1>8. Tree!Next
  BY <1>4, <1>5, <1>7, SameCard DEF Tree!Next
<1> QED
  BY <1>3, <1>8

\* A step keeps the invariant and is one of JsonTree.
Follows == IInv' /\ [Tree!Next]_(Tree!vars)

\* nothing changes,
LEMMA StutterStep ==
  ASSUME NEW K, Shows(heap, K, held), Becomes(K, held), heap'.alive = heap.alive
  PROVE  Follows
<1>1. IInv' /\ Shown(heap) = K /\ Shown(heap)' = K
  BY BecomesInv
<1>2. held' = held
  BY DEF Becomes
<1>3. UNCHANGED Tree!vars
  BY <1>1, <1>2 DEF Tree!vars
<1> QED
  BY <1>1, <1>3 DEF Follows

\* a root is new,
LEMMA CreateStep ==
  ASSUME NEW K, Shows(heap, K, held), NEW n \in Nodes, n \notin heap.alive,
         Becomes(K, held \cup {n}), heap'.alive = heap.alive \cup {n}
  PROVE  Follows
<1>1. IInv' /\ Shown(heap) = K /\ Shown(heap)' = K
  BY BecomesInv
<1>2. Tree!Create(n)
  BY <1>1 DEF Becomes, Tree!Create
<1>3. Tree!Next
  BY <1>2 DEF Tree!Next
<1> QED
  BY <1>1, <1>3 DEF Follows

\* a reference is new and at the end of a row or lost,
LEMMA ReferStep ==
  ASSUME NEW K, Shows(heap, K, held), NEW a \in Nodes, a \in heap.alive,
         NEW n \in Nodes, n \notin heap.alive,
         \/ Becomes([K EXCEPT ![a] = InsertAt(K[a], Len(K[a]) + 1, n)], held)
         \/ Becomes(K, held),
         heap'.alive = heap.alive \cup {n}
  PROVE  Follows
<1>1. CASE Becomes(K, held)
  <2>1. IInv' /\ Shown(heap) = K /\ Shown(heap)' = K
    BY <1>1, BecomesInv
  <2>2. Tree!InsertReference(a, n)
    BY <1>1, <2>1 DEF Becomes, Tree!InsertReference
  <2>3. Tree!Next
    BY <2>2 DEF Tree!Next
  <2> QED
    BY <2>1, <2>3 DEF Follows
<1>2. CASE Becomes([K EXCEPT ![a] = InsertAt(K[a], Len(K[a]) + 1, n)], held)
  <2>1. PICK L : L = [K EXCEPT ![a] = InsertAt(K[a], Len(K[a]) + 1, n)]
    OBVIOUS
  <2>2. Becomes(L, held)
    BY <1>2, <2>1
  <2>3. IInv' /\ Shown(heap) = K /\ Shown(heap)' = L /\ K \in Rows
    BY <2>2, BecomesInv
  <2>4. L = [K EXCEPT ![a] = Append(K[a], n)]
    <3>1. K[a] \in Seq(Nodes)
      BY <2>3 DEF Rows
    <3> QED
      BY <2>1, <3>1, InsertedAtEnd
  <2>5. Tree!InsertReference(a, n)
    BY <2>2, <2>3, <2>4 DEF Becomes, Tree!InsertReference
  <2>6. Tree!Next
    BY <2>5 DEF Tree!Next
  <2> QED
    BY <2>3, <2>6 DEF Follows
<1> QED
  BY <1>1, <1>2

\* The p-th child of a, which some step takes away.
LEMMA PlaceIsNode ==
  ASSUME NEW h, NEW K, NEW H, Shows(h, K, H), NEW a \in Nodes, NEW p \in 1 .. Len(K[a]), NEW o, o = K[a][p]
  PROVE  /\ K[a] \in Seq(Nodes) /\ o \in Nodes /\ Kid(K, a, o) /\ Forest(K)
         /\ o \in h.alive /\ o \notin H /\ p \in 1 .. Cardinality(Nodes)
<1>1. K[a] \in Seq(Nodes) /\ Forest(K)
  BY RowOf DEF Shows
<1>2. o \in Nodes /\ Kid(K, a, o)
  BY <1>1 DEF Kid, In
<1>3. o \in h.alive /\ o \notin H
  BY <1>2, ParentOwns
<1>4. p \in 1 .. Cardinality(Nodes)
  BY <1>1, PlaceCounts
<1> QED
  BY <1>1, <1>2, <1>3, <1>4

\* A child becomes a root.
LEMMA DetachStep ==
  ASSUME NEW K, Shows(heap, K, held), NEW a \in Nodes, a \in heap.alive,
         NEW p \in 1 .. Len(K[a]), NEW o, o = K[a][p],
         Becomes([K EXCEPT ![a] = RemoveAt(K[a], p)], held \cup {o}), heap'.alive = heap.alive
  PROVE  Follows
<1>1. PICK L : L = [K EXCEPT ![a] = RemoveAt(K[a], p)]
  OBVIOUS
<1>2. Becomes(L, held \cup {o})
  BY <1>1
<1>3. IInv' /\ Shown(heap) = K /\ Shown(heap)' = L
  BY <1>2, BecomesInv
<1>4. K[a] \in Seq(Nodes) /\ p \in 1 .. Cardinality(Nodes) /\ p \in DOMAIN K[a]
  BY PlaceIsNode
<1>5. L = [Shown(heap) EXCEPT ![a] = Tree!RemoveAt(Shown(heap)[a], p)]
  BY <1>1, <1>3, SameRemove
<1>6. Tree!Detach(a, p)
  BY <1>2, <1>3, <1>4, <1>5 DEF Tree!Detach, Becomes
<1>7. Tree!Next
  BY <1>4, <1>6, SameCard DEF Tree!Next
<1> QED
  BY <1>3, <1>7 DEF Follows

\* JsonTree cuts off subtrees as the proof does.
LEMMA WithoutIs ==
  ASSUME NEW K, Shown(heap) = K, NEW S
  PROVE  Tree!Without(S) = Cut(K, S)
BY DEF Tree!Without, Cut

\* A child is destroyed,
LEMMA DiscardStep ==
  ASSUME NEW K, Shows(heap, K, held), NEW a \in Nodes, a \in heap.alive,
         NEW p \in 1 .. Len(K[a]), NEW o, o = K[a][p],
         Becomes([Cut(K, Under(K, o)) EXCEPT ![a] = RemoveAt(K[a], p)], held),
         heap'.alive = heap.alive \ Under(K, o)
  PROVE  Follows
<1>1. PICK L : L = [Cut(K, Under(K, o)) EXCEPT ![a] = RemoveAt(K[a], p)]
  OBVIOUS
<1>2. Becomes(L, held)
  BY <1>1
<1>3. IInv' /\ Shown(heap) = K /\ Shown(heap)' = L
  BY <1>2, BecomesInv
<1>4. K[a] \in Seq(Nodes) /\ p \in 1 .. Cardinality(Nodes) /\ p \in DOMAIN K[a] /\ a \notin Under(K, o)
  BY PlaceIsNode, KidNotAbove
<1>5. PICK dead : dead = Under(K, o)
  OBVIOUS
<1>6. Tree!Subtree(Shown(heap)[a][p]) = dead
  BY <1>3, <1>5, SubtreeIs
<1>7. L = [Tree!Without(dead) EXCEPT ![a] = Tree!RemoveAt(Tree!Without(dead)[a], p)]
  <2>1. Tree!Without(dead) = Cut(K, dead) /\ Cut(K, dead)[a] = K[a]
    BY <1>3, <1>4, <1>5, WithoutIs DEF Cut
  <2> QED
    BY <1>1, <1>5, <2>1, SameRemove
<1>8. Tree!Discard(a, p)
  BY <1>2, <1>3, <1>4, <1>5, <1>6, <1>7 DEF Tree!Discard, Becomes
<1>9. Tree!Next
  BY <1>4, <1>8, SameCard DEF Tree!Next
<1> QED
  BY <1>3, <1>9 DEF Follows

\* or replaced,
LEMMA ReplaceStep ==
  ASSUME NEW K, Shows(heap, K, held), NEW a \in Nodes, a \in heap.alive,
         NEW p \in 1 .. Len(K[a]), NEW o, o = K[a][p], NEW e \in held, a \notin Under(K, e),
         Becomes([Cut(K, Under(K, o)) EXCEPT ![a] = ReplaceAt(K[a], p, e)], held \ {e}),
         heap'.alive = heap.alive \ Under(K, o)
  PROVE  Follows
<1>1. PICK L : L = [Cut(K, Under(K, o)) EXCEPT ![a] = ReplaceAt(K[a], p, e)]
  OBVIOUS
<1>2. Becomes(L, held \ {e})
  BY <1>1
<1>3. IInv' /\ Shown(heap) = K /\ Shown(heap)' = L
  BY <1>2, BecomesInv
<1>4. K[a] \in Seq(Nodes) /\ p \in 1 .. Cardinality(Nodes) /\ p \in DOMAIN K[a] /\ a \notin Under(K, o)
  BY PlaceIsNode, KidNotAbove
<1>5. PICK dead : dead = Under(K, o)
  OBVIOUS
<1>6. Tree!Subtree(Shown(heap)[a][p]) = dead /\ a \notin Tree!Subtree(e) /\ e \in Nodes
  BY <1>3, <1>5, SubtreeIs, HeldIsRoot
<1>7. L = [Tree!Without(dead) EXCEPT ![a] = Tree!ReplaceAt(Tree!Without(dead)[a], p, e)]
  <2>1. Tree!Without(dead) = Cut(K, dead) /\ Cut(K, dead)[a] = K[a]
    BY <1>3, <1>4, <1>5, WithoutIs DEF Cut
  <2> QED
    BY <1>1, <1>5, <2>1, SameReplace
<1>8. Tree!Replace(a, p, e)
  BY <1>2, <1>3, <1>4, <1>5, <1>6, <1>7 DEF Tree!Replace, Becomes
<1>9. Tree!Next
  BY <1>4, <1>6, <1>8, SameCard DEF Tree!Next
<1> QED
  BY <1>3, <1>9 DEF Follows

\* or a root is destroyed.
LEMMA DeleteStep ==
  ASSUME NEW K, Shows(heap, K, held), NEW e \in held,
         Becomes(Cut(K, Under(K, e)), held \ {e}), heap'.alive = heap.alive \ Under(K, e)
  PROVE  Follows
<1>1. PICK dead : dead = Under(K, e)
  OBVIOUS
<1>2. PICK L : L = Cut(K, dead)
  OBVIOUS
<1>3. IInv' /\ Shown(heap) = K /\ Shown(heap)' = L
  BY <1>1, <1>2, BecomesInv
<1>4. Tree!Subtree(e) = dead /\ Tree!Without(dead) = L /\ e \in Nodes
  BY <1>1, <1>2, <1>3, SubtreeIs, WithoutIs, HeldIsRoot
<1>5. Tree!Delete(e)
  BY <1>1, <1>3, <1>4 DEF Tree!Delete, Becomes
<1>6. Tree!Next
  BY <1>4, <1>5 DEF Tree!Next
<1> QED
  BY <1>3, <1>6 DEF Follows

\* A step to a heap g that shows L.
LEMMA BecomesIs ==
  ASSUME NEW g, NEW L, NEW H, Shows(g, L, H), heap' = g, held' = H
  PROVE  Becomes(L, H) /\ heap'.alive = g.alive
BY AliveClosed DEF Becomes

\* A root of the caller goes to the end of the children of another item.
LEMMA AppendStep ==
  ASSUME NEW K, Shows(heap, K, held), NEW a \in Nodes, a \in heap.alive,
         NEW e \in held, a \notin Under(K, e),
         NEW g, Shows(g, [K EXCEPT ![a] = InsertAt(K[a], Len(K[a]) + 1, e)], held \ {e}),
         g.alive = heap.alive, heap' = g, held' = held \ {e}
  PROVE  Follows
<1>1. PICK L : L = [K EXCEPT ![a] = InsertAt(K[a], Len(K[a]) + 1, e)]
  OBVIOUS
<1>2. PICK H : H = held \ {e}
  OBVIOUS
<1>3. Shows(g, L, H) /\ heap' = g /\ held' = H
  BY <1>1, <1>2
<1>4. Becomes(L, H) /\ heap'.alive = g.alive
  BY ONLY <1>3, BecomesIs
<1>5. PICK p : p = Len(K[a]) + 1
  OBVIOUS
<1>6. p \in 1 .. Len(K[a]) + 1
  BY <1>5, RowOf
<1>7. Becomes([K EXCEPT ![a] = InsertAt(K[a], p, e)], held \ {e}) /\ heap'.alive = heap.alive
  BY <1>1, <1>2, <1>4, <1>5
<1>8. IInv' /\ Tree!Next
  BY ONLY <1>6, <1>7, InsertStep, Shows(heap, K, held), a \in Nodes, a \in heap.alive,
     e \in held, a \notin Under(K, e)
<1> QED
  BY <1>8 DEF Follows

\* The forest stays as it is.
LEMMA NothingStep ==
  ASSUME NEW K, Shows(heap, K, held), NEW g, Shows(g, K, held), g.alive = heap.alive,
         heap' = g, held' = held
  PROVE  Follows
<1>1. Becomes(K, held) /\ heap'.alive = heap.alive
  BY BecomesIs
<1> QED
  BY <1>1, StutterStep

\* cJSON_AddItemToArray.
LEMMA AddItemToArrayStep ==
  ASSUME NEW K, Shows(heap, K, held), NEW a \in Containers, NEW e, AddItemToArray(a, e)
  PROVE  Follows
<1>1. a \in Nodes /\ a \in heap.alive /\ a \notin heap.isRef
  BY ContainerOwns
<1>2. /\ e \in held /\ e \in Nodes /\ (a = e \/ a \notin Under(K, e))
  BY <1>1, TakeIs DEF AddItemToArray
<1>3. heap' = add_item_to_array(heap, a, e) /\ heap \in Heaps
  BY AliveClosed DEF AddItemToArray
<1>4. CASE a = e
  <2>1. heap' = heap /\ held' = held
    BY <1>3, <1>4 DEF AddItemToArray, Took, add_item_to_array
  <2> QED
    BY <2>1, NothingStep
<1>5. CASE a # e
  <2>1. PICK g : g = add_item_to_array(heap, a, e)
    OBVIOUS
  <2>2. held' = held \ {e}
    BY <1>5 DEF AddItemToArray, Took
  <2>3. g.alive = heap.alive
    BY <1>1, <1>2, <1>3, <2>1, AppendKeeps
  <2>4. a \notin Under(K, e)
    BY <1>2, <1>5
  <2>5. Shows(add_item_to_array(heap, a, e),
              [K EXCEPT ![a] = InsertAt(K[a], Len(K[a]) + 1, e)], held \ {e})
    BY ONLY <1>1, <1>2, <2>4, ShowsAppended, Shows(heap, K, held)
  <2>6. /\ Shows(g, [K EXCEPT ![a] = InsertAt(K[a], Len(K[a]) + 1, e)], held \ {e})
        /\ heap' = g
    BY <1>3, <2>1, <2>5
  <2> QED
    BY ONLY <1>1, <1>2, <2>2, <2>3, <2>4, <2>6, AppendStep, Shows(heap, K, held)
<1> QED
  BY <1>4, <1>5

\* What add_item_to_object leaves.
Enters(g, h, K, H, a, e) ==
  /\ Shows(g, [K EXCEPT ![a] = InsertAt(K[a], Len(K[a]) + 1, e)], H \ {e})
  /\ g.alive = h.alive

\* An item entered into an object keeps its memory.
LEMMA EntersObject ==
  ASSUME NEW h, NEW K, NEW H, Shows(h, K, H), NEW a \in Nodes, a \in h.alive, a \notin h.isRef,
         NEW e \in H, a \notin Under(K, e), NEW name \in Keys \cup {NULL}, NEW c \in BOOLEAN
  PROVE  Enters(add_item_to_object(h, a, name, e, c), h, K, H, a, e)
<1>1. e \in Nodes /\ K \in Rows /\ h \in Heaps
  BY HeldIsRoot, AliveClosed
<1>2. a # e /\ e # NULL
  BY <1>1, UnderIsLeast, TreeAssumption
<1>3. PICK g : g = NameItem(h, e, name, c)
  OBVIOUS
<1>4. add_item_to_object(h, a, name, e, c) = add_item_to_array(g, a, e)
  BY <1>2, <1>3 DEF add_item_to_object
<1>5. Shows(g, K, H) /\ g.alive = h.alive /\ g \in Heaps
  BY <1>3, NamedItem, AliveClosed
<1>6. add_item_to_object(h, a, name, e, c).alive = h.alive
  BY <1>1, <1>4, <1>5, AppendKeeps
<1>7. Shows(add_item_to_object(h, a, name, e, c),
            [K EXCEPT ![a] = InsertAt(K[a], Len(K[a]) + 1, e)], H \ {e})
  BY ShowsEntered
<1> QED
  BY <1>6, <1>7 DEF Enters

\* cJSON_AddItemToObject, with and without memory for the name.
LEMMA AddItemToObjectStep ==
  ASSUME NEW K, Shows(heap, K, held), NEW a \in Containers, NEW e, NEW name \in Given,
         NEW c \in BOOLEAN, AddItemToObject(a, name, e, c)
  PROVE  Follows
<1>1. a \in Nodes /\ a \in heap.alive /\ a \notin heap.isRef
  BY ContainerOwns
<1>2. /\ e \in held /\ e \in Nodes /\ (a = e \/ a \notin Under(K, e))
  BY <1>1, TakeIs DEF AddItemToObject
<1>3. name \in Keys \cup {NULL}
  BY TreeAssumption
<1>4. CASE UNCHANGED vars
  <2>1. heap' = heap /\ held' = held
    BY <1>4 DEF vars
  <2> QED
    BY <2>1, NothingStep
<1>5. CASE heap' = add_item_to_object(heap, a, name, e, c) /\ Took(a, e) /\ a = e
  <2>1. heap' = heap /\ held' = held
    BY <1>5 DEF Took, add_item_to_object
  <2> QED
    BY <2>1, NothingStep
<1>6. CASE heap' = add_item_to_object(heap, a, name, e, c) /\ Took(a, e) /\ a # e
  <2>1. PICK g : g = add_item_to_object(heap, a, name, e, c)
    OBVIOUS
  <2>2. held' = held \ {e} /\ heap' = g
    BY <1>6, <2>1 DEF Took
  <2>3. a \notin Under(K, e)
    BY <1>2, <1>6
  <2>4. Enters(add_item_to_object(heap, a, name, e, c), heap, K, held, a, e)
    BY ONLY <1>1, <1>2, <1>3, <2>3, EntersObject, Shows(heap, K, held), c \in BOOLEAN
  <2>5. Shows(g, [K EXCEPT ![a] = InsertAt(K[a], Len(K[a]) + 1, e)], held \ {e}) /\ g.alive = heap.alive
    BY <2>1, <2>4 DEF Enters
  <2> QED
    BY ONLY <1>1, <1>2, <2>2, <2>3, <2>5, AppendStep, Shows(heap, K, held)
<1> QED
  BY <1>4, <1>5, <1>6 DEF AddItemToObject

\* cJSON_InsertItemInArray.
LEMMA InsertItemInArrayStep ==
  ASSUME NEW K, Shows(heap, K, held), NEW a \in Containers, NEW which \in Indices, NEW e,
         InsertItemInArray(a, which, e)
  PROVE  Follows
<1>1. a \in Nodes /\ a \in heap.alive /\ a \notin heap.isRef
  BY ContainerOwns
<1>2. /\ e \in held /\ e \in Nodes /\ a # e /\ a \notin Under(K, e)
  BY <1>1, TakeIs DEF InsertItemInArray
<1>3. PICK g : g = cJSON_InsertItemInArray(heap, a, which, e)
  OBVIOUS
<1>4. heap' = g /\ held' = held \ {e} /\ heap \in Heaps
  BY <1>2, <1>3, AliveClosed DEF InsertItemInArray, Took
<1>5. g.alive = heap.alive
  BY <1>1, <1>2, <1>3, <1>4, InsertKeeps
<1>6. which \in Nat \ {0}
  BY DEF Indices
<1>7. K[a] \in Seq(Nodes)
  BY RowOf, <1>1
<1>8. CASE which \in 1 .. Len(K[a])
  <2>1. Shows(cJSON_InsertItemInArray(heap, a, which, e),
              [K EXCEPT ![a] = InsertAt(K[a], which, e)], held \ {e})
    BY ONLY <1>1, <1>2, <1>8, ShowsPutBefore, Shows(heap, K, held)
  <2>2. PICK L : L = [K EXCEPT ![a] = InsertAt(K[a], which, e)]
    OBVIOUS
  <2>3. PICK H : H = held \ {e}
    OBVIOUS
  <2>4. Shows(g, L, H) /\ heap' = g /\ held' = H
    BY <1>3, <1>4, <2>1, <2>2, <2>3
  <2>5. Becomes(L, H) /\ heap'.alive = g.alive
    BY ONLY <2>4, BecomesIs
  <2>6. Becomes([K EXCEPT ![a] = InsertAt(K[a], which, e)], held \ {e}) /\ heap'.alive = heap.alive
    BY <1>5, <2>2, <2>3, <2>5
  <2>7. which \in 1 .. Len(K[a]) + 1
    BY <1>7, <1>8
  <2>8. IInv' /\ Tree!Next
    BY ONLY <1>1, <1>2, <2>6, <2>7, InsertStep, Shows(heap, K, held)
  <2> QED
    BY <2>8 DEF Follows
<1>9. CASE which \notin 1 .. Len(K[a])
  <2>1. get_array_item(heap, a, which) = NULL
    BY <1>1, <1>6, <1>9, ArrayItem DEF Nth
  <2>2. g = add_item_to_array(heap, a, e)
    BY <1>3, <2>1 DEF cJSON_InsertItemInArray
  <2>3. Shows(add_item_to_array(heap, a, e),
              [K EXCEPT ![a] = InsertAt(K[a], Len(K[a]) + 1, e)], held \ {e})
    BY ONLY <1>1, <1>2, ShowsAppended, Shows(heap, K, held)
  <2>4. Shows(g, [K EXCEPT ![a] = InsertAt(K[a], Len(K[a]) + 1, e)], held \ {e})
    BY <2>2, <2>3
  <2> QED
    BY ONLY <1>1, <1>2, <1>4, <1>5, <2>4, AppendStep, Shows(heap, K, held)
<1> QED
  BY <1>8, <1>9

\* g is h with a new root n in it, which the owner a may take.
Beside(h, g, K, H, a, n) ==
  /\ Shows(g, K, H \cup {n}) /\ g.alive = h.alive \cup {n}
  /\ a \in g.alive /\ a \notin g.isRef /\ a \notin Under(K, n) /\ a # n
  /\ (H \cup {n}) \ {n} = H /\ Cut(K, Under(K, n)) = K

\* A new item stands beside everything.
LEMMA BornBeside ==
  ASSUME NEW h, NEW K, NEW H, Shows(h, K, H), NEW a \in Nodes, a \in h.alive, a \notin h.isRef,
         NEW n \in Nodes, n \notin h.alive, NEW g, Born(h, g, n)
  PROVE  Beside(h, g, K, H, a, n)
<1>1. Shows(g, K, H \cup {n}) /\ K[n] = << >> /\ Under(K, n) = {n}
  BY ONLY Shows(h, K, H), n \in Nodes, n \notin h.alive, Born(h, g, n), ShowsBorn
<1>2. g.alive = h.alive \cup {n} /\ a # n /\ a \notin g.isRef
  BY DEF Born
<1>3. (H \cup {n}) \ {n} = H
  BY AliveClosed
<1>4. K \in Rows
  BY AliveClosed
<1>5. Cut(K, {n}) = K
  BY <1>1, <1>4 DEF Cut, Rows
<1> QED
  BY <1>1, <1>2, <1>3, <1>5 DEF Beside

\* A new item went to the end of the children of a.
LEMMA JoinStep ==
  ASSUME NEW K, Shows(heap, K, held), NEW a \in Nodes, a \in heap.alive,
         NEW n \in Nodes, n \notin heap.alive, NEW g,
         Shows(g, [K EXCEPT ![a] = InsertAt(K[a], Len(K[a]) + 1, n)], held),
         g.alive = heap.alive \cup {n}, heap' = g, held' = held
  PROVE  Follows
<1>1. PICK L : L = [K EXCEPT ![a] = InsertAt(K[a], Len(K[a]) + 1, n)]
  OBVIOUS
<1>2. PICK H : H = held
  OBVIOUS
<1>3. Shows(g, L, H) /\ heap' = g /\ held' = H
  BY <1>1, <1>2
<1>4. Becomes(L, H) /\ heap'.alive = g.alive
  BY ONLY <1>3, BecomesIs
<1>5. /\ Becomes([K EXCEPT ![a] = InsertAt(K[a], Len(K[a]) + 1, n)], held)
      /\ heap'.alive = heap.alive \cup {n}
  BY <1>1, <1>2, <1>4
<1> QED
  BY <1>5, ReferStep

\* cJSON_AddItemReferenceToArray.
LEMMA AddItemReferenceToArrayStep ==
  ASSUME NEW K, Shows(heap, K, held), NEW a \in Containers, NEW item \in Containers, NEW n \in Nodes,
         AddItemReferenceToArray(a, item, n)
  PROVE  Follows
<1>1. a \in Nodes /\ a \in heap.alive /\ a \notin heap.isRef
  BY ContainerOwns
<1>2. item \in Nodes /\ n \notin heap.alive
  BY ContainerOwns DEF AddItemReferenceToArray, MayRefer
<1>3. PICK g : g = create_reference(heap, n, item)
  OBVIOUS
<1>4. Born(heap, g, n)
  BY <1>2, <1>3, ReferenceBorn
<1>5. Beside(heap, g, K, held, a, n)
  BY ONLY <1>1, <1>2, <1>4, Shows(heap, K, held), n \in Nodes, BornBeside
<1>6. PICK H : H = held \cup {n}
  OBVIOUS
<1>7. /\ Shows(g, K, H) /\ a \in g.alive /\ a \notin g.isRef /\ a \notin Under(K, n)
      /\ n \in H /\ a \in Nodes
  BY <1>1, <1>5, <1>6 DEF Beside
<1>8. PICK f : f = add_item_to_array(g, a, n)
  OBVIOUS
<1>9. Shows(f, [K EXCEPT ![a] = InsertAt(K[a], Len(K[a]) + 1, n)], held)
  <2>1. Shows(add_item_to_array(g, a, n), [K EXCEPT ![a] = InsertAt(K[a], Len(K[a]) + 1, n)], H \ {n})
    BY ONLY <1>7, ShowsAppended
  <2> QED
    BY <1>5, <1>6, <1>8, <2>1 DEF Beside
<1>10. f.alive = heap.alive \cup {n}
  <2>1. g \in Heaps
    BY <1>4 DEF Born
  <2>2. f.alive = g.alive
    BY <1>1, <1>8, <2>1, AppendKeeps
  <2> QED
    BY <1>5, <2>2 DEF Beside
<1>11. heap' = f /\ held' = held
  BY <1>3, <1>8 DEF AddItemReferenceToArray
<1> QED
  BY ONLY <1>1, <1>2, <1>9, <1>10, <1>11, n \in Nodes, Shows(heap, K, held), JoinStep

\* What becomes of a new item that is named and added.
LEMMA BornEnters ==
  ASSUME NEW K, Shows(heap, K, held), NEW a \in Nodes, a \in heap.alive, a \notin heap.isRef,
         NEW n \in Nodes, n \notin heap.alive, NEW g, Born(heap, g, n),
         NEW name \in Keys \cup {NULL}, NEW c \in BOOLEAN,
         heap' = add_item_to_object(g, a, name, n, c), held' = held
  PROVE  Follows
<1>1. Beside(heap, g, K, held, a, n)
  BY BornBeside
<1>2. PICK H : H = held \cup {n}
  OBVIOUS
<1>3. /\ Shows(g, K, H) /\ a \in g.alive /\ a \notin g.isRef /\ a \notin Under(K, n)
      /\ n \in H /\ a \in Nodes
  BY <1>1, <1>2 DEF Beside
<1>4. PICK f : f = add_item_to_object(g, a, name, n, c)
  OBVIOUS
<1>5. Enters(add_item_to_object(g, a, name, n, c), g, K, H, a, n)
  BY ONLY <1>3, EntersObject, name \in Keys \cup {NULL}, c \in BOOLEAN
<1>6. /\ Shows(f, [K EXCEPT ![a] = InsertAt(K[a], Len(K[a]) + 1, n)], held)
      /\ f.alive = heap.alive \cup {n}
  BY <1>1, <1>2, <1>4, <1>5 DEF Enters, Beside
<1>7. heap' = f
  BY <1>4
<1> QED
  BY <1>6, <1>7, JoinStep

\* cJSON_AddItemReferenceToObject: without memory for the name the reference is
\* lost.
LEMMA AddItemReferenceToObjectStep ==
  ASSUME NEW K, Shows(heap, K, held), NEW a \in Containers, NEW item \in Containers, NEW n \in Nodes,
         NEW name \in Given, AddItemReferenceToObject(a, name, item, n)
  PROVE  Follows
<1>1. a \in Nodes /\ a \in heap.alive /\ a \notin heap.isRef
  BY ContainerOwns
<1>2. item \in Nodes /\ n \notin heap.alive /\ held' = held /\ name \in Keys \cup {NULL}
  BY ContainerOwns, TreeAssumption DEF AddItemReferenceToObject, MayRefer
<1>3. PICK g : g = create_reference(heap, n, item)
  OBVIOUS
<1>4. Born(heap, g, n) /\ n \in g.isRef /\ g.string[n] = NULL
  BY <1>2, <1>3, ReferenceBorn
<1>5. CASE heap' = add_item_to_object(g, a, name, n, FALSE)
  <2>1. PICK c \in BOOLEAN : c = FALSE
    OBVIOUS
  <2>2. heap' = add_item_to_object(g, a, name, n, c)
    BY <1>5, <2>1
  <2> QED
    BY ONLY <1>1, <1>2, <1>4, <2>2, c \in BOOLEAN, n \in Nodes, Shows(heap, K, held), BornEnters
<1>6. CASE heap' = g
  <2>1. Beside(heap, g, K, held, a, n)
    BY ONLY <1>1, <1>2, <1>4, Shows(heap, K, held), n \in Nodes, BornBeside
  <2>2. PICK H : H = held \cup {n}
    OBVIOUS
  <2>3. Shows(g, K, H)
    BY <2>1, <2>2 DEF Beside
  <2>4. Shows(g, K, H \ {n})
    BY ONLY <1>4, <2>3, ShowsLost
  <2>5. Shows(g, K, held) /\ g.alive = heap.alive \cup {n}
    BY <2>1, <2>2, <2>4 DEF Beside
  <2>6. Becomes(K, held) /\ heap'.alive = heap.alive \cup {n}
    BY <1>2, <1>6, <2>5, BecomesIs
  <2> QED
    BY <1>1, <1>2, <2>6, ReferStep
<1> QED
  BY <1>3, <1>5, <1>6 DEF AddItemReferenceToObject

\* cJSON_AddNullToObject and its like.
LEMMA AddNewToObjectStep ==
  ASSUME NEW K, Shows(heap, K, held), NEW a \in Containers, NEW n \in Nodes,
         NEW name \in Given, AddNewToObject(a, name, n)
  PROVE  Follows
<1>1. a \in Nodes /\ a \in heap.alive /\ a \notin heap.isRef
  BY ContainerOwns
<1>2. n \notin heap.alive /\ held' = held /\ name \in Keys \cup {NULL}
  BY TreeAssumption DEF AddNewToObject
<1>3. PICK g : g = cJSON_New_Item(heap, n)
  OBVIOUS
<1>4. Born(heap, g, n)
  BY <1>2, <1>3, NewBorn
<1>5. CASE heap' = add_item_to_object(g, a, name, n, FALSE)
  <2>1. PICK c \in BOOLEAN : c = FALSE
    OBVIOUS
  <2>2. heap' = add_item_to_object(g, a, name, n, c)
    BY <1>5, <2>1
  <2> QED
    BY ONLY <1>1, <1>2, <1>4, <2>2, c \in BOOLEAN, n \in Nodes, Shows(heap, K, held), BornEnters
<1>6. CASE heap' = cJSON_Delete(g, n)
  <2>1. Beside(heap, g, K, held, a, n)
    BY ONLY <1>1, <1>2, <1>4, Shows(heap, K, held), n \in Nodes, BornBeside
  <2>2. PICK H : H = held \cup {n}
    OBVIOUS
  <2>3. Shows(g, K, H) /\ n \in H
    BY <2>1, <2>2 DEF Beside
  <2>4. PICK f : f = cJSON_Delete(g, n)
    OBVIOUS
  <2>5. Shows(cJSON_Delete(g, n), Cut(K, Under(K, n)), H \ {n})
    BY ONLY <2>3, ShowsDeleted
  <2>6. cJSON_Delete(g, n).alive = g.alive \ Under(K, n)
    BY ONLY <2>3, DeletedAlive
  <2>7. Under(K, n) = {n}
    BY ONLY <1>2, <1>4, Shows(heap, K, held), n \in Nodes, ShowsBorn
  <2>8. Shows(f, K, held) /\ f.alive = heap.alive /\ heap' = f
    BY <1>2, <1>6, <2>1, <2>2, <2>4, <2>5, <2>6, <2>7 DEF Beside
  <2> QED
    BY <1>2, <2>8, NothingStep
<1> QED
  BY <1>3, <1>5, <1>6 DEF AddNewToObject

\* Items that come with nothing below them, held by the caller.
LEMMA BornStep ==
  ASSUME NEW K, Shows(heap, K, held), NEW n \in Nodes, n \notin heap.alive,
         NEW g, Born(heap, g, n), heap' = g, held' = held \cup {n}
  PROVE  Follows
<1>1. PICK H : H = held \cup {n}
  OBVIOUS
<1>2. Shows(g, K, H)
  BY <1>1, ShowsBorn
<1>3. Becomes(K, H) /\ heap'.alive = g.alive
  BY <1>1, <1>2, BecomesIs
<1>4. Becomes(K, held \cup {n}) /\ heap'.alive = heap.alive \cup {n}
  BY <1>1, <1>3 DEF Born
<1> QED
  BY <1>4, CreateStep

\* cJSON_CreateNull and its like.
LEMMA SingleStep ==
  ASSUME NEW K, Shows(heap, K, held), NEW n \in Nodes, Create(n)
  PROVE  Follows
<1>1. n \notin heap.alive /\ held' = held \cup {n}
  BY DEF Create
<1>2. Born(heap, cJSON_New_Item(heap, n), n)
  BY <1>1, NewBorn
<1> QED
  BY <1>1, <1>2, BornStep DEF Create

\* cJSON_CreateObjectReference, and cJSON_Duplicate of an item alone.
LEMMA SecondStep ==
  ASSUME NEW K, Shows(heap, K, held), NEW n \in Nodes, NEW item \in Containers,
         CreateReference(n, item) \/ DuplicateAlone(item, n)
  PROVE  Follows
<1>1. n \notin heap.alive /\ held' = held \cup {n} /\ item \in Nodes
  BY ContainerOwns DEF CreateReference, DuplicateAlone, MayRefer
<1>2. CASE CreateReference(n, item)
  <2>1. PICK g : g = [cJSON_New_Item(heap, n) EXCEPT !.child[n] = heap.child[item], !.isRef = @ \cup {n}]
    OBVIOUS
  <2>2. Born(heap, g, n)
    BY <1>1, <2>1, ViewBorn
  <2> QED
    BY <1>1, <1>2, <2>1, <2>2, BornStep DEF CreateReference
<1>3. CASE DuplicateAlone(item, n)
  <2>1. Born(heap, CopyOf(heap, n, item), n)
    BY <1>1, CopyBorn
  <2> QED
    BY <1>1, <1>3, <2>1, BornStep DEF DuplicateAlone
<1> QED
  BY <1>2, <1>3

\* The child a lookup yields is one of the row.
LEMMA FoundInArray ==
  ASSUME NEW h, NEW K, NEW H, Shows(h, K, H), NEW a \in Nodes, a \notin h.isRef,
         NEW which \in Indices, get_array_item(h, a, which) # NULL
  PROVE  \E p \in 1 .. Len(K[a]) : get_array_item(h, a, which) = K[a][p]
<1>1. which \in Nat \ {0}
  BY DEF Indices
<1> QED
  BY <1>1, ArrayItem DEF Nth

\* cJSON_DetachItemViaPointer on a child that was found.
LEMMA DetachedStep ==
  ASSUME NEW K, Shows(heap, K, held), NEW a \in Nodes, a \in heap.alive, a \notin heap.isRef,
         NEW p \in 1 .. Len(K[a]), NEW o, o = K[a][p], Detach(a, o)
  PROVE  Follows
<1>1. PICK g : g = cJSON_DetachItemViaPointer(heap, a, o)
  OBVIOUS
<1>2. PICK L : L = [K EXCEPT ![a] = RemoveAt(K[a], p)]
  OBVIOUS
<1>3. PICK H : H = held \cup {o}
  OBVIOUS
<1>4. Shows(cJSON_DetachItemViaPointer(heap, a, o), [K EXCEPT ![a] = RemoveAt(K[a], p)], held \cup {o})
  BY ShowsUnlinked
<1>5. Shows(g, L, H) /\ heap' = g /\ held' = H
  BY <1>1, <1>2, <1>3, <1>4 DEF Detach
<1>6. g.alive = heap.alive
  <2>1. heap \in Heaps /\ o \in Nodes
    BY AliveClosed, PlaceIsNode
  <2> QED
    BY <1>1, <2>1, DetachKeeps
<1>7. Becomes(L, H) /\ heap'.alive = g.alive
  BY ONLY <1>5, BecomesIs
<1>8. Becomes([K EXCEPT ![a] = RemoveAt(K[a], p)], held \cup {o}) /\ heap'.alive = heap.alive
  BY <1>2, <1>3, <1>6, <1>7
<1> QED
  BY <1>8, DetachStep

\* The same, and the child is deleted.
LEMMA DiscardedStep ==
  ASSUME NEW K, Shows(heap, K, held), NEW a \in Nodes, a \in heap.alive, a \notin heap.isRef,
         NEW p \in 1 .. Len(K[a]), NEW o, o = K[a][p], DeleteChild(a, o)
  PROVE  Follows
<1>1. PICK g : g = cJSON_DetachItemViaPointer(heap, a, o)
  OBVIOUS
<1>2. PICK t : t = RemoveAt(K[a], p)
  OBVIOUS
<1>3. PICK L : L = [K EXCEPT ![a] = t]
  OBVIOUS
<1>4. PICK H : H = held \cup {o}
  OBVIOUS
<1>5. Shows(g, L, H) /\ o \in H
  <2>1. Shows(cJSON_DetachItemViaPointer(heap, a, o), [K EXCEPT ![a] = RemoveAt(K[a], p)], held \cup {o})
    BY ShowsUnlinked
  <2> QED
    BY <1>1, <1>2, <1>3, <1>4, <2>1
<1>6. /\ K[a] \in Seq(Nodes) /\ o \in Nodes /\ Kid(K, a, o) /\ Forest(K) /\ o \notin held
  BY PlaceIsNode
<1>7. t \in Seq(Nodes)
  BY <1>2, <1>6, Removed
<1>8. g.alive = heap.alive
  BY <1>1, <1>6, AliveClosed, DetachKeeps
<1>9. PICK f : f = cJSON_Delete(g, o)
  OBVIOUS
<1>10. Shows(f, Cut(L, Under(L, o)), H \ {o}) /\ f.alive = g.alive \ Under(L, o)
  <2>1. Shows(cJSON_Delete(g, o), Cut(L, Under(L, o)), H \ {o})
    BY ONLY <1>5, ShowsDeleted
  <2>2. cJSON_Delete(g, o).alive = g.alive \ Under(L, o)
    BY ONLY <1>5, DeletedAlive
  <2> QED
    BY <1>9, <2>1, <2>2
<1>11. Under(L, o) = Under(K, o) /\ Cut(L, Under(L, o)) = [Cut(K, Under(K, o)) EXCEPT ![a] = t]
  <2>1. Forest(K) /\ o \in Nodes /\ Kid(K, a, o)
    BY <1>6
  <2>2. CutsOff(L, K, a, o, t)
    BY ONLY <2>1, <1>3, <1>7, a \in Nodes, CutFrom
  <2> QED
    BY <2>2 DEF CutsOff
<1>12. PICK M : M = Cut(L, Under(L, o))
  OBVIOUS
<1>13. Shows(f, M, held) /\ heap' = f /\ held' = held
  <2>1. H \ {o} = held
    BY <1>4, <1>6
  <2> QED
    BY <1>1, <1>9, <1>10, <1>12, <2>1 DEF DeleteChild
<1>14. Becomes(M, held) /\ heap'.alive = f.alive
  BY <1>13, BecomesIs
<1>15. /\ Becomes([Cut(K, Under(K, o)) EXCEPT ![a] = RemoveAt(K[a], p)], held)
       /\ heap'.alive = heap.alive \ Under(K, o)
  BY <1>2, <1>8, <1>10, <1>11, <1>12, <1>14
<1> QED
  BY <1>15, DiscardStep

\* The four calls that detach or delete a child they look up.
LEMMA TakenFromStep ==
  ASSUME NEW K, Shows(heap, K, held), NEW a \in Containers,
         \/ \E i \in Indices : DetachItemFromArray(a, i) \/ DeleteItemFromArray(a, i)
         \/ \E name \in Keys, cs \in BOOLEAN : DetachItemFromObject(a, name, cs) \/ DeleteItemFromObject(a, name, cs)
  PROVE  Follows
<1>1. a \in Nodes /\ a \in heap.alive /\ a \notin heap.isRef
  BY ContainerOwns
<1>2. ASSUME NEW i \in Indices, DetachItemFromArray(a, i) \/ DeleteItemFromArray(a, i) PROVE Follows
  <2>1. PICK o : o = get_array_item(heap, a, i)
    OBVIOUS
  <2>2. Detach(a, o) \/ DeleteChild(a, o)
    BY <1>2, <2>1 DEF DetachItemFromArray, DeleteItemFromArray
  <2>3. o # NULL
    BY <2>2 DEF Detach, DeleteChild
  <2>4. PICK p \in 1 .. Len(K[a]) : o = K[a][p]
    BY <1>1, <2>1, <2>3, FoundInArray
  <2>5. CASE Detach(a, o)
    BY ONLY <1>1, <2>4, <2>5, p \in 1 .. Len(K[a]), Shows(heap, K, held), DetachedStep
  <2>6. CASE DeleteChild(a, o)
    BY ONLY <1>1, <2>4, <2>6, p \in 1 .. Len(K[a]), Shows(heap, K, held), DiscardedStep
  <2> QED
    BY <2>2, <2>5, <2>6
<1>3. ASSUME NEW name \in Keys, NEW cs \in BOOLEAN,
             DetachItemFromObject(a, name, cs) \/ DeleteItemFromObject(a, name, cs)
      PROVE  Follows
  <2>1. PICK o : o = get_object_item(heap, a, name, cs)
    OBVIOUS
  <2>2. Detach(a, o) \/ DeleteChild(a, o)
    BY <1>3, <2>1 DEF DetachItemFromObject, DeleteItemFromObject
  <2>3. o # NULL
    BY <2>2 DEF Detach, DeleteChild
  <2>4. PICK p \in 1 .. Len(K[a]) : o = K[a][p]
    BY <1>1, <2>1, <2>3, ObjectItem
  <2>5. CASE Detach(a, o)
    BY ONLY <1>1, <2>4, <2>5, p \in 1 .. Len(K[a]), Shows(heap, K, held), DetachedStep
  <2>6. CASE DeleteChild(a, o)
    BY ONLY <1>1, <2>4, <2>6, p \in 1 .. Len(K[a]), Shows(heap, K, held), DiscardedStep
  <2> QED
    BY <2>2, <2>5, <2>6
<1> QED
  BY <1>2, <1>3

\* cJSON_Delete.
LEMMA DeletedStep ==
  ASSUME NEW K, Shows(heap, K, held), NEW e, Delete(e)
  PROVE  Follows
<1>1. e \in held
  BY DEF Delete
<1>2. PICK g : g = cJSON_Delete(heap, e)
  OBVIOUS
<1>3. PICK L : L = Cut(K, Under(K, e))
  OBVIOUS
<1>4. PICK H : H = held \ {e}
  OBVIOUS
<1>5. Shows(g, L, H) /\ heap' = g /\ held' = H
  <2>1. Shows(cJSON_Delete(heap, e), Cut(K, Under(K, e)), held \ {e})
    BY <1>1, ShowsDeleted
  <2> QED
    BY <1>2, <1>3, <1>4, <2>1 DEF Delete
<1>6. g.alive = heap.alive \ Under(K, e)
  BY <1>1, <1>2, DeletedAlive
<1>7. Becomes(L, H) /\ heap'.alive = g.alive
  BY ONLY <1>5, BecomesIs
<1>8. Becomes(Cut(K, Under(K, e)), held \ {e}) /\ heap'.alive = heap.alive \ Under(K, e)
  BY <1>3, <1>4, <1>6, <1>7
<1> QED
  BY <1>1, <1>8, DeleteStep

\* What a replacement leaves when h differs from the heap only in names.
LEMMA ReplacedStep ==
  ASSUME NEW K, Shows(heap, K, held), NEW a \in Nodes, a \in heap.alive,
         NEW e \in held, a \notin Under(K, e),
         NEW h, Shows(h, K, held), h.alive = heap.alive, a \notin h.isRef,
         NEW p \in 1 .. Len(K[a]), NEW o, o = K[a][p],
         heap' = cJSON_ReplaceItemViaPointer(h, a, o, e), held' = held \ {e}
  PROVE  Follows
<1>1. PICK g : g = Swapped(h, a, o, e)
  OBVIOUS
<1>2. PICK t : t = ReplaceAt(K[a], p, e)
  OBVIOUS
<1>3. PICK L : L = [K EXCEPT ![a] = t]
  OBVIOUS
<1>4. PICK H : H = (held \ {e}) \cup {o}
  OBVIOUS
<1>5. Shows(g, L, H) /\ o \in H
  <2>1. a \in h.alive
    OBVIOUS
  <2>2. Shows(Swapped(h, a, o, e), [K EXCEPT ![a] = ReplaceAt(K[a], p, e)], (held \ {e}) \cup {o})
    BY ONLY <2>1, Shows(h, K, held), a \in Nodes, a \notin h.isRef, p \in 1 .. Len(K[a]), o = K[a][p],
       e \in held, a \notin Under(K, e), ShowsSwapped
  <2> QED
    BY <1>1, <1>2, <1>3, <1>4, <2>2
<1>6. /\ K[a] \in Seq(Nodes) /\ o \in Nodes /\ Kid(K, a, o) /\ Forest(K) /\ o \notin held /\ e \in Nodes
  BY PlaceIsNode, HeldIsRoot
<1>7. t \in Seq(Nodes)
  BY <1>2, <1>6 DEF ReplaceAt
<1>8. g.alive = heap.alive
  BY <1>1, <1>6, AliveClosed, SwappedKeeps, SMTT(40)
<1>9. PICK f : f = cJSON_Delete(g, o)
  OBVIOUS
<1>10. Shows(f, Cut(L, Under(L, o)), H \ {o}) /\ f.alive = g.alive \ Under(L, o)
  <2>1. Shows(cJSON_Delete(g, o), Cut(L, Under(L, o)), H \ {o})
    BY ONLY <1>5, ShowsDeleted
  <2>2. cJSON_Delete(g, o).alive = g.alive \ Under(L, o)
    BY ONLY <1>5, DeletedAlive
  <2> QED
    BY <1>9, <2>1, <2>2
<1>11. Under(L, o) = Under(K, o) /\ Cut(L, Under(L, o)) = [Cut(K, Under(K, o)) EXCEPT ![a] = t]
  <2>1. Forest(K) /\ o \in Nodes /\ Kid(K, a, o)
    BY <1>6
  <2>2. CutsOff(L, K, a, o, t)
    BY ONLY <2>1, <1>3, <1>7, a \in Nodes, CutFrom
  <2> QED
    BY <2>2 DEF CutsOff
<1>12. PICK M : M = Cut(L, Under(L, o))
  OBVIOUS
<1>13. PICK J : J = held \ {e}
  OBVIOUS
<1>14. Shows(f, M, J) /\ heap' = f /\ held' = J
  <2>1. H \ {o} = J
    BY <1>4, <1>6, <1>13
  <2>2. cJSON_ReplaceItemViaPointer(h, a, o, e) = cJSON_Delete(Swapped(h, a, o, e), o)
    BY DEF cJSON_ReplaceItemViaPointer, Swapped
  <2> QED
    BY <1>1, <1>9, <1>10, <1>12, <1>13, <2>1, <2>2
<1>15. Becomes(M, J) /\ heap'.alive = f.alive
  BY <1>14, BecomesIs
<1>16. /\ Becomes([Cut(K, Under(K, o)) EXCEPT ![a] = ReplaceAt(K[a], p, e)], held \ {e})
       /\ heap'.alive = heap.alive \ Under(K, o)
  BY <1>2, <1>8, <1>10, <1>11, <1>12, <1>13, <1>15
<1> QED
  BY <1>16, ReplaceStep

\* cJSON_ReplaceItemInArray.
LEMMA ReplaceItemInArrayStep ==
  ASSUME NEW K, Shows(heap, K, held), NEW a \in Containers, NEW i \in Indices, NEW e,
         ReplaceItemInArray(a, i, e)
  PROVE  Follows
<1>1. a \in Nodes /\ a \in heap.alive /\ a \notin heap.isRef
  BY ContainerOwns
<1>2. PICK o : o = get_array_item(heap, a, i)
  OBVIOUS
<1>3. /\ MayTake(a, e) /\ a # e /\ o # NULL /\ held' = held \ {e}
      /\ heap' = cJSON_ReplaceItemViaPointer(heap, a, o, e)
  BY <1>2 DEF ReplaceItemInArray, Took
<1>4. e \in held /\ a \notin Under(K, e)
  BY <1>1, <1>3, TakeIs
<1>5. PICK p \in 1 .. Len(K[a]) : o = K[a][p]
  BY <1>1, <1>2, <1>3, FoundInArray
<1>6. PICK h : h = heap
  OBVIOUS
<1>7. /\ Shows(h, K, held) /\ h.alive = heap.alive /\ a \notin h.isRef
      /\ heap' = cJSON_ReplaceItemViaPointer(h, a, o, e) /\ held' = held \ {e}
  BY <1>1, <1>3, <1>6
<1> QED
  BY ONLY <1>1, <1>4, <1>5, <1>7, p \in 1 .. Len(K[a]), Shows(heap, K, held), ReplacedStep

\* cJSON_ReplaceItemInObject: the new name comes first, whether or not a child is
\* found.
LEMMA ReplaceItemInObjectStep ==
  ASSUME NEW K, Shows(heap, K, held), NEW a \in Containers, NEW name \in Given, NEW copy \in Given \cup {NULL},
         NEW e, NEW cs \in BOOLEAN, ReplaceItemInObject(a, name, copy, e, cs)
  PROVE  Follows
<1>1. a \in Nodes /\ a \in heap.alive /\ a \notin heap.isRef
  BY ContainerOwns
<1>2. PICK h : h = NameItem(heap, e, copy, FALSE)
  OBVIOUS
<1>3. PICK o : o = get_object_item(h, a, name, cs)
  OBVIOUS
<1>4. /\ MayTake(a, e) /\ a # e
      /\ heap' = IF o = NULL THEN h ELSE cJSON_ReplaceItemViaPointer(h, a, o, e)
      /\ IF o = NULL THEN held' = held ELSE held' = held \ {e}
  BY <1>2, <1>3 DEF ReplaceItemInObject, Took
<1>5. e \in held /\ a \notin Under(K, e)
  BY <1>1, <1>4, TakeIs
<1>6. copy \in Keys \cup {NULL}
  BY TreeAssumption
<1>7. Shows(h, K, held) /\ h.alive = heap.alive /\ a \notin h.isRef
  <2>1. PICK c \in BOOLEAN : c = FALSE
    OBVIOUS
  <2>2. h = NameItem(heap, e, copy, c)
    BY <1>2, <2>1
  <2> QED
    BY <1>1, <1>5, <1>6, <2>2, NamedItem
<1>8. CASE o = NULL
  <2>1. heap' = h /\ held' = held
    BY <1>4, <1>8
  <2> QED
    BY <1>7, <2>1, NothingStep
<1>9. CASE o # NULL
  <2>1. PICK p \in 1 .. Len(K[a]) : o = K[a][p]
    BY <1>1, <1>3, <1>7, <1>9, ObjectItem
  <2>2. heap' = cJSON_ReplaceItemViaPointer(h, a, o, e) /\ held' = held \ {e}
    BY <1>4, <1>9
  <2> QED
    BY ONLY <1>1, <1>5, <1>7, <2>1, <2>2, p \in 1 .. Len(K[a]), Shows(heap, K, held), ReplacedStep
<1> QED
  BY <1>8, <1>9

\* The smaller of two numbers.
LEMMA MinOfTwo ==
  ASSUME NEW i \in Int, NEW j \in Int
  PROVE  Min({i, j}) = IF i <= j THEN i ELSE j
BY DEF Min

\* The first items of fresh, those that malloc gave.
LEMMA FirstItems ==
  ASSUME NEW fresh \in Seq(Nodes), IsInjective(fresh), NEW m \in 0 .. Len(fresh),
         NEW made, made = SubSeq(fresh, 1, m)
  PROVE  /\ made \in Seq(Nodes) /\ Len(made) = m /\ IsInjective(made)
         /\ ToSet(made) \subseteq ToSet(fresh) /\ ToSet(made) \in SUBSET Nodes
         /\ \A n : n \in ToSet(made) <=> In(made, n)
<1>1. made \in Seq(Nodes) /\ Len(made) = m /\ \A i \in 1 .. m : made[i] = fresh[i]
  OBVIOUS
<1>2. DOMAIN made = 1 .. m /\ DOMAIN fresh = 1 .. Len(fresh)
  BY <1>1
<1>3. IsInjective(made)
  BY <1>1, <1>2 DEF IsInjective
<1>4. ToSet(made) \subseteq ToSet(fresh)
  BY <1>1, <1>2 DEF ToSet
<1> QED
  BY <1>1, <1>3, <1>4, InToSet

\* h has a new item a and new items for its children, none of them linked yet.
Material(h, K, H, a, s, D, g) ==
  /\ Shows(g, K, H \cup D) /\ g.alive = h.alive \cup D /\ a \notin g.isRef /\ K[a] = << >>
  /\ D \in SUBSET Nodes /\ D \cap h.alive = {} /\ a \in D
  /\ s \in Seq(Nodes) /\ Loose(s, a, D) /\ ToSet(s) = D \ {a} /\ \A n : n \in ToSet(s) <=> In(s, n)
  /\ \A n \in D : K[n] = << >>

\* What malloc gives the loop of an array.
LEMMA MaterialBorn ==
  ASSUME NEW h, NEW K, NEW H, Shows(h, K, H), NEW a \in Nodes, a \notin h.alive,
         NEW fresh \in Seq(Nodes), IsInjective(fresh), ToSet(fresh) \cap h.alive = {}, a \notin ToSet(fresh),
         NEW m \in 0 .. Len(fresh), NEW made, made = SubSeq(fresh, 1, m),
         NEW g, g = [h EXCEPT !.alive = @ \cup {a} \cup ToSet(made)]
  PROVE  Material(h, K, H, a, made, {a} \cup ToSet(made), g)
<1>1. PICK D : D = {a} \cup ToSet(made)
  OBVIOUS
<1>2. /\ made \in Seq(Nodes) /\ Len(made) = m /\ IsInjective(made)
      /\ ToSet(made) \subseteq ToSet(fresh) /\ ToSet(made) \in SUBSET Nodes
      /\ \A n : n \in ToSet(made) <=> In(made, n)
  BY FirstItems
<1>3. D \in SUBSET Nodes /\ D \cap h.alive = {} /\ a \in D
  BY <1>1, <1>2
<1>4. g = [h EXCEPT !.alive = @ \cup D] /\ g.alive = h.alive \cup D
  <2>1. h \in Heaps
    BY AliveClosed
  <2>2. h.alive \cup {a} \cup ToSet(made) = h.alive \cup D
    BY <1>1
  <2>3. g = [h EXCEPT !.alive = @ \cup D]
    BY <2>2
  <2> QED
    BY <2>1, <2>3 DEF Heaps
<1>5. Shows(g, K, H \cup D) /\ g.isRef = h.isRef /\ \A n \in D : K[n] = << >> /\ n \notin h.isRef
  BY <1>3, <1>4, ShowsBornAll
<1>6. Loose(made, a, D) /\ ToSet(made) = D \ {a}
  BY <1>1, <1>2 DEF Loose
<1> QED
  BY <1>1, <1>2, <1>3, <1>4, <1>5, <1>6 DEF Material

\* All that is linked: the new root a has the items of s.
Listed(h, L, H, a, s, D, g, f) ==
  Shows(f, L, H \cup {a}) /\ f.alive = h.alive \cup D /\ EndsAlike(g, a, s)

\* The list is linked.
LEMMA MaterialLinked ==
  ASSUME NEW h, NEW K, NEW H, Shows(h, K, H), NEW a, NEW s, NEW D, NEW g, Material(h, K, H, a, s, D, g),
         NEW f, f = Chained(g, a, s, TRUE), NEW L, L = [K EXCEPT ![a] = s]
  PROVE  Listed(h, L, H, a, s, D, g, f)
<1>1. PICK I : I = H \cup D
  OBVIOUS
<1>2. /\ Shows(g, K, I) /\ a \in I /\ a \notin g.isRef /\ K[a] = << >>
      /\ s \in Seq(Nodes) /\ Loose(s, a, I)
  BY <1>1 DEF Material, Loose
<1>3. PICK G : G = {n \in I : ~In(s, n)}
  OBVIOUS
<1>4. Shows(Chained(g, a, s, TRUE), L, G) /\ L \in Rows
  BY ONLY <1>2, <1>3, L = [K EXCEPT ![a] = s], ShowsChained
<1>5. G = H \cup {a}
  <2>1. H \subseteq h.alive
    BY AliveClosed
  <2> QED
    BY <1>1, <1>3, <2>1 DEF Material
<1>6. f.alive = g.alive
  <2>1. g \in Heaps
    BY <1>2, AliveClosed
  <2> QED
    BY <2>1 DEF Chained, Heaps
<1>7. EndsAlike(g, a, s)
  BY ONLY <1>2, DeletedAlike
<1> QED
  BY <1>4, <1>5, <1>6, <1>7 DEF Material, Listed

\* Deleted again it leaves what was there.
Restored(h, K, H, f) == Shows(f, K, H) /\ f.alive = h.alive

\* A list given up is taken away again.
LEMMA MaterialDeleted ==
  ASSUME NEW h, NEW K, NEW H, Shows(h, K, H), NEW a, NEW s, NEW D, NEW g, Material(h, K, H, a, s, D, g),
         NEW f, f = cJSON_Delete(Chained(g, a, s, FALSE), a)
  PROVE  Restored(h, K, H, f)
<1>1. PICK c : c = Chained(g, a, s, TRUE)
  OBVIOUS
<1>2. PICK L : L = [K EXCEPT ![a] = s]
  OBVIOUS
<1>3. Shows(c, L, H \cup {a}) /\ c.alive = h.alive \cup D /\ EndsAlike(g, a, s)
  <2>1. Listed(h, L, H, a, s, D, g, c)
    BY ONLY <1>1, <1>2, Shows(h, K, H), Material(h, K, H, a, s, D, g), MaterialLinked
  <2> QED
    BY <2>1 DEF Listed
<1>4. f = cJSON_Delete(c, a)
  BY <1>1, <1>3 DEF EndsAlike
<1>5. PICK G : G = H \cup {a}
  OBVIOUS
<1>6. Shows(c, L, G) /\ a \in G
  BY <1>3, <1>5
<1>7. Shows(f, Cut(L, Under(L, a)), G \ {a}) /\ f.alive = c.alive \ Under(L, a)
  <2>1. Shows(cJSON_Delete(c, a), Cut(L, Under(L, a)), G \ {a})
    BY ONLY <1>6, ShowsDeleted
  <2>2. cJSON_Delete(c, a).alive = c.alive \ Under(L, a)
    BY ONLY <1>6, DeletedAlive
  <2> QED
    BY <1>4, <2>1, <2>2
<1>8. K \in Rows /\ L \in Rows /\ H \subseteq h.alive
  BY <1>6, AliveClosed
<1>9. /\ D \in SUBSET Nodes /\ D \cap h.alive = {} /\ a \in D /\ s \in Seq(Nodes)
      /\ \A n : In(s, n) <=> n \in D /\ n # a
      /\ \A n \in D : K[n] = << >>
  BY DEF Material
<1>10. Under(L, a) = D
  <2>1. Under(L, a) \subseteq D
    <3>1. \A b \in D, n \in Nodes : b # a /\ Kid(K, b, n) => n \in D
      BY <1>9, EmptyRow DEF Kid
    <3>2. \A n : In(s, n) => n \in D
      BY <1>9
    <3>3. a \in Nodes
      BY <1>9
    <3> QED
      BY <1>2, <1>8, <1>9, <3>1, <3>2, <3>3, UnderChained
  <2>2. L[a] = s
    BY <1>2, <1>8, <1>9 DEF Rows
  <2>3. a \in Under(L, a) /\ \A n \in Nodes : In(s, n) => n \in Under(L, a)
    BY <1>8, <1>9, <2>2, UnderIsLeast DEF Kid
  <2> QED
    BY <1>9, <2>1, <2>3
<1>11. Cut(L, D) = K
  <2>1. ASSUME NEW m \in Nodes PROVE (IF m \in D THEN << >> ELSE L[m]) = K[m]
    BY <1>2, <1>8, <1>9 DEF Rows
  <2> QED
    BY <1>8, <2>1 DEF Cut, Rows
<1>12. G \ {a} = H
  BY <1>5, <1>8, <1>9
<1> QED
  BY <1>3, <1>7, <1>9, <1>10, <1>11, <1>12 DEF Restored

\* A list of leaves is one way to build.
LEMMA BuildListStep ==
  ASSUME NEW K, Shows(heap, K, held), NEW a, NEW s, NEW D, NEW g, Material(heap, K, held, a, s, D, g),
         Becomes([K EXCEPT ![a] = s], held \cup {a}), heap'.alive = heap.alive \cup D
  PROVE  Follows
<1>1. PICK L : L = [K EXCEPT ![a] = s]
  OBVIOUS
<1>2. Becomes(L, held \cup {a})
  BY <1>1
<1>3. IInv' /\ Shown(heap) = K /\ Shown(heap)' = L /\ K \in Rows
  BY <1>2, BecomesInv
<1>4. /\ D \in SUBSET Nodes /\ D \cap heap.alive = {} /\ a \in D /\ s \in Seq(Nodes)
      /\ ToSet(s) = D \ {a} /\ IsInjective(s)
  BY DEF Material, Loose
<1>5. L[a] = s /\ \A m \in Nodes \ {a} : L[m] = K[m]
  BY <1>1, <1>3, <1>4 DEF Rows
<1>6. PICK new : new = heap'.alive \ heap.alive
  OBVIOUS
<1>7. new = D /\ heap.alive \subseteq heap'.alive
  BY <1>4, <1>6
<1>8. Tree!ToSet(L[a]) = new \ {a} /\ Tree!IsInjective(L[a])
  BY <1>4, <1>5, <1>7, SameToSet, SameInj
<1>9. Tree!Build(a)
  BY <1>2, <1>3, <1>4, <1>5, <1>6, <1>7, <1>8 DEF Tree!Build, Becomes
<1>10. Tree!Next
  BY <1>4, <1>9 DEF Tree!Next
<1> QED
  BY <1>3, <1>10 DEF Follows

\* What malloc may give.
LEMMA FreshIs ==
  ASSUME NEW fresh \in Fresh
  PROVE  fresh \in Seq(Nodes) /\ IsInjective(fresh) /\ ToSet(fresh) \cap heap.alive = {}
<1>1. PICK free : free = Nodes \ heap.alive
  OBVIOUS
<1>2. PICK k \in 0 .. Cardinality(free) : fresh \in [1 .. k -> free]
  BY <1>1 DEF Fresh
<1>3. k \in Nat
  OBVIOUS
<1>4. fresh \in Seq(Nodes) /\ DOMAIN fresh = 1 .. k
  BY <1>1, <1>2, <1>3
<1>5. ToSet(fresh) \cap heap.alive = {}
  BY <1>1, <1>2 DEF ToSet
<1> QED
  BY <1>4, <1>5 DEF Fresh

\* cJSON_CreateIntArray and its like.
LEMMA CreateArrayOfStep ==
  ASSUME NEW K, Shows(heap, K, held), NEW a \in Nodes, NEW fresh \in Fresh, NEW count \in Indices,
         CreateArrayOf(a, fresh, count)
  PROVE  Follows
<1>1. /\ fresh \in Seq(Nodes) /\ IsInjective(fresh) /\ ToSet(fresh) \cap heap.alive = {}
      /\ a \notin heap.alive /\ a \notin ToSet(fresh) /\ count \in Nat /\ Len(fresh) \in Nat
  BY FreshIs DEF CreateArrayOf, Indices
<1>2. PICK m : m = Min({count, Len(fresh)})
  OBVIOUS
<1>3. m = IF count <= Len(fresh) THEN count ELSE Len(fresh)
  BY <1>1, <1>2, MinOfTwo
<1>4. PICK made : made = SubSeq(fresh, 1, m)
  OBVIOUS
<1>5. PICK g : g = [heap EXCEPT !.alive = @ \cup {a} \cup ToSet(made)]
  OBVIOUS
<1>6. PICK D : D = {a} \cup ToSet(made)
  OBVIOUS
<1>7. Material(heap, K, held, a, made, D, g)
  <2>1. m \in 0 .. Len(fresh)
    BY <1>1, <1>3
  <2>2. Material(heap, K, held, a, made, {a} \cup ToSet(made), g)
    BY ONLY <1>1, <1>4, <1>5, <2>1, Shows(heap, K, held), a \in Nodes, MaterialBorn
  <2> QED
    BY <1>6, <2>2
<1>8. /\ heap' = IF Len(fresh) >= count THEN Chained(g, a, made, TRUE)
                 ELSE cJSON_Delete(Chained(g, a, made, FALSE), a)
      /\ held' = IF Len(fresh) >= count THEN held \cup {a} ELSE held
  BY <1>2, <1>4, <1>5 DEF CreateArrayOf, cJSON_CreateArrayOf
<1>9. CASE Len(fresh) >= count
  <2>1. PICK f : f = Chained(g, a, made, TRUE)
    OBVIOUS
  <2>2. PICK L : L = [K EXCEPT ![a] = made]
    OBVIOUS
  <2>3. PICK H : H = held \cup {a}
    OBVIOUS
  <2>4. Shows(f, L, held \cup {a}) /\ f.alive = heap.alive \cup D
    <3>1. Listed(heap, L, held, a, made, D, g, f)
      BY ONLY <1>7, <2>1, <2>2, Shows(heap, K, held), MaterialLinked
    <3> QED
      BY <3>1 DEF Listed
  <2>5. Shows(f, L, H) /\ heap' = f /\ held' = H
    BY <1>8, <1>9, <2>1, <2>3, <2>4
  <2>6. Becomes(L, H) /\ heap'.alive = f.alive
    BY ONLY <2>5, BecomesIs
  <2>7. Becomes([K EXCEPT ![a] = made], held \cup {a}) /\ heap'.alive = heap.alive \cup D
    BY <2>2, <2>3, <2>4, <2>6
  <2> QED
    BY ONLY <1>7, <2>7, Shows(heap, K, held), BuildListStep
<1>10. CASE ~(Len(fresh) >= count)
  <2>1. PICK f : f = cJSON_Delete(Chained(g, a, made, FALSE), a)
    OBVIOUS
  <2>2. Shows(f, K, held) /\ f.alive = heap.alive
    <3>1. Restored(heap, K, held, f)
      BY ONLY <1>7, <2>1, Shows(heap, K, held), MaterialDeleted
    <3> QED
      BY <3>1 DEF Restored
  <2>3. heap' = f /\ held' = held
    BY <1>8, <1>10, <2>1
  <2> QED
    BY <2>2, <2>3, NothingStep
<1> QED
  BY <1>9, <1>10

\* The copies and what they are copies of correspond one to one.
LEMMA CopiesDiffer ==
  ASSUME NEW g, NEW K, NEW H, Shows(g, K, H), NEW n, n \in g.alive, NEW new, NEW h, NEW L, NEW e,
         Grafted(g, K, H, n, new, h, L, e), NEW D, D = h.alive \ g.alive
  PROVE  \A d, b \in D : e[d] = e[b] => d = b
<1>1. /\ Shows(h, L, H \cup {new}) /\ g.alive \subseteq h.alive /\ h.isRef = g.isRef
      /\ new \in D
      /\ \A m \in g.alive : L[m] = K[m]
      /\ e \in [D -> Under(K, n)] /\ e[new] = n
      /\ Copied(K, L, D, e)
  BY DEF Grafted
<1>2. /\ K \in Rows /\ g.alive \in SUBSET Nodes /\ H \subseteq g.alive /\ g.isRef \subseteq g.alive
      /\ \A m \in g.alive, c \in Nodes : Kid(K, m, c) => c \in g.alive
  BY AliveClosed
<1>3. h.alive \in SUBSET Nodes /\ L \in Rows
  BY <1>1, AliveClosed
<1>4. n \in Nodes /\ Under(K, n) \in SUBSET Nodes /\ D \in SUBSET Nodes
  BY <1>2, <1>3, UnderIsLeast
<1>5. Forest(K)
  BY DEF Shows
<1>6. ASSUME NEW d \in D, d # new
      PROVE  \E p \in D : \E i \in 1 .. Len(K[e[p]]) :
               L[p][i] = d /\ K[e[p]][i] = e[d] /\ e[p] \in Under(K, n)
  <2>1. d \in Nodes /\ d \in h.alive /\ d \notin g.alive
    BY <1>3
  <2>2. HasParent(L, d)
    <3>1. d \notin H \cup {new} /\ d \notin h.isRef
      BY <1>1, <1>2, <1>6, <2>1
    <3> QED
      BY <1>1, <2>1, <3>1 DEF Shows, Rooted
  <2>3. PICK p \in Nodes : Kid(L, p, d)
    BY <2>2 DEF HasParent
  <2>4. p \in h.alive
    BY <1>1, <2>1, <2>3, ParentOwns
  <2>5. p \in D
    BY <1>1, <1>2, <2>1, <2>3, <2>4 DEF Kid
  <2>6. PICK i \in 1 .. Len(L[p]) : L[p][i] = d
    BY <2>3 DEF Kid, In
  <2>7. Len(L[p]) = Len(K[e[p]]) /\ e[L[p][i]] = K[e[p]][i] /\ e[p] \in Under(K, n)
    BY <1>1, <2>5, <2>6 DEF Copied
  <2> QED
    BY <2>5, <2>6, <2>7
<1>7. ASSUME NEW d \in D, d # new PROVE e[d] # n
  <2>1. PICK p \in D : \E i \in 1 .. Len(K[e[p]]) : K[e[p]][i] = e[d] /\ e[p] \in Under(K, n)
    BY <1>6, <1>7
  <2>2. e[p] \in Nodes /\ e[p] \in Under(K, n) /\ Kid(K, e[p], e[d])
    BY <1>4, <2>1 DEF Kid, In
  <2>3. PICK a : a = e[p]
    OBVIOUS
  <2>4. ASSUME e[d] = n PROVE FALSE
    <3>1. a \in Nodes /\ Kid(K, a, n)
      BY <2>2, <2>3, <2>4
    <3>2. a \notin Under(K, n)
      BY ONLY <1>4, <1>5, <3>1, KidNotAbove
    <3> QED
      BY <2>2, <2>3, <3>2
  <2> QED
    BY <2>4
<1> DEFINE Twice(m) == \E d, b \in D : d # b /\ e[d] = m /\ e[b] = m
<1>8. PICK S : S = {m \in Under(K, n) : Twice(m)}
  OBVIOUS
<1>9. ASSUME NEW m \in S PROVE \E a \in S : Kid(K, a, m)
  <2>1. PICK d \in D, b \in D : d # b /\ e[d] = m /\ e[b] = m
    BY <1>8
  <2>2. d # new /\ b # new
    BY <1>1, <1>7, <2>1
  <2>3. PICK p \in D : \E i \in 1 .. Len(K[e[p]]) :
          L[p][i] = d /\ K[e[p]][i] = e[d] /\ e[p] \in Under(K, n)
    BY <1>6, <2>2
  <2>4. PICK i \in 1 .. Len(K[e[p]]) :
          L[p][i] = d /\ K[e[p]][i] = e[d] /\ e[p] \in Under(K, n)
    BY <2>3
  <2>5. PICK q \in D : \E j \in 1 .. Len(K[e[q]]) :
          L[q][j] = b /\ K[e[q]][j] = e[b] /\ e[q] \in Under(K, n)
    BY <1>6, <2>2
  <2>6. PICK j \in 1 .. Len(K[e[q]]) :
          L[q][j] = b /\ K[e[q]][j] = e[b] /\ e[q] \in Under(K, n)
    BY <2>5
  <2>7. PICK u : u = e[p]
    OBVIOUS
  <2>8. PICK v : v = e[q]
    OBVIOUS
  <2>9. u \in Nodes /\ v \in Nodes /\ m \in Nodes /\ Kid(K, u, m) /\ Kid(K, v, m)
    BY <1>4, <1>8, <2>1, <2>4, <2>6, <2>7, <2>8 DEF Kid, In
  <2>10. u = v /\ IsInjective(K[u]) /\ K[u] \in Seq(Nodes)
    BY <1>2, <1>5, <2>9 DEF Forest, Apart, Rows
  <2>11. i = j
    <3>1. DOMAIN K[u] = 1 .. Len(K[u]) /\ i \in DOMAIN K[u] /\ j \in DOMAIN K[u] /\ K[u][i] = K[u][j]
      BY <2>1, <2>4, <2>6, <2>7, <2>8, <2>10
    <3> QED
      BY <2>10, <3>1 DEF IsInjective
  <2>12. p # q
    BY <2>1, <2>4, <2>6, <2>11
  <2>13. Twice(u)
    BY <2>7, <2>8, <2>10, <2>12
  <2>14. u \in S
    BY <1>8, <2>4, <2>7, <2>13
  <2> QED
    BY <2>9, <2>14
<1>10. S = {}
  <2>1. S \in SUBSET Nodes
    BY <1>4, <1>8
  <2> QED
    BY <1>5, <1>9, <2>1 DEF Forest, Founded
<1>11. ASSUME NEW d \in D, NEW b \in D, e[d] = e[b] PROVE d = b
  <2>1. e[d] \in Under(K, n)
    BY <1>1
  <2>2. ~Twice(e[d])
    BY <1>8, <1>10, <2>1
  <2> QED
    BY <1>11, <2>2
<1> QED
  BY <1>11

\* Every item below n has a copy in D.
Covers(K, n, D, e) == \A m \in Under(K, n) : \E d \in D : e[d] = m

\* Nothing below n is left out.
LEMMA AllCopied ==
  ASSUME NEW g, NEW K, NEW H, Shows(g, K, H), NEW n, n \in g.alive, NEW new, NEW h, NEW L, NEW e,
         Grafted(g, K, H, n, new, h, L, e), NEW D, D = h.alive \ g.alive
  PROVE  Covers(K, n, D, e)
<1>1. /\ new \in D /\ e \in [D -> Under(K, n)] /\ e[new] = n /\ Copied(K, L, D, e)
  BY DEF Grafted
<1>2. K \in Rows /\ g.alive \in SUBSET Nodes
  BY AliveClosed
<1>3. n \in Nodes /\ Under(K, n) \in SUBSET Nodes
  BY <1>2, UnderIsLeast
<1>4. PICK S : S = {e[d] : d \in D}
  OBVIOUS
<1>5. n \in S /\ S \in SUBSET Nodes
  BY <1>1, <1>3, <1>4
<1>6. ASSUME NEW m \in S, NEW c \in Nodes, Kid(K, m, c) PROVE c \in S
  <2>1. PICK d \in D : m = e[d]
    BY <1>4
  <2>2. PICK i \in 1 .. Len(K[m]) : K[m][i] = c
    BY <1>6 DEF Kid, In
  <2>3. Len(L[d]) = Len(K[m]) /\ L[d][i] \in D /\ e[L[d][i]] = c
    BY <1>1, <2>1, <2>2 DEF Copied
  <2> QED
    BY <1>4, <2>3
<1>7. Under(K, n) \subseteq S
  BY <1>2, <1>3, <1>5, <1>6, UnderIsLeast
<1> QED
  BY <1>4, <1>7 DEF Covers

\* f gives the copy of every item below n.
Clones(K, L, D, n, new, f) ==
  /\ f \in [Under(K, n) -> D] /\ f[n] = new /\ IsInjective(f) /\ Range(f) = D
  /\ \A m \in DOMAIN f : L[f[m]] = [i \in DOMAIN K[m] |-> f[K[m][i]]]

\* D are the copies of what is below n.
Copying(g, K, H, n, new, h, L, e, D) ==
  Shows(g, K, H) /\ n \in g.alive /\ Grafted(g, K, H, n, new, h, L, e) /\ D = h.alive \ g.alive

\* All that is below n is copied.
Cloned(K, L, D, n, new) == \E f : Clones(K, L, D, n, new, f)

\* The copies are named by a function.
LEMMA CloneExists ==
  ASSUME NEW g, NEW K, NEW H, NEW n, NEW new, NEW h, NEW L, NEW e, NEW D,
         Copying(g, K, H, n, new, h, L, e, D)
  PROVE  Cloned(K, L, D, n, new)
<1>1. /\ Shows(g, K, H) /\ n \in g.alive /\ Grafted(g, K, H, n, new, h, L, e) /\ D = h.alive \ g.alive
  BY DEF Copying
<1>2. /\ Shows(h, L, H \cup {new}) /\ new \in D /\ e \in [D -> Under(K, n)] /\ e[new] = n /\ Copied(K, L, D, e)
  BY <1>1 DEF Grafted
<1>3. K \in Rows /\ g.alive \in SUBSET Nodes
  BY <1>1, AliveClosed
<1>4. L \in Rows /\ h.alive \in SUBSET Nodes
  BY <1>2, AliveClosed
<1>5. /\ n \in Nodes /\ Under(K, n) \in SUBSET Nodes /\ n \in Under(K, n) /\ D \in SUBSET Nodes
      /\ \A m \in Under(K, n), c \in Nodes : Kid(K, m, c) => c \in Under(K, n)
  BY <1>1, <1>3, <1>4, UnderIsLeast
<1>6. \A d, b \in D : e[d] = e[b] => d = b
  BY <1>1, CopiesDiffer
<1>7. \A m \in Under(K, n) : \E d \in D : e[d] = m
  <2>1. Covers(K, n, D, e)
    BY ONLY <1>1, AllCopied
  <2> QED
    BY <2>1 DEF Covers
<1>8. PICK f : f = [m \in Under(K, n) |-> CHOOSE d \in D : e[d] = m]
  OBVIOUS
<1>9. \A m \in Under(K, n) : f[m] \in D /\ e[f[m]] = m
  BY <1>7, <1>8
<1>10. \A d \in D : e[d] \in Under(K, n) /\ f[e[d]] = d
  BY <1>2, <1>6, <1>9
<1>11. f \in [Under(K, n) -> D] /\ DOMAIN f = Under(K, n)
  BY <1>8, <1>9
<1>12. f[n] = new
  BY <1>2, <1>10
<1>13. IsInjective(f)
  BY <1>9, <1>11 DEF IsInjective
<1>14. Range(f) = D
  BY <1>9, <1>10, <1>11 DEF Range
<1>15. ASSUME NEW m \in Under(K, n) PROVE L[f[m]] = [i \in DOMAIN K[m] |-> f[K[m][i]]]
  <2>1. PICK d \in D : d = f[m]
    BY <1>9
  <2>2. e[d] = m
    BY <1>9, <2>1
  <2>3. Len(L[d]) = Len(K[m]) /\ \A i \in 1 .. Len(L[d]) : L[d][i] \in D /\ e[L[d][i]] = K[m][i]
    BY <1>2, <2>2 DEF Copied
  <2>4. L[d] \in Seq(Nodes) /\ K[m] \in Seq(Nodes)
    BY <1>3, <1>4, <1>5 DEF Rows
  <2>5. \A i \in DOMAIN K[m] : L[d][i] = f[K[m][i]]
    BY <1>10, <2>3, <2>4
  <2>6. DOMAIN L[d] = DOMAIN K[m]
    BY <2>3, <2>4
  <2>7. L[d] = [i \in DOMAIN L[d] |-> L[d][i]]
    BY <2>4
  <2> QED
    BY <2>1, <2>5, <2>6, <2>7
<1> QED
  BY <1>11, <1>12, <1>13, <1>14, <1>15 DEF Clones, Cloned

\* A copy of a subtree is the other way to build.
LEMMA BuildCopyStep ==
  ASSUME NEW K, Shows(heap, K, held), NEW n, n \in heap.alive, NEW new, NEW L, NEW e, NEW h,
         Grafted(heap, K, held, n, new, h, L, e), heap' = h, held' = held \cup {new}
  PROVE  Follows
<1>1. PICK H : H = held \cup {new}
  OBVIOUS
<1>2. /\ Shows(h, L, H) /\ heap' = h /\ held' = H
      /\ heap.alive \subseteq h.alive /\ new \in h.alive /\ new \notin heap.alive
      /\ \A m \in heap.alive : L[m] = K[m]
  BY <1>1 DEF Grafted
<1>3. Becomes(L, H)
  BY ONLY <1>2, BecomesIs
<1>4. IInv' /\ Shown(heap) = K /\ Shown(heap)' = L /\ K \in Rows
  BY <1>3, BecomesInv
<1>5. PICK D : D = h.alive \ heap.alive
  OBVIOUS
<1>6. PICK f : Clones(K, L, D, n, new, f)
  <2>1. Cloned(K, L, D, n, new)
    <3>1. Copying(heap, K, held, n, new, h, L, e, D)
      BY <1>5 DEF Copying
    <3> QED
      BY ONLY <3>1, CloneExists
  <2> QED
    BY <2>1 DEF Cloned
<1>7. L = [m \in Nodes |-> IF m \in D THEN L[m] ELSE K[m]]
  <2>1. L \in Rows /\ \A m \in Nodes : m \notin h.alive => L[m] = << >>
    BY <1>2, AliveClosed
  <2>2. \A m \in Nodes : m \notin heap.alive => K[m] = << >>
    BY AliveClosed
  <2>3. \A m \in Nodes : m \notin D => L[m] = K[m]
    BY <1>2, <1>5, <2>1, <2>2
  <2>4. L = [m \in Nodes |-> L[m]]
    BY <2>1 DEF Rows
  <2> QED
    BY <2>3, <2>4
<1>8. Tree!Subtree(n) = Under(K, n)
  BY <1>4, SubtreeIs
<1>9. D = heap'.alive \ heap.alive /\ new \in D /\ heap.alive \subseteq heap'.alive /\ held' = held \cup {new}
  BY <1>1, <1>2, <1>5
<1>10. /\ Tree!IsInjective(f) /\ Tree!Range(f) = D /\ f \in [Tree!Subtree(n) -> D] /\ f[n] = new
       /\ \A m \in DOMAIN f : L[f[m]] = [i \in DOMAIN K[m] |-> f[K[m][i]]]
  BY <1>6, <1>8, SameInj, SameRange DEF Clones
<1>11. Tree!Build(new)
  BY <1>4, <1>7, <1>9, <1>10 DEF Tree!Build
<1>12. new \in Nodes
  BY <1>2, AliveClosed
<1>13. Tree!Next
  BY <1>11, <1>12 DEF Tree!Next
<1> QED
  BY <1>4, <1>13 DEF Follows

\* cJSON_Duplicate of a whole subtree.
LEMMA DuplicateStep ==
  ASSUME NEW K, Shows(heap, K, held), NEW item \in Containers, NEW fresh \in Fresh, Duplicate(item, fresh)
  PROVE  Follows
<1>1. item \in Nodes /\ item \in heap.alive
  BY ContainerOwns
<1>2. PICK r : r = cJSON_Duplicate(heap, item, fresh)
  OBVIOUS
<1>3. /\ Below(item) \cap heap.isRef = {} /\ heap' = r.heap
      /\ held' = IF r.ok THEN held \cup {fresh[1]} ELSE held
  BY <1>2 DEF Duplicate
<1>4. fresh \in Seq(Nodes) /\ IsInjective(fresh) /\ ToSet(fresh) \cap heap.alive = {}
  BY FreshIs
<1>5. Ready(heap, K, held, item, fresh, 0)
  <2>1. Under(K, item) \cap heap.isRef = {}
    BY <1>1, <1>3, BelowIs
  <2>2. Len(fresh) \in Nat /\ \A i \in 0 + 1 .. Len(fresh) : fresh[i] \notin heap.alive
    BY <1>4 DEF ToSet
  <2>3. 0 \in 0 .. Len(fresh)
    BY <2>2
  <2> QED
    BY <1>1, <1>4, <2>1, <2>2, <2>3 DEF Ready
<1>6. Outcome(heap, K, held, item, fresh, 0, r)
  BY <1>2, <1>5, DuplicateWorks
<1>7. CASE r.ok
  <2>1. \E L, e : Grafted(heap, K, held, item, fresh[0 + 1], r.heap, L, e)
    BY <1>6, <1>7 DEF Outcome
  <2>2. PICK L, e : Grafted(heap, K, held, item, fresh[1], r.heap, L, e)
    BY <2>1
  <2>3. PICK new : new = fresh[1]
    OBVIOUS
  <2>4. PICK h : h = r.heap
    OBVIOUS
  <2>5. Grafted(heap, K, held, item, new, h, L, e) /\ heap' = h /\ held' = held \cup {new}
    BY <1>3, <1>7, <2>2, <2>3, <2>4
  <2> QED
    BY ONLY <1>1, <2>5, Shows(heap, K, held), BuildCopyStep
<1>8. CASE ~r.ok
  <2>1. PICK h : h = r.heap
    OBVIOUS
  <2>2. Shows(h, K, held) /\ h.alive = heap.alive
    BY <1>6, <1>8, <2>1 DEF Outcome
  <2>3. heap' = h /\ held' = held
    BY <1>3, <1>8, <2>1
  <2> QED
    BY <2>2, <2>3, NothingStep
<1> QED
  BY <1>7, <1>8

\* Before the first call the heap shows the empty forest.
LEMMA InitShows ==
  ASSUME Init
  PROVE  IInv
<1>1. PICK K : K = [n \in Nodes |-> << >>]
  OBVIOUS
<1>2. K \in Rows /\ \A n \in Nodes : K[n] = << >>
  BY <1>1, EmptyRow DEF Rows
<1>3. \A a, n \in Nodes : ~Kid(K, a, n)
  BY <1>2, EmptyRow DEF Kid
<1>4. Forest(K)
  <2>1. Apart(K)
    BY <1>2, <1>3, EmptyRow DEF Apart
  <2>2. Founded(K)
    BY <1>3 DEF Founded
  <2> QED
    BY <1>2, <2>1, <2>2 DEF Forest
<1>5. /\ heap.child = Blank /\ heap.next = Blank /\ heap.prev = Blank /\ heap.string = Blank
      /\ heap.isRef = {} /\ heap.isConst = {} /\ heap.copied = {} /\ heap.alive = {} /\ heap.wild = FALSE
      /\ held = {}
  BY DEF Init
<1>6. /\ Blank \in [Nodes -> Ptr] /\ Blank \in [Nodes -> Keys \cup {NULL}]
      /\ \A n \in Nodes : Blank[n] = NULL
  BY DEF Blank, Ptr
<1>7. heap \in Heaps
  BY <1>6 DEF Init, Heaps
<1>8. Laid(heap, K)
  BY <1>2, <1>5 DEF Laid
<1>9. Rooted(heap, K, held)
  <2>1. \A n \in Nodes : ~HasParent(K, n)
    BY <1>3 DEF HasParent
  <2> QED
    BY <1>5, <2>1 DEF Rooted
<1>10. Cleared(heap)
  BY <1>5, <1>6 DEF Cleared
<1>11. Named(heap)
  <2>1. ~heap.wild
    BY <1>5
  <2> QED
    BY <1>5, <2>1 DEF Named
<1>12. Shows(heap, K, held)
  BY <1>4, <1>7, <1>8, <1>9, <1>10, <1>11 DEF Shows
<1> QED
  BY <1>2, <1>12 DEF IInv

\* The calls that add,
LEMMA AddToStep ==
  ASSUME NEW K, Shows(heap, K, held), NEW a \in Containers, AddTo(a)
  PROVE  Follows
<1>1. ASSUME NEW item \in held, AddItemToArray(a, item) PROVE Follows
  BY <1>1, AddItemToArrayStep
<1>2. ASSUME NEW item \in held, NEW name \in Given, NEW c \in BOOLEAN, AddItemToObject(a, name, item, c)
      PROVE  Follows
  BY <1>2, AddItemToObjectStep
<1>3. ASSUME NEW item \in held, NEW i \in Indices, InsertItemInArray(a, i, item) PROVE Follows
  BY <1>3, InsertItemInArrayStep
<1>4. ASSUME NEW item \in Containers, NEW n \in Nodes, AddItemReferenceToArray(a, item, n) PROVE Follows
  BY <1>4, AddItemReferenceToArrayStep
<1>5. ASSUME NEW item \in Containers, NEW n \in Nodes, NEW name \in Given,
             AddItemReferenceToObject(a, name, item, n)
      PROVE  Follows
  BY <1>5, AddItemReferenceToObjectStep
<1>6. ASSUME NEW n \in Nodes, NEW name \in Given, AddNewToObject(a, name, n) PROVE Follows
  BY <1>6, AddNewToObjectStep
<1> QED
  BY <1>1, <1>2, <1>3, <1>4, <1>5, <1>6 DEF AddTo

\* that take away,
LEMMA TakeFromStep ==
  ASSUME NEW K, Shows(heap, K, held), NEW a \in Containers, TakeFrom(a)
  PROVE  Follows
<1>1. ASSUME NEW i \in Indices, DetachItemFromArray(a, i) PROVE Follows
  BY <1>1, TakenFromStep
<1>2. ASSUME NEW name \in Keys, NEW cs \in BOOLEAN, DetachItemFromObject(a, name, cs) PROVE Follows
  BY <1>2, TakenFromStep
<1>3. ASSUME NEW i \in Indices, DeleteItemFromArray(a, i) PROVE Follows
  BY <1>3, TakenFromStep
<1>4. ASSUME NEW name \in Keys, NEW cs \in BOOLEAN, DeleteItemFromObject(a, name, cs) PROVE Follows
  BY <1>4, TakenFromStep
<1>5. ASSUME NEW item \in held, NEW i \in Indices, ReplaceItemInArray(a, i, item) PROVE Follows
  BY <1>5, ReplaceItemInArrayStep
<1>6. ASSUME NEW item \in held, NEW name \in Given, NEW copy \in Given \cup {NULL}, NEW cs \in BOOLEAN,
             ReplaceItemInObject(a, name, copy, item, cs)
      PROVE  Follows
  BY <1>6, ReplaceItemInObjectStep
<1> QED
  BY <1>1, <1>2, <1>3, <1>4, <1>5, <1>6 DEF TakeFrom

\* and that copy.
LEMMA CopyStep ==
  ASSUME NEW K, Shows(heap, K, held), NEW a \in Containers, Copy(a)
  PROVE  Follows
<1>1. ASSUME NEW n \in Nodes, CreateReference(n, a) \/ DuplicateAlone(a, n) PROVE Follows
  BY <1>1, SecondStep
<1>2. ASSUME NEW fresh \in Fresh, Duplicate(a, fresh) PROVE Follows
  BY <1>2, DuplicateStep
<1> QED
  BY <1>1, <1>2 DEF Copy

\* Every call keeps the invariant and is a step of JsonTree.
LEMMA EveryStep ==
  ASSUME IInv, [Next]_vars
  PROVE  Follows
<1>1. PICK K \in Rows : Shows(heap, K, held)
  BY DEF IInv
<1>2. ASSUME NEW n \in Nodes, Create(n) PROVE Follows
  BY <1>1, <1>2, SingleStep
<1>3. ASSUME NEW a \in Nodes, NEW fresh \in Fresh, NEW count \in Indices, CreateArrayOf(a, fresh, count)
      PROVE  Follows
  BY <1>1, <1>3, CreateArrayOfStep
<1>4. ASSUME NEW a \in Containers, AddTo(a) PROVE Follows
  BY <1>1, <1>4, AddToStep
<1>5. ASSUME NEW a \in Containers, TakeFrom(a) PROVE Follows
  BY <1>1, <1>5, TakeFromStep
<1>6. ASSUME NEW a \in Containers, Copy(a) PROVE Follows
  BY <1>1, <1>6, CopyStep
<1>7. ASSUME NEW n \in held, Delete(n) PROVE Follows
  BY <1>1, <1>7, DeletedStep
<1>8. CASE UNCHANGED vars
  <2>1. heap' = heap /\ held' = held
    BY <1>8 DEF vars
  <2> QED
    BY <1>1, <2>1, NothingStep
<1>9. CASE Next
  BY <1>2, <1>3, <1>4, <1>5, <1>6, <1>7, <1>9 DEF Next
<1> QED
  BY <1>8, <1>9

\* The heap of cJSON.c shows a forest after every call of an obedient caller.
THEOREM ForestShown == Spec => []IInv
<1>1. Init => IInv
  BY InitShows
<1>2. IInv /\ [Next]_vars => IInv'
  BY EveryStep DEF Follows
<1> QED
  BY <1>1, <1>2, PTL DEF Spec

\* The pointers stay among the items and NULL.
THEOREM TreeTypes == Spec => []TypeOK
<1>1. ASSUME IInv PROVE TypeOK
  <2>1. PICK K \in Rows : Shows(heap, K, held)
    BY <1>1 DEF IInv
  <2> QED
    BY <2>1, AliveClosed DEF TypeOK
<1> QED
  BY <1>1, ForestShown, PTL

\* What the rows say of the pointers.
LEMMA ListsFromRows ==
  ASSUME NEW K, Shows(heap, K, held)
  PROVE  ListsWellFormed
<1>1. \A a \in Owners : a \in Nodes /\ a \in heap.alive /\ a \notin heap.isRef /\ Kids(heap, a) = K[a]
  <2>1. heap.alive \in SUBSET Nodes
    BY AliveClosed
  <2> QED
    BY <2>1, KidsAre DEF Owners
<1>2. ASSUME NEW a \in Owners, NEW s, s = Kids(heap, a)
      PROVE  /\ IsInjective(s) /\ ToSet(s) \subseteq heap.alive
             /\ s # << >> => heap.next[Last(s)] = NULL /\ heap.prev[s[1]] = Last(s)
             /\ \A i \in 2 .. Len(s) : heap.prev[s[i]] = s[i - 1]
  <2>1. a \in Nodes /\ a \in heap.alive /\ a \notin heap.isRef /\ s = K[a]
    BY <1>1, <1>2
  <2>2. IsInjective(s) /\ s \in Seq(Nodes) /\ Row(heap, a, s)
    BY <2>1, RowOf
  <2>3. \A n \in ToSet(s) : n \in heap.alive
    <3>1. ASSUME NEW n \in ToSet(s) PROVE n \in heap.alive
      <4>1. n \in Nodes /\ In(s, n)
        BY <2>2, InToSet
      <4>2. Kid(K, a, n)
        BY <2>1, <4>1 DEF Kid
      <4> QED
        BY <2>1, <4>1, <4>2, ParentOwns
    <3> QED
      BY <3>1
  <2>4. ASSUME s # << >> PROVE heap.next[Last(s)] = NULL /\ heap.prev[s[1]] = Last(s)
    <3>1. Len(s) \in Nat /\ Len(s) >= 1 /\ Last(s) = s[Len(s)]
      BY <2>2, <2>4 DEF Last
    <3>2. heap.next[s[Len(s)]] = Nth(s, Len(s) + 1) /\ heap.prev[s[1]] = Prv(s, 1)
      BY <2>2, <3>1 DEF Row
    <3> QED
      BY <3>1, <3>2 DEF Nth, Prv
  <2>5. ASSUME NEW i \in 2 .. Len(s) PROVE heap.prev[s[i]] = s[i - 1]
    <3>1. i \in 1 .. Len(s) /\ i # 1
      BY <2>2
    <3> QED
      BY <2>2, <3>1 DEF Row, Prv
  <2> QED
    BY <2>2, <2>3, <2>4, <2>5
<1>3. ASSUME NEW a \in Owners, NEW n PROVE n \in ToSet(Kids(heap, a)) <=> n \in Nodes /\ Kid(K, a, n)
  <2>1. a \in Nodes /\ Kids(heap, a) = K[a] /\ K[a] \in Seq(Nodes)
    BY <1>1, RowOf
  <2>2. ToSet(K[a]) \in SUBSET Nodes /\ (n \in ToSet(K[a]) <=> In(K[a], n))
    BY <2>1, InToSet
  <2> QED
    BY <2>1, <2>2 DEF Kid
<1>4. ASSUME NEW a \in Owners, NEW b \in Owners, a # b
      PROVE  ToSet(Kids(heap, a)) \cap ToSet(Kids(heap, b)) = {}
  <2>1. ASSUME NEW n, n \in ToSet(Kids(heap, a)), n \in ToSet(Kids(heap, b)) PROVE FALSE
    <3>1. n \in Nodes /\ Kid(K, a, n) /\ Kid(K, b, n) /\ a \in Nodes /\ b \in Nodes
      BY <1>1, <1>3, <2>1
    <3> QED
      BY <1>4, <3>1, ParentOwns
  <2> QED
    BY <2>1
<1>5. ASSUME NEW n \in held
      PROVE  heap.next[n] = NULL /\ \A a \in Owners : n \notin ToSet(Kids(heap, a))
  <2>1. heap.next[n] = NULL /\ ~HasParent(K, n)
    BY HeldIsRoot
  <2> QED
    BY <1>1, <1>3, <2>1 DEF HasParent
<1> QED
  BY <1>2, <1>4, <1>5 DEF ListsWellFormed

\* Every item's children form a list whose prev pointers run backwards and wrap
\* around, no list shares a child with another, and roots stand alone.
THEOREM ChildrenWellFormed == Spec => []ListsWellFormed
<1>1. IInv => ListsWellFormed
  BY ListsFromRows DEF IInv
<1> QED
  BY <1>1, ForestShown, PTL

\* No sequence of calls frees memory twice, frees a constant name, or loses track
\* of who owns a name.
THEOREM NamesAlwaysOwned == Spec => []NamesOwned
<1>1. ASSUME IInv PROVE NamesOwned
  <2>1. PICK K \in Rows : Shows(heap, K, held)
    BY <1>1 DEF IInv
  <2>2. Named(heap) /\ heap \in Heaps /\ heap.alive \in SUBSET Nodes
    BY <2>1, AliveClosed DEF Shows
  <2>3. ~heap.wild
    BY <2>2 DEF Named
  <2>4. heap.copied \subseteq heap.alive
    BY <2>2, HeapFields DEF Named
  <2>5. \A n \in heap.alive : heap.string[n] # NULL => (n \in heap.copied <=> n \notin heap.isConst)
    BY <2>2 DEF Named
  <2> QED
    BY <2>3, <2>4, <2>5 DEF NamesOwned
<1> QED
  BY <1>1, ForestShown, PTL

\* Up from an item without a root above it there would be no end.
LEMMA LeaksFromRows ==
  ASSUME NEW K, Shows(heap, K, held)
  PROVE  OnlyReferencesLeak
<1>1. heap.alive \in SUBSET Nodes /\ held \subseteq heap.alive /\ K \in Rows
  BY AliveClosed
<1>2. \A n \in held : n \in Nodes /\ Below(n) = Under(K, n)
  BY <1>1, BelowIs
<1>3. PICK S : S = {n \in heap.alive : /\ \A m \in held : n \notin Under(K, m)
                                       /\ ~(n \in heap.isRef /\ heap.string[n] = NULL)}
  OBVIOUS
<1>4. ASSUME NEW n \in S PROVE \E a \in S : Kid(K, a, n)
  <2>1. n \in heap.alive /\ n \in Nodes
    BY <1>1, <1>3
  <2>2. n \notin held
    BY <1>1, <1>2, <1>3, UnderIsLeast
  <2>3. HasParent(K, n)
    BY <1>3, <2>1, <2>2 DEF Shows, Rooted
  <2>4. PICK a \in Nodes : Kid(K, a, n)
    BY <2>3 DEF HasParent
  <2>5. a \in heap.alive /\ a \notin heap.isRef
    BY <2>1, <2>4, ParentOwns
  <2>6. \A m \in held : a \notin Under(K, m)
    BY <1>1, <1>2, <1>3, <2>1, <2>4, UnderIsLeast
  <2> QED
    BY <1>3, <2>4, <2>5, <2>6
<1>5. S = {}
  <2>1. S \in SUBSET Nodes
    BY <1>1, <1>3
  <2> QED
    BY <1>4, <2>1 DEF Shows, Forest, Founded
<1>6. ASSUME NEW n \in heap.alive, n \notin UNION {Below(m) : m \in held}
      PROVE  n \in heap.isRef /\ heap.string[n] = NULL
  <2>1. \A m \in held : n \notin Under(K, m)
    BY <1>2, <1>6
  <2> QED
    BY <1>3, <1>5, <2>1
<1> QED
  BY <1>6 DEF OnlyReferencesLeak

\* The caller can reach everything allocated, but for references whose name could
\* not be copied.
THEOREM LeaksOnlyReferences == Spec => []OnlyReferencesLeak
<1>1. IInv => OnlyReferencesLeak
  BY LeaksFromRows DEF IInv
<1> QED
  BY <1>1, ForestShown, PTL

\* cJSON.c implements JsonTree: every call is one operation on sequences of
\* children, or changes nothing.
THEOREM TreeRefines == Spec => ImplementsTree
<1>1. Init => Tree!Init
  <2>1. ASSUME Init PROVE Tree!Init
    <3>1. PICK K \in Rows : Shows(heap, K, held)
      BY <2>1, InitShows DEF IInv
    <3>2. heap.alive = {} /\ held = {}
      BY <2>1 DEF Init
    <3>3. Shown(heap) = K
      BY <3>1, ShownIs
    <3>4. \A n \in Nodes : K[n] = << >>
      BY <3>1, <3>2, AliveClosed
    <3>5. K = [n \in Nodes |-> << >>]
      BY <3>4 DEF Rows
    <3> QED
      BY <3>2, <3>3, <3>5 DEF Tree!Init
  <2> QED
    BY <2>1
<1>2. IInv /\ [Next]_vars => [Tree!Next]_(Tree!vars)
  BY EveryStep DEF Follows
<1> QED
  BY <1>1, <1>2, ForestShown, PTL DEF Spec, ImplementsTree, Tree!Spec
=============================================================================
