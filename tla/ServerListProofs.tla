-------------------------- MODULE ServerListProofs --------------------------
(***************************************************************************)
(* Proofs about the list of threads in Server, for any number of nodes and *)
(* every set of faults: it holds exactly the nodes that are allocated, and *)
(* the server ends with all of them joined and freed.                      *)
(***************************************************************************)
EXTENDS ServerProofs, FiniteSetTheorems

-----------------------------------------------------------------------------
(* Singly linked lists                                                      *)

(* w visits the n nodes of L, each once, from hd along nx to the end.       *)
Chain(w, n, hd, nx, L) ==
    /\ w \in [0 .. n -> Nodes \cup {NoNode}]
    /\ w[0] = hd /\ w[n] = NoNode
    /\ \A k \in 0 .. n - 1 : w[k] \in L /\ w[k + 1] = nx[w[k]]
    /\ \A i, j \in 0 .. n - 1 : w[i] = w[j] => i = j
    /\ \A x \in L : \E k \in 0 .. n - 1 : w[k] = x

IsList(hd, nx, L) == L \subseteq Nodes /\ \E w : Chain(w, Cardinality(L), hd, nx, L)

LEMMA SizeIsNat ==
    ASSUME NEW L, L \subseteq Nodes
    PROVE  IsFiniteSet(L) /\ Cardinality(L) \in Nat /\ Cardinality(L) <= Cardinality(Nodes)
  BY FS_Subset, FS_CardinalityType, ServerAssumption

LEMMA EmptyList ==
    ASSUME NEW nx
    PROVE  IsList(NoNode, nx, {})
<1>1. Cardinality({}) = 0
  BY FS_EmptySet
<1>2. PICK w : w = [k \in 0 .. 0 |-> NoNode]
  OBVIOUS
<1>3. Chain(w, 0, NoNode, nx, {})
  BY <1>2 DEF Chain
<1> QED  BY <1>1, <1>3 DEF IsList

(* The ends of a list.                                                      *)
LEMMA ListEnds ==
    ASSUME NEW hd, NEW nx, NEW L, IsList(hd, nx, L)
    PROVE  /\ hd \in L \cup {NoNode}
           /\ hd = NoNode => L = {}
           /\ \A x \in L : nx[x] \in (L \ {x}) \cup {NoNode}
<1>1. PICK n \in Nat : n = Cardinality(L)
  BY SizeIsNat DEF IsList
<1>2. PICK w : Chain(w, n, hd, nx, L)
  BY <1>1 DEF IsList
<1>3. ASSUME n = 0 PROVE hd = NoNode /\ L = {}
  BY <1>2, <1>3 DEF Chain
<1>4. ASSUME n # 0 PROVE hd \in L /\ hd # NoNode
  <2>1. 0 \in 0 .. n - 1
    BY <1>4
  <2> QED  BY <1>2, <2>1, ServerAssumption DEF Chain, IsList
<1>5. ASSUME NEW x \in L PROVE nx[x] \in (L \ {x}) \cup {NoNode}
  <2>1. PICK k \in 0 .. n - 1 : w[k] = x
    BY <1>2 DEF Chain
  <2>2. nx[x] = w[k + 1]
    BY <1>2, <2>1 DEF Chain
  <2>3. CASE k + 1 = n
    BY <1>2, <2>2, <2>3 DEF Chain
  <2>4. CASE k + 1 # n
    <3>1. k + 1 \in 0 .. n - 1 /\ k + 1 # k
      BY <2>4
    <3> QED  BY <1>2, <2>1, <2>2, <3>1 DEF Chain
  <2> QED  BY <2>3, <2>4
<1> QED  BY <1>3, <1>4, <1>5

(* SLIST_INSERT_HEAD                                                        *)
LEMMA ListInsert ==
    ASSUME NEW hd, NEW nx \in [Nodes -> Nodes \cup {NoNode}], NEW L, IsList(hd, nx, L),
           NEW m \in Nodes \ L
    PROVE  IsList(m, [nx EXCEPT ![m] = hd], L \cup {m})
<1>1. PICK n \in Nat : n = Cardinality(L)
  BY SizeIsNat DEF IsList
<1>2. PICK w : Chain(w, n, hd, nx, L)
  BY <1>1 DEF IsList
<1>3. Cardinality(L \cup {m}) = n + 1
  <2>1. IsFiniteSet(L)
    BY SizeIsNat DEF IsList
  <2> QED  BY <1>1, <2>1, FS_AddElement
<1>4. PICK nx2 : /\ nx2 = [nx EXCEPT ![m] = hd] /\ nx2[m] = hd
                 /\ \A x \in Nodes \ {m} : nx2[x] = nx[x]
  <2>1. PICK f : f = [nx EXCEPT ![m] = hd]
    OBVIOUS
  <2>2. f[m] = hd /\ \A x \in Nodes \ {m} : f[x] = nx[x]
    BY <2>1
  <2> QED  BY <2>1, <2>2
<1>5. PICK v : v = [k \in 0 .. n + 1 |-> IF k = 0 THEN m ELSE w[k - 1]]
  OBVIOUS
<1>6. \A k \in 0 .. n : w[k] \in Nodes \cup {NoNode}
  BY <1>2 DEF Chain
<1>7. v \in [0 .. n + 1 -> Nodes \cup {NoNode}] /\ v[0] = m
  BY <1>5, <1>6
<1>8. \A k \in 0 .. n : k + 1 \in 0 .. n + 1 /\ v[k + 1] = w[k]
  BY <1>5
<1>9. v[n + 1] = NoNode
  BY <1>2, <1>8 DEF Chain
<1>10. ASSUME NEW k \in 0 .. (n + 1) - 1
       PROVE  v[k] \in L \cup {m} /\ v[k + 1] = nx2[v[k]]
  <2>1. CASE k = 0
    BY <1>2, <1>4, <1>7, <1>8, <2>1 DEF Chain
  <2>2. CASE k # 0
    <3>1. k - 1 \in 0 .. n - 1 /\ k - 1 \in 0 .. n /\ (k - 1) + 1 = k /\ k \in 0 .. n
      BY <2>2
    <3>2. v[k] = w[k - 1] /\ v[k + 1] = w[k] /\ w[k - 1] \in L /\ w[k] = nx[w[k - 1]]
      BY <1>2, <1>8, <3>1 DEF Chain
    <3>3. w[k - 1] \in Nodes \ {m}
      BY <3>2 DEF IsList
    <3> QED  BY <1>4, <3>2, <3>3
  <2> QED  BY <2>1, <2>2
<1>11. ASSUME NEW i \in 0 .. (n + 1) - 1, NEW j \in 0 .. (n + 1) - 1, v[i] = v[j] PROVE i = j
  <2>1. \A k \in 0 .. (n + 1) - 1 : k # 0 => k - 1 \in 0 .. n - 1 /\ v[k] = w[k - 1]
    BY <1>5
  <2>2. \A k \in 0 .. n - 1 : w[k] \in L
    BY <1>2 DEF Chain
  <2>3. CASE i = 0 \/ j = 0
    BY <1>7, <1>11, <2>1, <2>2, <2>3
  <2>4. CASE i # 0 /\ j # 0
    <3>1. i - 1 = j - 1
      BY <1>2, <1>11, <2>1, <2>4 DEF Chain
    <3> QED  BY <3>1
  <2> QED  BY <2>3, <2>4
<1>12. ASSUME NEW x \in L \cup {m} PROVE \E k \in 0 .. (n + 1) - 1 : v[k] = x
  <2>1. CASE x = m
    BY <1>7, <2>1
  <2>2. CASE x \in L
    <3>1. PICK k \in 0 .. n - 1 : w[k] = x
      BY <1>2, <2>2 DEF Chain
    <3>2. k + 1 \in 0 .. (n + 1) - 1 /\ v[k + 1] = x
      BY <1>8, <3>1
    <3> QED  BY <3>2
  <2> QED  BY <2>1, <2>2
<1>13. Chain(v, n + 1, m, nx2, L \cup {m})
  BY <1>7, <1>9, <1>10, <1>11, <1>12 DEF Chain
<1> QED  BY <1>3, <1>4, <1>13 DEF IsList

(* free of a node that is not on the list.                                  *)
LEMMA ListKeeps ==
    ASSUME NEW hd, NEW nx \in [Nodes -> Nodes \cup {NoNode}], NEW L, IsList(hd, nx, L),
           NEW x, x \notin L, NEW y
    PROVE  IsList(hd, [nx EXCEPT ![x] = y], L)
<1>1. PICK n \in Nat : n = Cardinality(L)
  BY SizeIsNat DEF IsList
<1>2. PICK w : Chain(w, n, hd, nx, L)
  BY <1>1 DEF IsList
<1>3. PICK nx2 : nx2 = [nx EXCEPT ![x] = y] /\ \A z \in L : nx2[z] = nx[z]
  BY DEF IsList
<1>4. Chain(w, n, hd, nx2, L)
  BY <1>2, <1>3 DEF Chain
<1> QED  BY <1>1, <1>3, <1>4 DEF IsList

(* SLIST_REMOVE: the one before x is linked to the one behind it.           *)
Unlinked(hd, nx, L, x, hd2, nx2) ==
    \/ hd = x /\ hd2 = nx[x] /\ nx2 = nx
    \/ /\ hd # x /\ hd2 = hd
       /\ \E c \in L : nx[c] = x /\ nx2 = [nx EXCEPT ![c] = nx[x]]

LEMMA ListRemove ==
    ASSUME NEW hd, NEW nx \in [Nodes -> Nodes \cup {NoNode}], NEW L, IsList(hd, nx, L),
           NEW x \in L, NEW hd2, NEW nx2, Unlinked(hd, nx, L, x, hd2, nx2)
    PROVE  IsList(hd2, nx2, L \ {x})
<1>1. PICK n \in Nat : n = Cardinality(L)
  BY SizeIsNat DEF IsList
<1>2. PICK w : Chain(w, n, hd, nx, L)
  BY <1>1 DEF IsList
<1>3. Cardinality(L \ {x}) = n - 1
  <2>1. IsFiniteSet(L)
    BY SizeIsNat DEF IsList
  <2> QED  BY <1>1, <2>1, FS_RemoveElement
<1>4. PICK p \in 0 .. n - 1 : w[p] = x
  BY <1>2 DEF Chain
<1>5. n - 1 \in Nat /\ p \in 0 .. n /\ p + 1 \in 0 .. n /\ n \in 0 .. n /\ 0 \in 0 .. n
  BY <1>4
<1>6. /\ w \in [0 .. n -> Nodes \cup {NoNode}]
      /\ \A k \in 0 .. n - 1 : w[k] \in L /\ w[k] \in Nodes /\ w[k + 1] = nx[w[k]]
      /\ \A i, j \in 0 .. n - 1 : w[i] = w[j] => i = j
  BY <1>2 DEF Chain, IsList
<1>7. PICK v : v = [k \in 0 .. n - 1 |-> IF k < p THEN w[k] ELSE w[k + 1]]
  OBVIOUS
<1>8. \A k \in 0 .. n - 1 : /\ k \in 0 .. n /\ k + 1 \in 0 .. n
                            /\ v[k] = IF k < p THEN w[k] ELSE w[k + 1]
  BY <1>7
<1>9. v \in [0 .. n - 1 -> Nodes \cup {NoNode}]
  BY <1>6, <1>7, <1>8
<1>10. /\ nx2 \in [Nodes -> Nodes \cup {NoNode}]
       /\ p = 0 => hd2 = w[1] /\ nx2 = nx
       /\ p # 0 => hd2 = w[0] /\ nx2 = [nx EXCEPT ![w[p - 1]] = w[p + 1]]
  <2>1. hd = w[0] /\ nx[x] = w[p + 1] /\ nx[x] \in Nodes \cup {NoNode}
    BY <1>2, <1>4, <1>5, <1>6 DEF Chain
  <2>2. CASE p = 0
    <3>1. hd = x
      BY <1>4, <2>1, <2>2
    <3>2. hd2 = nx[x] /\ nx2 = nx
      BY <3>1 DEF Unlinked
    <3>3. p + 1 = 1
      BY <2>2
    <3> QED  BY <2>1, <2>2, <3>2, <3>3
  <2>3. CASE p # 0
    <3>1. 0 \in 0 .. n - 1 /\ p - 1 \in 0 .. n - 1 /\ (p - 1) + 1 = p
      BY <1>4, <2>3
    <3>2. hd # x
      BY <1>4, <1>6, <2>1, <2>3, <3>1
    <3>3. PICK c \in L : nx[c] = x /\ nx2 = [nx EXCEPT ![c] = nx[x]] /\ hd2 = hd
      BY <3>2 DEF Unlinked
    <3>4. PICK j \in 0 .. n - 1 : w[j] = c
      BY <1>2 DEF Chain
    <3>5. w[j + 1] = x
      BY <1>6, <3>3, <3>4
    <3>6. j + 1 # n
      <4>1. w[n] = NoNode /\ x # NoNode
        BY <1>2, <1>4, <1>6, ServerAssumption DEF Chain
      <4> QED  BY <3>5, <4>1
    <3>7. j + 1 \in 0 .. n - 1
      BY <3>4, <3>6
    <3>8. j + 1 = p
      BY <1>4, <1>6, <3>5, <3>7
    <3>9. j = p - 1
      BY <3>8
    <3>10. nx2 = [nx EXCEPT ![w[p - 1]] = w[p + 1]] /\ hd2 = w[0]
      BY <2>1, <3>3, <3>4, <3>9
    <3> QED  BY <2>1, <2>3, <3>3, <3>10
  <2> QED  BY <2>2, <2>3
<1>11. v[0] = hd2
  <2>1. 0 \in 0 .. n - 1
    BY <1>5
  <2>2. CASE p = 0
    BY <1>8, <1>10, <2>1, <2>2
  <2>3. CASE p # 0
    <3>1. 0 < p
      BY <2>3
    <3> QED  BY <1>8, <1>10, <2>1, <2>3, <3>1
  <2> QED  BY <2>2, <2>3
<1>12. v[n - 1] = NoNode
  <2>1. n - 1 \in 0 .. n - 1 /\ ~(n - 1 < p) /\ (n - 1) + 1 = n
    BY <1>4, <1>5
  <2>2. v[n - 1] = w[n]
    BY <1>8, <2>1
  <2> QED  BY <1>2, <2>2 DEF Chain
<1>13. ASSUME NEW k \in 0 .. (n - 1) - 1
       PROVE  v[k] \in L \ {x} /\ v[k + 1] = nx2[v[k]]
  <2>1. k \in 0 .. n - 1 /\ k + 1 \in 0 .. n - 1 /\ k \in 0 .. n
    OBVIOUS
  <2>2. CASE k + 1 < p
    <3>1. v[k] = w[k] /\ v[k + 1] = w[k + 1]
      BY <1>8, <2>1, <2>2
    <3>2. p - 1 \in 0 .. n - 1 /\ k # p - 1 /\ k # p /\ p # 0
      BY <2>2
    <3>3. w[k] # w[p - 1] /\ w[k] # x /\ w[k] \in L /\ w[k] \in Nodes /\ w[k + 1] = nx[w[k]]
      BY <1>4, <1>6, <2>1, <3>2
    <3> QED  BY <1>10, <3>1, <3>2, <3>3
  <2>3. CASE k + 1 = p
    <3>1. k < p /\ ~(k + 1 < p) /\ p - 1 = k /\ (k + 1) + 1 = p + 1 /\ p # 0 /\ k # p
      BY <2>3
    <3>2. v[k] = w[k] /\ v[k + 1] = w[p + 1]
      BY <1>8, <2>1, <3>1
    <3>3. w[k] # x /\ w[k] \in L /\ w[k] \in Nodes
      BY <1>4, <1>6, <2>1, <3>1
    <3>4. nx2 = [nx EXCEPT ![w[k]] = w[p + 1]]
      BY <1>10, <3>1
    <3> QED  BY <3>2, <3>3, <3>4
  <2>4. CASE k >= p
    <3>1. v[k] = w[k + 1] /\ v[k + 1] = w[(k + 1) + 1]
      BY <1>8, <2>1, <2>4
    <3>2. w[k + 1] \in L /\ w[k + 1] \in Nodes /\ w[(k + 1) + 1] = nx[w[k + 1]]
      BY <1>6, <2>1
    <3>3. w[k + 1] # x
      BY <1>4, <1>6, <2>1, <2>4
    <3>4. nx2[w[k + 1]] = nx[w[k + 1]]
      <4>1. CASE p = 0
        BY <1>10, <4>1
      <4>2. CASE p # 0
        <5>1. p - 1 \in 0 .. n - 1 /\ k + 1 # p - 1
          BY <2>4, <4>2
        <5>2. w[k + 1] # w[p - 1]
          BY <1>6, <2>1, <5>1
        <5> QED  BY <1>10, <3>2, <4>2, <5>2
      <4> QED  BY <4>1, <4>2
    <3> QED  BY <3>1, <3>2, <3>3, <3>4
  <2> QED  BY <2>2, <2>3, <2>4
<1>14. ASSUME NEW i \in 0 .. (n - 1) - 1, NEW j \in 0 .. (n - 1) - 1, v[i] = v[j] PROVE i = j
  <2>1. /\ i \in 0 .. n - 1 /\ j \in 0 .. n - 1 /\ i + 1 \in 0 .. n - 1 /\ j + 1 \in 0 .. n - 1
    OBVIOUS
  <2>2. PICK a \in 0 .. n - 1 : v[i] = w[a] /\ a = IF i < p THEN i ELSE i + 1
    BY <1>8, <2>1
  <2>3. PICK b \in 0 .. n - 1 : v[j] = w[b] /\ b = IF j < p THEN j ELSE j + 1
    BY <1>8, <2>1
  <2>4. a = b
    BY <1>6, <1>14, <2>2, <2>3
  <2> QED  BY <2>2, <2>3, <2>4
<1>15. ASSUME NEW y \in L \ {x} PROVE \E k \in 0 .. (n - 1) - 1 : v[k] = y
  <2>1. PICK k \in 0 .. n - 1 : w[k] = y
    BY <1>2 DEF Chain
  <2>2. k # p
    BY <1>4, <2>1
  <2>3. CASE k < p
    <3>1. k \in 0 .. (n - 1) - 1 /\ v[k] = y
      BY <1>8, <2>1, <2>3
    <3> QED  BY <3>1
  <2>4. CASE k > p
    <3>1. k - 1 \in 0 .. (n - 1) - 1 /\ k - 1 \in 0 .. n - 1 /\ ~(k - 1 < p) /\ (k - 1) + 1 = k
      BY <2>4
    <3>2. v[k - 1] = y
      BY <1>8, <2>1, <3>1
    <3> QED  BY <3>1, <3>2
  <2> QED  BY <2>2, <2>3, <2>4
<1>16. Chain(v, n - 1, hd2, nx2, L \ {x})
  BY <1>9, <1>11, <1>12, <1>13, <1>14, <1>15 DEF Chain
<1> QED  BY <1>3, <1>16 DEF IsList

LEMMA WalkDefined ==
    ASSUME TypeOK
    PROVE  /\ DOMAIN Walk = 0 .. Cardinality(Nodes)
           /\ Walk[0] = head
           /\ \A k \in 1 .. Cardinality(Nodes) :
                 Walk[k] = IF Walk[k - 1] = NoNode THEN NoNode ELSE next[Walk[k - 1]]
<1>1. PICK N \in Nat : N = Cardinality(Nodes)
  BY SizeIsNat
<1>2. PICK S : S = Nodes \cup {NoNode} /\ head \in S
  BY DEF TypeOK
<1>3. PICK g : g = [p \in (1 .. N) \X S |-> IF p[2] = NoNode THEN NoNode ELSE next[p[2]]]
  OBVIOUS
<1>4. g \in [(1 .. N) \X S -> S]
  BY <1>2, <1>3 DEF TypeOK
<1>5. PICK f \in [0 .. N -> S] : Follows(f, N, head, g)
  BY <1>2, <1>4, RecursionExists
<1>6. ASSUME NEW k \in 1 .. N
      PROVE  f[k] = IF f[k - 1] = NoNode THEN NoNode ELSE next[f[k - 1]]
  <2>1. f[k - 1] \in S /\ f[k] = g[<<k, f[k - 1]>>]
    BY <1>5 DEF Follows
  <2> QED  BY <1>3, <2>1
<1>7. f = [k \in 0 .. N |-> IF k = 0 THEN head
                          ELSE IF f[k - 1] = NoNode THEN NoNode ELSE next[f[k - 1]]]
  BY <1>5, <1>6 DEF Follows
<1>8. PICK at : at = Walk
  OBVIOUS
<1>9. at = CHOOSE f2 : f2 = [k \in 0 .. N |-> IF k = 0 THEN head
                               ELSE IF f2[k - 1] = NoNode THEN NoNode ELSE next[f2[k - 1]]]
  BY <1>1, <1>8, SMTT(30) DEF Walk
<1>10. at = [k \in 0 .. N |-> IF k = 0 THEN head
                            ELSE IF at[k - 1] = NoNode THEN NoNode ELSE next[at[k - 1]]]
  BY <1>7, <1>9
<1>11. /\ DOMAIN at = 0 .. N /\ at[0] = head
       /\ \A k \in 1 .. N : at[k] = IF at[k - 1] = NoNode THEN NoNode ELSE next[at[k - 1]]
  BY <1>10
<1> QED  BY <1>1, <1>8, <1>11

(* Walk follows the list to its end.                                        *)
LEMMA WalkVisits ==
    ASSUME TypeOK, NEW L, IsList(head, next, L)
    PROVE  Walk[Cardinality(Nodes)] = NoNode /\ Listed = L
<1>1. PICK N \in Nat : N = Cardinality(Nodes)
  BY SizeIsNat
<1>2. PICK n \in 0 .. N : n = Cardinality(L)
  BY <1>1, SizeIsNat DEF IsList
<1>3. PICK w : Chain(w, n, head, next, L)
  BY <1>2 DEF IsList
<1>4. PICK at : /\ at = Walk /\ DOMAIN at = 0 .. N /\ at[0] = head
                /\ \A k \in 1 .. N : at[k] = IF at[k - 1] = NoNode THEN NoNode ELSE next[at[k - 1]]
  BY <1>1, WalkDefined
<1>5. /\ w[0] = head /\ w[n] = NoNode
      /\ \A k \in 0 .. n - 1 : w[k] \in L /\ w[k] # NoNode /\ w[k + 1] = next[w[k]]
  BY <1>3, ServerAssumption DEF Chain, IsList
<1> DEFINE T == {k \in 0 .. N : at[k] = IF k <= n THEN w[k] ELSE NoNode}
<1>6. 0 \in T
  BY <1>4, <1>5
<1>7. ASSUME NEW k \in 0 .. N - 1, k \in T PROVE k + 1 \in T
  <2>1. k + 1 \in 1 .. N /\ (k + 1) - 1 = k
    OBVIOUS
  <2>2. at[k + 1] = IF at[k] = NoNode THEN NoNode ELSE next[at[k]]
    BY <1>4, <2>1
  <2>3. CASE k < n
    BY <1>5, <1>7, <2>1, <2>2, <2>3
  <2>4. CASE k >= n
    BY <1>5, <1>7, <2>1, <2>2, <2>4
  <2> QED  BY <2>3, <2>4
<1> HIDE DEF T
<1>8. 0 .. N \subseteq T
  BY <1>6, <1>7, CountUp
<1>9. \A k \in 0 .. N : at[k] = IF k <= n THEN w[k] ELSE NoNode
  BY <1>8 DEF T
<1>10. at[N] = NoNode
  BY <1>5, <1>9
<1>11. ASSUME NEW x \in L PROVE x \in Listed
  <2>1. PICK k \in 0 .. n - 1 : w[k] = x
    BY <1>3 DEF Chain
  <2>2. k \in 0 .. N /\ at[k] = x /\ x # NoNode
    BY <1>5, <1>9, <2>1
  <2> QED  BY <1>4, <2>2 DEF Listed
<1>12. ASSUME NEW x \in Listed PROVE x \in L
  <2>1. PICK k \in 0 .. N : at[k] = x /\ x # NoNode
    BY <1>4 DEF Listed
  <2>2. k \in 0 .. n - 1 /\ x = w[k]
    BY <1>5, <1>9, <2>1
  <2> QED  BY <1>5, <2>2
<1> QED  BY <1>1, <1>4, <1>10, <1>11, <1>12

-----------------------------------------------------------------------------
(* The invariant of the list                                                *)

OnList == alloc \ Joining

(* Where main's loop variables point, and when the program is ending.       *)
Pointers ==
    /\ pc = "boot" => alloc = {}
    /\ pc = "reap" => dataptr \in alloc \cup {NoNode}
    /\ pc \in {"reap_join", "drain_join"} =>
          dataptr \in alloc /\ tmp \in (alloc \ {dataptr}) \cup {NoNode}
    /\ pc = "drain" => dataptr = head
    /\ pc = "drain_join" => tmp = head
    /\ pc \in {"interrupted", "drain", "drain_join", "cleanup", "ended"} => endProgram
    /\ pc \in {"cleanup", "ended"} => alloc = {}

ThreadsHaveNodes == \A n \in Nodes : thread[n] # "none" => n \in alloc

LInv ==
    /\ ThreadsHaveNodes
    /\ Pointers
    /\ pc # "killed" => IsList(head, next, OnList)

LEMMA LInvInit == Init => LInv
<1> SUFFICES ASSUME Init PROVE LInv
  OBVIOUS
<1>1. OnList = {} /\ head = NoNode
  BY DEF Init, OnList, Joining
<1>2. IsList(head, next, OnList)
  BY <1>1, EmptyList
<1> QED  BY <1>2 DEF Init, LInv, Pointers, ThreadsHaveNodes

(* A step that leaves the list alone and at most ends the process.          *)
LEMMA ListIdle ==
    ASSUME LInv, UNCHANGED <<head, next, alloc, dataptr, tmp>>,
           pc' = pc \/ pc' = "killed", endProgram => endProgram',
           ThreadsHaveNodes'
    PROVE  LInv'
<1>1. Pointers'
  BY DEF LInv, Pointers
<1>2. CASE pc' = pc
  <2>1. OnList' = OnList
    BY <1>2 DEF OnList, Joining
  <2> QED  BY <1>1, <1>2, <2>1 DEF LInv
<1>3. CASE pc' = "killed"
  BY <1>1, <1>3 DEF LInv
<1> QED  BY <1>2, <1>3

(* A step of a thread that still runs.                                      *)
LEMMA ListThreadStep ==
    ASSUME IInv, LInv, NEW n \in Nodes, thread[n] \in Running, NEW label, Goto(n, label),
           UNCHANGED <<head, next, alloc, dataptr, tmp>>,
           pc' = pc \/ pc' = "killed", endProgram => endProgram'
    PROVE  LInv'
<1>1. n \in alloc
  BY DEF IInv, NodesOutliveThreads
<1>2. \A m \in Nodes \ {n} : thread'[m] = thread[m]
  BY DEF Goto, IInv, TypeOK
<1>3. ThreadsHaveNodes'
  BY <1>1, <1>2 DEF LInv, ThreadsHaveNodes
<1> QED  BY <1>3, ListIdle

(* A step of main that only moves its loop variables.                       *)
LEMMA ListMainMoves ==
    ASSUME LInv, UNCHANGED <<next, alloc, thread, endProgram>>, Pointers', pc # "killed",
           head' = head,
           pc \notin {"reap_join", "drain_join"}, pc' \notin {"reap_join", "drain_join"}
    PROVE  LInv'
<1>1. OnList' = OnList
  BY DEF OnList, Joining
<1> QED  BY <1>1 DEF LInv, ThreadsHaveNodes

LEMMA ListNewNode ==
    ASSUME IInv, LInv, NEW fd, NewNode(fd), pc = "accept", UNCHANGED <<thread, endProgram>>
    PROVE  LInv'
<1>1. IsList(head, next, alloc)
  BY DEF LInv, OnList, Joining
<1>2. CASE alloc # Nodes
  <2>1. PICK n \in Nodes \ alloc : n = CHOOSE m \in Nodes : m \notin alloc
    BY <1>2, NewNodeIsFree DEF IInv, TypeOK
  <2>2. /\ alloc' = alloc \cup {n} /\ pc' = "create" /\ dataptr' = n
        /\ head' = n /\ next' = [next EXCEPT ![n] = head]
    BY <1>2, <2>1 DEF NewNode, SLIST_INSERT_HEAD
  <2>3. next \in [Nodes -> Nodes \cup {NoNode}]
    BY DEF IInv, TypeOK
  <2>4. IsList(n, [next EXCEPT ![n] = head], alloc \cup {n})
    BY <1>1, <2>3, ListInsert
  <2>5. OnList' = alloc \cup {n}
    BY <2>2 DEF OnList, Joining
  <2>6. ThreadsHaveNodes' /\ Pointers'
    BY <2>2 DEF LInv, ThreadsHaveNodes, Pointers
  <2> QED  BY <2>2, <2>4, <2>5, <2>6 DEF LInv
<1>3. CASE alloc = Nodes
  <2>1. pc' = "nomemory" /\ UNCHANGED <<head, next, alloc>>
    BY <1>3 DEF NewNode, Crash, list
  <2>2. Pointers'
    BY <2>1 DEF Pointers
  <2> QED  BY <2>1, <2>2, ListMainMoves
<1> QED  BY <1>2, <1>3

LEMMA ListCreate ==
    ASSUME IInv, LInv, CreateThread
    PROVE  LInv'
<1>1. /\ pc = "create" /\ pc' = "reap" /\ dataptr' = head /\ dataptr \in alloc
      /\ UNCHANGED <<head, next, alloc, endProgram>>
  BY DEF CreateThread, list, IInv, AtCreate
<1>2. IsList(head, next, alloc) /\ OnList' = alloc
  BY <1>1 DEF LInv, OnList, Joining
<1>3. head \in alloc \cup {NoNode}
  BY <1>2, ListEnds
<1>4. Pointers'
  BY <1>1, <1>3 DEF Pointers
<1>5. ThreadsHaveNodes'
  <2>1. \A m \in Nodes : m # dataptr => thread'[m] = thread[m]
    BY DEF CreateThread, IInv, TypeOK, local
  <2> QED  BY <1>1, <2>1 DEF LInv, ThreadsHaveNodes
<1> QED  BY <1>1, <1>2, <1>4, <1>5 DEF LInv

(* SLIST_REMOVE in either loop.                                             *)
LEMMA ListUnlink ==
    ASSUME IInv, LInv, pc \in {"reap", "drain"}, dataptr \in alloc, SLIST_REMOVE(dataptr),
           UNCHANGED <<alloc, thread, dataptr, endProgram>>, tmp' = next[dataptr],
           pc = "reap" => pc' = "reap_join",
           pc = "drain" => pc' = "drain_join"
    PROVE  LInv'
<1>1. IsList(head, next, alloc) /\ OnList' = alloc \ {dataptr} /\ pc # "killed"
  BY DEF LInv, OnList, Joining
<1>2. Listed = alloc
  BY <1>1, WalkVisits DEF IInv
<1>3. Unlinked(head, next, alloc, dataptr, head', next')
  BY <1>2 DEF SLIST_REMOVE, Unlinked
<1>4. next \in [Nodes -> Nodes \cup {NoNode}]
  BY DEF IInv, TypeOK
<1>5. IsList(head', next', alloc \ {dataptr})
  BY <1>1, <1>3, <1>4, ListRemove
<1>6. next[dataptr] \in (alloc \ {dataptr}) \cup {NoNode}
  BY <1>1, ListEnds
<1>7. pc = "drain" => head' = next[dataptr]
  BY DEF SLIST_REMOVE, LInv, Pointers
<1>8. Pointers'
  BY <1>6, <1>7 DEF LInv, Pointers
<1> QED  BY <1>1, <1>5, <1>8 DEF LInv, ThreadsHaveNodes

LEMMA ListJoin ==
    ASSUME IInv, LInv, NEW from, NEW to, JoinAndFree(from, to),
           (from = "reap_join" /\ to = "reap") \/ (from = "drain_join" /\ to = "drain")
    PROVE  LInv'
<1>1. /\ pc = from /\ pc # "killed" /\ dataptr \in alloc /\ dataptr \in Nodes
      /\ tmp \in (alloc \ {dataptr}) \cup {NoNode}
      /\ from = "drain_join" => tmp = head /\ endProgram
  BY DEF JoinAndFree, LInv, Pointers, IInv, TypeOK
<1>2. CASE /\ thread' = [thread EXCEPT ![dataptr] = "none"]
           /\ Free /\ pc' = to /\ dataptr' = tmp
  <2>1. /\ alloc' = alloc \ {dataptr} /\ next' = [next EXCEPT ![dataptr] = NoNode]
        /\ head' = head /\ endProgram' = endProgram
    BY <1>2 DEF Free, JoinAndFree
  <2>2. IsList(head, next, alloc \ {dataptr}) /\ OnList' = alloc \ {dataptr}
    BY <1>1, <1>2, <2>1 DEF LInv, OnList, Joining
  <2>3. IsList(head, [next EXCEPT ![dataptr] = NoNode], alloc \ {dataptr})
    <3>1. next \in [Nodes -> Nodes \cup {NoNode}] /\ dataptr \notin alloc \ {dataptr}
      BY DEF IInv, TypeOK
    <3> QED  BY <2>2, <3>1, ListKeeps
  <2>4. Pointers'
    BY <1>1, <1>2, <2>1 DEF Pointers
  <2>5. ThreadsHaveNodes'
    <3>1. thread'[dataptr] = "none" /\ \A m \in Nodes \ {dataptr} : thread'[m] = thread[m]
      BY <1>1, <1>2 DEF IInv, TypeOK
    <3> QED  BY <2>1, <3>1 DEF LInv, ThreadsHaveNodes
  <2> QED  BY <2>1, <2>2, <2>3, <2>4, <2>5 DEF LInv
<1>3. CASE pc' = "killed" /\ UNCHANGED <<thread, alloc, next>>
  <2>1. Pointers'
    BY <1>3 DEF Pointers
  <2> QED  BY <1>3, <2>1 DEF LInv, ThreadsHaveNodes
<1> QED  BY <1>2, <1>3 DEF JoinAndFree, Crash

LEMMA ListMain ==
    ASSUME IInv, LInv, Main
    PROVE  LInv'
<1>1. CASE openSocket
  <2>1. /\ pc = "boot" /\ pc' = "loop" /\ head' = NoNode /\ alloc = {}
        /\ UNCHANGED <<next, alloc, thread, endProgram>>
    BY <1>1 DEF openSocket, LInv, Pointers, local
  <2>2. OnList = {} /\ pc # "killed"
    BY <2>1 DEF OnList
  <2>3. head = NoNode
    BY <2>2, ListEnds DEF LInv
  <2>4. Pointers'
    BY <2>1 DEF Pointers
  <2> QED  BY <2>1, <2>3, <2>4, ListMainMoves
<1>2. CASE CallAccept
  BY <1>2, ListMainMoves DEF CallAccept, LInv, Pointers, list, local
<1>3. CASE AcceptClient
  <2>1. PICK fd : NewNode(fd) /\ pc = "accept" /\ UNCHANGED <<thread, endProgram>>
    BY <1>3 DEF AcceptClient, local
  <2> QED  BY <2>1, ListNewNode
<1>4. CASE AcceptFails
  <2>1. NewNode(BadFd) /\ pc = "accept" /\ UNCHANGED <<thread, endProgram>>
    BY <1>4 DEF AcceptFails, local
  <2> QED  BY <2>1, ListNewNode
<1>5. CASE AcceptInterrupted
  BY <1>5, ListMainMoves DEF AcceptInterrupted, LInv, Pointers, list, local
<1>6. CASE CreateThread
  BY <1>6, ListCreate
<1>7. CASE ReapSkip
  <2>1. /\ pc = "reap" /\ pc' = pc /\ dataptr \in alloc /\ dataptr' = next[dataptr]
        /\ UNCHANGED <<head, next, alloc, thread, endProgram>>
    BY <1>7 DEF ReapSkip, LInv, Pointers, list, local
  <2>2. IsList(head, next, alloc)
    BY <2>1 DEF LInv, OnList, Joining
  <2>3. next[dataptr] \in alloc \cup {NoNode}
    BY <2>1, <2>2, ListEnds
  <2>4. Pointers'
    BY <2>1, <2>3 DEF Pointers
  <2> QED  BY <2>1, <2>4, ListMainMoves
<1>8. CASE ReapRemove
  BY <1>8, ListUnlink DEF ReapRemove, LInv, Pointers, local
<1>9. CASE JoinAndFree("reap_join", "reap") \/ JoinAndFree("drain_join", "drain")
  BY <1>9, ListJoin
<1>10. CASE LoopTest
  BY <1>10, ListMainMoves DEF LoopTest, LInv, Pointers, list, local
<1>11. CASE DrainRemove
  <2>1. dataptr \in alloc
    <3>1. IsList(head, next, alloc) /\ dataptr = head /\ dataptr # NoNode
      BY <1>11 DEF DrainRemove, LInv, Pointers, OnList, Joining
    <3> QED  BY <3>1, ListEnds
  <2> QED  BY <1>11, <2>1, ListUnlink DEF DrainRemove, local
<1>12. CASE DrainDone
  <2>1. alloc = {}
    <3>1. IsList(head, next, alloc) /\ head = NoNode
      BY <1>12 DEF DrainDone, LInv, Pointers, OnList, Joining
    <3> QED  BY <3>1, ListEnds
  <2>2. /\ pc = "drain" /\ pc' = "cleanup" /\ endProgram
        /\ UNCHANGED <<head, next, alloc, thread, endProgram>>
    BY <1>12 DEF DrainDone, LInv, Pointers, list, local
  <2>3. Pointers'
    BY <2>1, <2>2 DEF Pointers
  <2> QED  BY <2>2, <2>3, ListMainMoves
<1>13. CASE cleanupProgram
  BY <1>13, ListMainMoves DEF cleanupProgram, LInv, Pointers, list, local
<1> QED
  BY <1>1, <1>2, <1>3, <1>4, <1>5, <1>6, <1>7, <1>8, <1>9, <1>10, <1>11, <1>12, <1>13
  DEF Main, listenLoop

LEMMA ListThreads ==
    ASSUME IInv, LInv, NEW n \in Nodes,
           repsondingThread(n) \/ RecvLine(n) \/ SignalThread(n)
    PROVE  LInv'
<1>1. PICK label :
          /\ thread[n] \in Running /\ Goto(n, label)
          /\ UNCHANGED <<head, next, alloc, dataptr, tmp>>
          /\ pc' = pc \/ pc' = "killed"
          /\ endProgram => endProgram'
  <2>1. CASE Welcome(n) \/ Work(n)
    BY <2>1 DEF Welcome, Work, MaySend, Crash, shared, list, main, Running
  <2>2. CASE SessionTest(n)
    BY <2>2 DEF SessionTest, shared, list, main, Running
  <2>3. CASE RecvLine(n) \/ RecvEnd(n) \/ RecvFails(n)
    BY <2>3 DEF RecvLine, RecvEnd, RecvFails, shared, list, main, Running
  <2>4. CASE CloseClient(n) \/ MarkComplete(n)
    BY <2>4 DEF CloseClient, MarkComplete, shared, list, main, Running
  <2>5. CASE SignalThread(n)
    BY <2>5 DEF SignalThread, list, main
  <2> QED  BY <2>1, <2>2, <2>3, <2>4, <2>5 DEF repsondingThread
<1> QED  BY <1>1, ListThreadStep

LEMMA LInvStep == IInv /\ LInv /\ [Next]_vars => LInv'
<1> SUFFICES ASSUME IInv, LInv, [Next]_vars PROVE LInv'
  OBVIOUS
<1>1. CASE Main
  BY <1>1, ListMain
<1>2. ASSUME NEW n \in Nodes, repsondingThread(n) \/ RecvLine(n) \/ SignalThread(n)
      PROVE  LInv'
  BY <1>2, ListThreads
<1>3. CASE UNCHANGED vars \/ Connect \/ \E n \in Nodes : HangUp(n)
  <2>1. UNCHANGED <<head, next, alloc, dataptr, tmp, thread, pc, endProgram>>
    BY <1>3 DEF vars, Connect, HangUp, list, main, local
  <2> QED  BY <2>1, ListIdle DEF LInv, ThreadsHaveNodes
<1>4. CASE SignalMain
  <2>1. /\ UNCHANGED <<head, next, alloc, dataptr, tmp, thread>> /\ endProgram' = TRUE
        /\ pc' = IF pc = "accept" THEN "interrupted" ELSE pc
    BY <1>4 DEF SignalMain, list, local
  <2>2. Pointers'
    BY <2>1 DEF LInv, Pointers
  <2>3. OnList' = OnList
    BY <2>1 DEF OnList, Joining
  <2> QED  BY <2>1, <2>2, <2>3 DEF LInv, ThreadsHaveNodes
<1> QED  BY <1>1, <1>2, <1>3, <1>4 DEF Next, handle_sigint, Terminated

LEMMA ListInvariance == Spec => []LInv
  BY LInvInit, LInvStep, Invariance, PTL DEF Spec

(* However clients come and go, the list of listenLoop holds exactly the    *)
(* nodes that are allocated, each once, and following sle_next ends: no     *)
(* node is lost, and none is freed while it can be reached.                 *)
THEOREM ListIsExact == Spec => []ListHoldsNodes
<1>1. IInv /\ LInv => ListHoldsNodes
  BY WalkVisits DEF IInv, LInv, ListHoldsNodes, OnList
<1> QED  BY <1>1, Invariance, ListInvariance, PTL

(* cleanupProgram runs only after a signal, with every thread joined and    *)
(* every node freed.                                                        *)
THEOREM EndsClean == Spec => []CleanEnd
<1>1. LInv => CleanEnd
  BY DEF LInv, Pointers, ThreadsHaveNodes, CleanEnd
<1> QED  BY <1>1, ListInvariance, PTL
=============================================================================
