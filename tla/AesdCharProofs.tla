--------------------------- MODULE AesdCharProofs ---------------------------
(***************************************************************************)
(* Proofs about AesdChar for every size of the array, every set of faults  *)
(* and any number of open files.                                           *)
(***************************************************************************)
EXTENDS AesdChar, SequenceTheorems, NatFacts

Entry == [buffptr : Blocks \cup {NULL}, bytes : Seq(Bytes)]

-----------------------------------------------------------------------------
(* Arithmetic of the array                                                  *)

At(d, i) == (d + i) % MAX

LEMMA MaxIsNat == MAX \in Nat \ {0}
  BY RingAssumption

LEMMA ModOnce ==
    ASSUME NEW N \in Nat \ {0}, NEW a \in 0 .. 2 * N - 1
    PROVE  a % N = IF a < N THEN a ELSE a - N
  OBVIOUS

LEMMA ModRange ==
    ASSUME NEW N \in Nat \ {0}, NEW a \in Int
    PROVE  a % N \in 0 .. N - 1
  OBVIOUS

(* The place of an entry without %: offsets wrap once at most.              *)
LEMMA AtValue ==
    ASSUME NEW d \in Offsets, NEW i \in 0 .. MAX
    PROVE  /\ At(d, i) = IF d + i < MAX THEN d + i ELSE d + i - MAX
           /\ At(d, i) \in Offsets
<1>1. d \in 0 .. MAX - 1 /\ d + i \in 0 .. 2 * MAX - 1
  BY MaxIsNat DEF Offsets
<1>2. PICK a \in 0 .. 2 * MAX - 1 : a = d + i
  BY <1>1
<1>3. a % MAX = IF a < MAX THEN a ELSE a - MAX
  BY ModOnce, MaxIsNat, Zenon
<1>4. At(d, i) = IF a < MAX THEN a ELSE a - MAX
  BY <1>2, <1>3, Zenon DEF At
<1> QED  BY <1>1, <1>2, <1>4, MaxIsNat DEF Offsets

LEMMA NextValue ==
    ASSUME NEW d \in Offsets
    PROVE  /\ NextOffs(d) = IF d + 1 < MAX THEN d + 1 ELSE 0
           /\ NextOffs(d) \in Offsets
  BY MaxIsNat DEF NextOffs, Offsets

(* Distinct distances from the oldest entry are distinct places.            *)
LEMMA AtDiffers ==
    ASSUME NEW d \in Offsets, NEW i \in Offsets, NEW j \in Offsets, i # j
    PROVE  At(d, i) # At(d, j)
<1>1. i \in 0 .. MAX /\ j \in 0 .. MAX
  BY MaxIsNat DEF Offsets
<1>2. /\ At(d, i) = IF d + i < MAX THEN d + i ELSE d + i - MAX
      /\ At(d, j) = IF d + j < MAX THEN d + j ELSE d + j - MAX
  BY <1>1, AtValue
<1> QED  BY <1>1, <1>2, MaxIsNat DEF Offsets

(* Seen from the next offset every entry is one place nearer, and the old   *)
(* one the farthest.                                                        *)
LEMMA AtShifts ==
    ASSUME NEW d \in Offsets, NEW i \in Offsets
    PROVE  At(NextOffs(d), i) = IF i = MAX - 1 THEN d ELSE At(d, i + 1)
<1>1. NextOffs(d) \in Offsets /\ NextOffs(d) = IF d + 1 < MAX THEN d + 1 ELSE 0
  BY NextValue
<1>2. PICK e \in Offsets : e = NextOffs(d)
  BY <1>1
<1>3. i \in 0 .. MAX /\ i + 1 \in 0 .. MAX
  BY MaxIsNat DEF Offsets
<1>4. At(e, i) = IF e + i < MAX THEN e + i ELSE e + i - MAX
  BY <1>3, AtValue
<1>5. At(d, i + 1) = IF d + (i + 1) < MAX THEN d + (i + 1) ELSE d + (i + 1) - MAX
  BY <1>3, AtValue
<1>6. e = IF d + 1 < MAX THEN d + 1 ELSE 0
  BY <1>1, <1>2
<1>7. At(e, i) = IF i = MAX - 1 THEN d ELSE At(d, i + 1)
  BY <1>4, <1>5, <1>6, MaxIsNat DEF Offsets
<1> QED  BY <1>2, <1>7

-----------------------------------------------------------------------------
(* The list in the array                                                    *)

RingLog(e, d, n) == [i \in 1 .. n |-> e[At(d, i - 1)].bytes]

LEMMA LogIsRing == Log = RingLog(entry, out_offs, Kept)
  BY DEF Log, RingLog, Slot, At

LEMMA RingLogType ==
    ASSUME NEW e \in [Offsets -> Entry], NEW d \in Offsets, NEW n \in 0 .. MAX
    PROVE  /\ RingLog(e, d, n) \in Seq(Seq(Bytes))
           /\ Len(RingLog(e, d, n)) = n
           /\ \A i \in 1 .. n : RingLog(e, d, n)[i] = e[At(d, i - 1)].bytes
<1>1. n \in Nat
  BY MaxIsNat
<1>2. ASSUME NEW i \in 1 .. n PROVE e[At(d, i - 1)].bytes \in Seq(Bytes)
  <2>1. i - 1 \in 0 .. MAX
    BY MaxIsNat
  <2>2. e[At(d, i - 1)] \in Entry
    BY <2>1, AtValue
  <2> QED  BY <2>2 DEF Entry
<1>3. RingLog(e, d, n) \in [1 .. n -> Seq(Bytes)]
  BY <1>2 DEF RingLog
<1>4. RingLog(e, d, n) \in Seq(Seq(Bytes)) /\ Len(RingLog(e, d, n)) = n
  BY <1>1, <1>3, SeqDef, LenProperties
<1> QED  BY <1>4 DEF RingLog

(* An entry stored behind the newest one.                                   *)
LEMMA StoreAppends ==
    ASSUME NEW e \in [Offsets -> Entry], NEW d \in Offsets, NEW n \in Offsets, NEW x \in Entry
    PROVE  RingLog([e EXCEPT ![At(d, n)] = x], d, n + 1) = Append(RingLog(e, d, n), x.bytes)
<1>1. n \in 0 .. MAX /\ n + 1 \in 0 .. MAX /\ n \in Nat
  BY MaxIsNat DEF Offsets
<1>2. PICK p \in Offsets : p = At(d, n)
  BY <1>1, AtValue
<1>3. PICK e2 \in [Offsets -> Entry] : e2 = [e EXCEPT ![p] = x]
  OBVIOUS
<1>4. PICK l : l = RingLog(e, d, n)
  OBVIOUS
<1>5. PICK l2 : l2 = RingLog(e2, d, n + 1)
  OBVIOUS
<1>6. /\ l \in Seq(Seq(Bytes)) /\ Len(l) = n
      /\ \A i \in 1 .. n : l[i] = e[At(d, i - 1)].bytes
  BY <1>1, <1>4, RingLogType
<1>7. /\ l2 \in Seq(Seq(Bytes)) /\ Len(l2) = n + 1
      /\ \A i \in 1 .. n + 1 : l2[i] = e2[At(d, i - 1)].bytes
  BY <1>1, <1>5, RingLogType
<1>8. PICK b \in Seq(Bytes) : b = x.bytes
  BY DEF Entry
<1>9. /\ Append(l, b) \in Seq(Seq(Bytes)) /\ Len(Append(l, b)) = n + 1
      /\ \A i \in 1 .. n : Append(l, b)[i] = l[i]
      /\ Append(l, b)[n + 1] = b
  BY <1>6, AppendProperties
<1>10. ASSUME NEW i \in 1 .. n + 1 PROVE l2[i] = Append(l, b)[i]
  <2>1. CASE i = n + 1
    <3>1. i - 1 = n
      BY <1>1, <2>1
    <3> QED  BY <1>2, <1>3, <1>7, <1>8, <1>9, <2>1, <3>1
  <2>2. CASE i # n + 1
    <3>1. i \in 1 .. n /\ i - 1 \in Offsets /\ i - 1 # n /\ i - 1 \in 0 .. MAX
      BY <1>1, <2>2, MaxIsNat DEF Offsets
    <3>2. At(d, i - 1) # p /\ At(d, i - 1) \in Offsets
      BY <1>2, <3>1, AtDiffers, AtValue
    <3>3. e2[At(d, i - 1)] = e[At(d, i - 1)]
      BY <1>3, <3>2
    <3> QED  BY <1>6, <1>7, <1>9, <3>1, <3>3
  <2> QED  BY <2>1, <2>2
<1>11. l2 = Append(l, b)
  BY <1>7, <1>9, <1>10, SeqEqual, SMTT(30)
<1> QED  BY <1>2, <1>3, <1>4, <1>5, <1>8, <1>11

(* An entry stored over the oldest one of a full array.                     *)
LEMMA StoreReplaces ==
    ASSUME NEW e \in [Offsets -> Entry], NEW d \in Offsets, NEW x \in Entry
    PROVE  RingLog([e EXCEPT ![d] = x], NextOffs(d), MAX)
              = Tail(Append(RingLog(e, d, MAX), x.bytes))
<1>1. MAX \in 0 .. MAX /\ MAX \in Nat \ {0}
  BY MaxIsNat
<1>2. PICK d2 \in Offsets : d2 = NextOffs(d)
  BY NextValue
<1>3. PICK e2 \in [Offsets -> Entry] : e2 = [e EXCEPT ![d] = x]
  OBVIOUS
<1>4. PICK l : l = RingLog(e, d, MAX)
  OBVIOUS
<1>5. PICK l2 : l2 = RingLog(e2, d2, MAX)
  OBVIOUS
<1>6. /\ l \in Seq(Seq(Bytes)) /\ Len(l) = MAX
      /\ \A i \in 1 .. MAX : l[i] = e[At(d, i - 1)].bytes
  BY <1>1, <1>4, RingLogType
<1>7. /\ l2 \in Seq(Seq(Bytes)) /\ Len(l2) = MAX
      /\ \A i \in 1 .. MAX : l2[i] = e2[At(d2, i - 1)].bytes
  BY <1>1, <1>5, RingLogType
<1>8. PICK b \in Seq(Bytes) : b = x.bytes
  BY DEF Entry
<1>9. PICK m : m = Append(l, b)
  OBVIOUS
<1>10. /\ m \in Seq(Seq(Bytes)) /\ Len(m) = MAX + 1 /\ m # <<>>
       /\ \A i \in 1 .. MAX : m[i] = l[i]
       /\ m[MAX + 1] = b
  BY <1>6, <1>9, AppendProperties
<1>11. /\ Tail(m) \in Seq(Seq(Bytes)) /\ Len(Tail(m)) = MAX
       /\ \A i \in 1 .. MAX : Tail(m)[i] = m[i + 1]
  BY <1>1, <1>10, HeadTailProperties
<1>12. ASSUME NEW i \in 1 .. MAX PROVE l2[i] = Tail(m)[i]
  <2>1. i - 1 \in Offsets /\ i - 1 \in 0 .. MAX
    BY <1>1 DEF Offsets
  <2>2. At(d2, i - 1) = IF i - 1 = MAX - 1 THEN d ELSE At(d, (i - 1) + 1)
    BY <1>2, <2>1, AtShifts
  <2>3. CASE i = MAX
    <3>1. At(d2, i - 1) = d
      BY <1>1, <2>2, <2>3
    <3>2. l2[i] = b
      BY <1>3, <1>7, <1>8, <3>1
    <3> QED  BY <1>10, <1>11, <2>3, <3>2
  <2>4. CASE i # MAX
    <3>1. i \in Offsets /\ i + 1 \in 1 .. MAX /\ (i - 1) + 1 = i /\ (i + 1) - 1 = i
          /\ i \in 0 .. MAX /\ 0 \in Offsets /\ 0 \in 0 .. MAX /\ i # 0
      BY <1>1, <2>4 DEF Offsets
    <3>2. At(d2, i - 1) = At(d, i)
      BY <1>1, <2>2, <2>4, <3>1
    <3>3. At(d, 0) = d
      BY <3>1, AtValue, <1>1 DEF Offsets
    <3>4. At(d, i) # d /\ At(d, i) \in Offsets
      BY <3>1, <3>3, AtDiffers, AtValue
    <3>5. l2[i] = e[At(d, i)].bytes
      BY <1>3, <1>7, <3>2, <3>4
    <3>6. m[i + 1] = e[At(d, i)].bytes
      BY <1>6, <1>10, <3>1
    <3> QED  BY <1>11, <3>5, <3>6
  <2> QED  BY <2>3, <2>4
<1>13. l2 = Tail(m)
  BY <1>7, <1>11, <1>12, SeqEqual
<1> QED  BY <1>2, <1>3, <1>4, <1>5, <1>8, <1>9, <1>13

-----------------------------------------------------------------------------
(* Recursive definitions                                                    *)

(* aesd_circular_buffer_find_entry_offset_for_fpos adds up the sizes.       *)
LEMMA CharsDefined ==
    ASSUME \A i \in Offsets : Size(i) \in Nat
    PROVE  /\ numCharsInBuffer \in [0 .. MAX -> Nat]
           /\ numCharsInBuffer[0] = 0
           /\ \A k \in 1 .. MAX : numCharsInBuffer[k] = numCharsInBuffer[k - 1] + Size(k - 1)
<1>1. PICK size \in [Offsets -> Nat] : \A i \in Offsets : size[i] = Size(i)
  <2>1. [i \in Offsets |-> Size(i)] \in [Offsets -> Nat]
    OBVIOUS
  <2> QED  BY <2>1
<1>2. PICK g : g = [p \in (1 .. MAX) \X Nat |-> p[2] + size[p[1] - 1]]
  OBVIOUS
<1>3. g \in [(1 .. MAX) \X Nat -> Nat]
  BY <1>2, MaxIsNat DEF Offsets
<1>4. PICK f \in [0 .. MAX -> Nat] : Follows(f, MAX, 0, g)
  BY <1>3, MaxIsNat, RecursionExists
<1>5. \A k \in 1 .. MAX : f[k - 1] \in Nat /\ k - 1 \in Offsets
  BY MaxIsNat DEF Offsets
<1>6. f[0] = 0 /\ \A k \in 1 .. MAX : f[k] = f[k - 1] + Size(k - 1)
  BY <1>1, <1>2, <1>4, <1>5 DEF Follows
<1>7. f = [k \in 0 .. MAX |-> IF k = 0 THEN 0 ELSE f[k - 1] + Size(k - 1)]
  BY <1>6, MaxIsNat
<1>8. numCharsInBuffer
         = [k \in 0 .. MAX |-> IF k = 0 THEN 0 ELSE numCharsInBuffer[k - 1] + Size(k - 1)]
  BY <1>7 DEF numCharsInBuffer
<1>9. PICK h : h = numCharsInBuffer
  OBVIOUS
<1>10. /\ h = [k \in 0 .. MAX |-> IF k = 0 THEN 0 ELSE h[k - 1] + Size(k - 1)]
  BY <1>8, <1>9
<1>11. h[0] = 0 /\ \A k \in 1 .. MAX : h[k] = h[k - 1] + Size(k - 1)
  BY <1>10, MaxIsNat
<1>12. \A k \in 0 .. MAX : h[k] \in Nat
  <2> DEFINE T == {k \in 0 .. MAX : h[k] \in Nat}
  <2>1. 0 \in T
    BY <1>11, MaxIsNat
  <2>2. ASSUME NEW k \in 0 .. MAX - 1, k \in T PROVE k + 1 \in T
    <3>1. k + 1 \in 1 .. MAX /\ (k + 1) - 1 = k /\ k \in Offsets
      BY MaxIsNat DEF Offsets
    <3> QED  BY <1>11, <2>2, <3>1
  <2> HIDE DEF T
  <2>3. 0 .. MAX \subseteq T
    BY <2>1, <2>2, CountUp, MaxIsNat
  <2> QED  BY <2>3 DEF T
<1>13. h \in [0 .. MAX -> Nat]
  BY <1>10, <1>12
<1> QED  BY <1>9, <1>11, <1>13

(* The sums grow, and never beyond the number of entries times their        *)
(* greatest size.                                                           *)
LEMMA CharsGrow ==
    ASSUME \A i \in Offsets : Size(i) \in Nat, NEW k \in 0 .. MAX, NEW m \in k .. MAX
    PROVE  numCharsInBuffer[k] <= numCharsInBuffer[m]
<1>1. PICK h \in [0 .. MAX -> Nat] :
          h = numCharsInBuffer /\ \A i \in 1 .. MAX : h[i] = h[i - 1] + Size(i - 1)
  BY CharsDefined
<1> DEFINE T == {j \in 0 .. m : j <= k \/ h[k] <= h[j]}
<1>2. 0 \in T
  BY MaxIsNat
<1>3. ASSUME NEW j \in 0 .. m - 1, j \in T PROVE j + 1 \in T
  <2>1. j + 1 \in 1 .. MAX /\ (j + 1) - 1 = j /\ j \in Offsets
    BY MaxIsNat DEF Offsets
  <2>2. h[j + 1] = h[j] + Size(j) /\ h[j] \in Nat /\ h[j + 1] \in Nat /\ Size(j) \in Nat
    BY <1>1, <2>1, MaxIsNat
  <2>3. CASE j = k
    BY <2>2, <2>3
  <2>4. CASE j < k
    BY <2>4
  <2>5. CASE j > k
    BY <1>3, <2>2, <2>5
  <2> QED  BY <2>3, <2>4, <2>5
<1>4. m \in Nat
  BY MaxIsNat
<1> HIDE DEF T
<1>5. 0 .. m \subseteq T
  BY <1>2, <1>3, <1>4, CountUp
<1>6. m \in T
  BY <1>4, <1>5
<1> QED  BY <1>1, <1>6 DEF T

LEMMA CharsBounded ==
    ASSUME NEW M \in Nat, \A i \in Offsets : Size(i) \in 0 .. M
    PROVE  \A k \in 0 .. MAX : numCharsInBuffer[k] <= k * M
<1>0. \A i \in Offsets : Size(i) \in Nat
  OBVIOUS
<1>1. PICK h \in [0 .. MAX -> Nat] :
          /\ h = numCharsInBuffer /\ h[0] = 0
          /\ \A i \in 1 .. MAX : h[i] = h[i - 1] + Size(i - 1)
  BY <1>0, CharsDefined
<1> DEFINE T == {j \in 0 .. MAX : h[j] <= j * M}
<1>2. 0 \in T
  BY <1>1, MaxIsNat
<1>3. ASSUME NEW j \in 0 .. MAX - 1, j \in T PROVE j + 1 \in T
  <2>1. j + 1 \in 1 .. MAX /\ (j + 1) - 1 = j /\ j \in Offsets
    BY MaxIsNat DEF Offsets
  <2>2. h[j + 1] = h[j] + Size(j) /\ h[j] \in Nat /\ Size(j) \in 0 .. M
    BY <1>1, <2>1, MaxIsNat
  <2>3. (j + 1) * M = j * M + M
    OBVIOUS
  <2>4. h[j] <= j * M
    BY <1>3
  <2>5. j * M \in Nat
    OBVIOUS
  <2>6. h[j + 1] <= (j + 1) * M
    BY <2>2, <2>3, <2>4, <2>5
  <2> QED  BY <2>1, <2>6
<1> HIDE DEF T
<1>4. 0 .. MAX \subseteq T
  BY <1>2, <1>3, CountUp, MaxIsNat
<1> QED  BY <1>1, <1>4 DEF T

(* aesd_write doubles the memory until the piece fits.                      *)
LEMMA GrownFits ==
    ASSUME NEW size \in Nat \ {0}, NEW needed \in Nat
    PROVE  Grown(size, needed) \in Nat /\ Grown(size, needed) >= needed
                                       /\ Grown(size, needed) > 0
<1>1. PICK g : g = [p \in (1 .. needed) \X Nat |-> p[2] * 2]
  OBVIOUS
<1>2. g \in [(1 .. needed) \X Nat -> Nat]
  BY <1>1
<1>3. PICK f \in [0 .. needed -> Nat] : Follows(f, needed, size, g)
  BY <1>2, RecursionExists
<1>4. ASSUME NEW k \in 1 .. needed PROVE f[k - 1] \in Nat /\ f[k] = f[k - 1] * 2
  <2>1. f[k - 1] \in Nat /\ f[k] = g[<<k, f[k - 1]>>]
    BY <1>3 DEF Follows
  <2> QED  BY <1>1, <2>1
<1>5. f = [k \in 0 .. needed |-> IF k = 0 THEN size ELSE f[k - 1] * 2]
  BY <1>3, <1>4 DEF Follows
<1>6. PICK h : h = CHOOSE f2 : f2 = [k \in 0 .. needed |-> IF k = 0 THEN size ELSE f2[k - 1] * 2]
  OBVIOUS
<1>7. h = [k \in 0 .. needed |-> IF k = 0 THEN size ELSE h[k - 1] * 2]
  BY <1>5, <1>6
<1>8. h[0] = size /\ \A k \in 1 .. needed : h[k] = h[k - 1] * 2
  BY <1>7
<1> DEFINE T == {k \in 0 .. needed : h[k] \in Nat /\ h[k] > k}
<1>9. 0 \in T
  BY <1>8
<1>10. ASSUME NEW k \in 0 .. needed - 1, k \in T PROVE k + 1 \in T
  <2>1. k + 1 \in 1 .. needed /\ (k + 1) - 1 = k
    OBVIOUS
  <2>2. h[k + 1] = h[k] * 2 /\ h[k] \in Nat /\ h[k] > k
    BY <1>8, <1>10, <2>1
  <2> QED  BY <2>1, <2>2
<1> HIDE DEF T
<1>11. 0 .. needed \subseteq T
  BY <1>9, <1>10, CountUp
<1>12. \A k \in 0 .. needed : h[k] \in Nat /\ h[k] > k
  BY <1>11 DEF T
<1> DEFINE Enough == {k \in 0 .. needed : h[k] >= needed}
<1>13. needed \in Enough /\ Enough \subseteq Nat
  BY <1>12
<1>14. Min(Enough) \in Enough
  BY <1>13, MinIsLeast
<1>15. Grown(size, needed) = h[Min(Enough)]
  BY <1>6 DEF Grown
<1> QED  BY <1>12, <1>14, <1>15

-----------------------------------------------------------------------------
(* The inductive invariant                                                  *)

(* A full array is written at its oldest entry; one that is not full begins *)
(* at 0 and is empty from in_offs on.                                       *)
RingOK ==
    /\ hasBufferBeenFilled => out_offs = in_offs
    /\ ~hasBufferBeenFilled =>
          /\ out_offs = 0
          /\ \A i \in Offsets : i >= in_offs => entry[i] = EmptyEntry

(* No entry is longer than a message may be, and one with memory is not     *)
(* empty.                                                                   *)
EntriesOK ==
    \A i \in Offsets : /\ Len(entry[i].bytes) <= MaxMessage
                       /\ entry[i].buffptr # NULL => entry[i].bytes # <<>>

TempOK == loaded /\ onGoingWrite => tempBufferSize > 0 /\ Len(tempBytes) <= tempBufferSize

IInv == TypeOK /\ RingOK /\ EntriesOK /\ TempOK /\ BuffersLive

LEMMA ModBelow ==
    ASSUME NEW N \in Nat \ {0}, NEW a \in 0 .. N - 1
    PROVE  a % N = a
  OBVIOUS

LEMMA PositionFacts == Nat \subseteq Positions /\ Closed \notin Positions /\ INT_MAX \in Nat
  BY SeekAssumption DEF Positions, Closed

(* What ToInt stores is an int, and the number itself if an int can hold    *)
(* it.                                                                      *)
LEMMA ToIntFacts ==
    ASSUME NEW n \in Nat
    PROVE  ToInt(n) \in Positions /\ (n <= INT_MAX => ToInt(n) = n)
<1>1. PICK M \in Nat \ {0} : M = UintModulus /\ M = 2 * (INT_MAX + 1)
  BY PositionFacts DEF UintModulus
<1>2. PICK m \in 0 .. M - 1 : m = n % M
  BY ModRange
<1>3. ToInt(n) = IF m > INT_MAX THEN m - M ELSE m
  BY <1>1, <1>2, Zenon DEF ToInt
<1>4. ToInt(n) \in Positions
  BY <1>1, <1>3, PositionFacts DEF Positions
<1>5. ASSUME n <= INT_MAX PROVE ToInt(n) = n
  <2>1. n \in 0 .. M - 1
    BY <1>1, <1>5, PositionFacts
  <2>2. m = n
    BY <1>2, <2>1, ModBelow
  <2> QED  BY <1>3, <1>5, <2>2, PositionFacts
<1> QED  BY <1>4, <1>5

(* The kernel passes only files whose position is a natural number on.      *)
LEMMA PassesFacts ==
    ASSUME TypeOK, NEW f \in Files, Passes(f)
    PROVE  loaded /\ f_pos[f] \in Nat
  BY PositionFacts DEF TypeOK, Passes, Open, Positions

LEMMA SizesAreNat ==
    ASSUME TypeOK
    PROVE  \A i \in 0 .. MAX : /\ Slot(i) = At(out_offs, i) /\ Slot(i) \in Offsets
                               /\ Size(i) \in Nat
<1>1. \A i \in 0 .. MAX : Slot(i) = At(out_offs, i) /\ Slot(i) \in Offsets
  BY AtValue DEF TypeOK, Slot, At
<1>2. \A j \in Offsets : Len(entry[j].bytes) \in Nat
  BY LenProperties DEF TypeOK
<1> QED  BY <1>1, <1>2 DEF Size

(* The sums of the sizes as a function, with all that is known of it.       *)
LEMMA Chars ==
    ASSUME TypeOK, EntriesOK
    PROVE  \E h \in [0 .. MAX -> Nat] :
               /\ h[0] = 0
               /\ \A k \in 0 .. MAX : h[k] = BytesBefore(k)
               /\ \A k \in Offsets : h[k + 1] = h[k] + Size(k)
               /\ \A k \in 0 .. MAX : \A m \in k .. MAX : h[k] <= h[m]
               /\ \A k \in 0 .. MAX : h[k] <= SizeModulus /\ h[k] <= INT_MAX
<1>1. \A i \in Offsets : Size(i) \in 0 .. MaxMessage
  <2>1. \A i \in Offsets : i \in 0 .. MAX
    BY MaxIsNat DEF Offsets
  <2> QED  BY <2>1, SizesAreNat, DriverAssumption DEF EntriesOK, Size
<1>2. \A i \in Offsets : Size(i) \in Nat
  BY <1>1
<1>3. PICK h \in [0 .. MAX -> Nat] :
          /\ h = numCharsInBuffer /\ h[0] = 0
          /\ \A k \in 1 .. MAX : h[k] = h[k - 1] + Size(k - 1)
  BY <1>2, CharsDefined
<1>4. \A k \in Offsets : h[k + 1] = h[k] + Size(k)
  <2>1. \A k \in Offsets : k + 1 \in 1 .. MAX /\ (k + 1) - 1 = k
    BY MaxIsNat DEF Offsets
  <2> QED  BY <1>3, <2>1
<1>5. \A k \in 0 .. MAX : \A m \in k .. MAX : h[k] <= h[m]
  BY <1>2, <1>3, CharsGrow
<1>6. \A k \in 0 .. MAX : h[k] <= SizeModulus /\ h[k] <= INT_MAX
  <2>0. MAX \in 0 .. MAX /\ MaxMessage \in Nat
    BY DriverAssumption, MaxIsNat
  <2>1. h[MAX] <= MAX * MaxMessage
    BY <1>1, <1>3, <2>0, CharsBounded
  <2>2. MAX * MaxMessage \in Nat /\ h[MAX] \in Nat
    BY DriverAssumption, MaxIsNat
  <2>3. h[MAX] <= SizeModulus /\ h[MAX] <= INT_MAX
    BY <2>1, <2>2, MemoryAssumption, RingAssumption, SeekAssumption
  <2>4. \A k \in 0 .. MAX : MAX \in k .. MAX
    BY MaxIsNat
  <2> QED  BY <1>5, <2>2, <2>3, <2>4, RingAssumption, SeekAssumption
<1> QED  BY <1>3, <1>4, <1>5, <1>6 DEF BytesBefore

(* What aesd_circular_buffer_find_entry_offset_for_fpos answers: nothing    *)
(* behind the last byte, else the entry that holds the byte, or an empty    *)
(* entry if there is no byte at all.                                        *)
Finds(i, pos) ==
    /\ aesd_circular_buffer_find_entry_offset_for_fpos(pos)
          = [slot |-> Slot(i), offset |-> pos - BytesBefore(i)]
    /\ BytesBefore(i) <= pos /\ pos < BytesBefore(i + 1)

LEMMA FindSpec ==
    ASSUME TypeOK, EntriesOK, NEW pos \in Nat
    PROVE  \/ /\ aesd_circular_buffer_find_entry_offset_for_fpos(pos) = NotFound
              /\ BytesBefore(MAX) <= pos
           \/ \E i \in Offsets : Finds(i, pos)
           \/ /\ BytesBefore(MAX) = 0
              /\ aesd_circular_buffer_find_entry_offset_for_fpos(pos)
                    = [slot |-> Slot(MAX), offset |-> pos]
<1>1. PICK h \in [0 .. MAX -> Nat] :
               /\ h[0] = 0
               /\ \A k \in 0 .. MAX : h[k] = BytesBefore(k)
               /\ \A k \in Offsets : h[k + 1] = h[k] + Size(k)
               /\ \A k \in 0 .. MAX : \A m \in k .. MAX : h[k] <= h[m]
               /\ \A k \in 0 .. MAX : h[k] <= SizeModulus
  BY Chars
<1>2. PICK found : found = aesd_circular_buffer_find_entry_offset_for_fpos(pos)
  OBVIOUS
<1>3. PICK reached \in SUBSET Offsets : reached = {i \in Offsets : BytesBefore(i + 1) > pos}
  OBVIOUS
<1>4. \A i \in Offsets : i + 1 \in 0 .. MAX /\ i \in 0 .. MAX /\ BytesBefore(i + 1) = h[i + 1]
  BY <1>1, MaxIsNat DEF Offsets
<1>5. MAX \in 0 .. MAX /\ MAX - 1 \in 0 .. MAX /\ MAX - 1 \in Offsets /\ (MAX - 1) + 1 = MAX
  BY MaxIsNat DEF Offsets
<1>6. CASE reached = {}
  <2>1. found = IF (BytesBefore(MAX) - 1) % SizeModulus < pos THEN NotFound
                ELSE [slot |-> Slot(MAX), offset |-> pos - BytesBefore(MAX - 1)]
    BY <1>2, <1>3, <1>6 DEF aesd_circular_buffer_find_entry_offset_for_fpos
  <2>2. h[MAX] <= pos /\ h[MAX - 1] <= h[MAX]
    <3>1. ~(BytesBefore((MAX - 1) + 1) > pos)
      BY <1>3, <1>5, <1>6
    <3>2. ~(h[MAX] > pos)
      BY <1>1, <1>5, <3>1
    <3> QED  BY <1>1, <1>5, <3>2
  <2>3. CASE h[MAX] = 0
    <3>1. h[MAX - 1] = 0
      BY <1>1, <1>5, <2>2, <2>3
    <3>2. pos - BytesBefore(MAX - 1) = pos
      BY <1>1, <1>5, <3>1
    <3> QED  BY <1>1, <1>2, <1>5, <2>1, <2>2, <2>3, <3>2
  <2>4. CASE h[MAX] # 0
    <3>1. h[MAX] - 1 \in 0 .. SizeModulus - 1 /\ h[MAX] - 1 < pos
      BY <1>1, <1>5, <2>2, <2>4, RingAssumption
    <3>2. (h[MAX] - 1) % SizeModulus = h[MAX] - 1
      BY <3>1, ModBelow, RingAssumption
    <3>3. found = NotFound
      BY <1>1, <1>5, <2>1, <3>1, <3>2
    <3> QED  BY <1>1, <1>2, <1>5, <2>2, <3>3
  <2> QED  BY <2>3, <2>4
<1>7. CASE reached # {}
  <2>1. PICK n \in reached : n = Min(reached) /\ \A y \in reached : n <= y
    <3>1. reached \subseteq Nat
      BY MaxIsNat DEF Offsets
    <3> QED  BY <1>7, <3>1, MinIsLeast
  <2>2. n \in Offsets /\ n # MAX /\ n \in 0 .. MAX /\ n + 1 \in 0 .. MAX
    BY <2>1, MaxIsNat DEF Offsets
  <2>3. found = IF (BytesBefore(n + 1) - 1) % SizeModulus < pos THEN NotFound
                ELSE [slot |-> Slot(n), offset |-> pos - BytesBefore(n)]
    BY <1>2, <1>3, <1>7, <2>1, <2>2 DEF aesd_circular_buffer_find_entry_offset_for_fpos
  <2>4. h[n + 1] > pos
    BY <1>1, <1>3, <2>1, <2>2
  <2>5. h[n] <= pos
    <3>1. CASE n = 0
      BY <1>1, <3>1
    <3>2. CASE n # 0
      <4>1. n - 1 \in Offsets /\ (n - 1) + 1 = n /\ ~(n <= n - 1)
        BY <2>2, <3>2, MaxIsNat DEF Offsets
      <4>2. n - 1 \notin reached
        BY <2>1, <4>1
      <4>3. ~(BytesBefore((n - 1) + 1) > pos)
        BY <1>3, <4>1, <4>2
      <4>4. ~(h[n] > pos)
        BY <1>1, <2>2, <4>1, <4>3
      <4> QED  BY <1>1, <2>2, <4>4
    <3> QED  BY <3>1, <3>2
  <2>6. h[n + 1] - 1 \in 0 .. SizeModulus - 1 /\ ~(h[n + 1] - 1 < pos)
    BY <1>1, <2>2, <2>4, RingAssumption
  <2>7. (h[n + 1] - 1) % SizeModulus = h[n + 1] - 1
    BY <2>6, ModBelow, RingAssumption
  <2>8. found = [slot |-> Slot(n), offset |-> pos - BytesBefore(n)]
    BY <1>1, <2>2, <2>3, <2>6, <2>7
  <2>9. Finds(n, pos)
    BY <1>1, <1>2, <2>2, <2>4, <2>5, <2>8 DEF Finds
  <2> QED  BY <2>2, <2>9
<1> QED  BY <1>6, <1>7

-----------------------------------------------------------------------------
(* The steps                                                                *)

Answers == [call : Calls, code : Codes, pos : Nat, bytes : Seq(Bytes),
            from : Blocks \cup {NULL}]

LEMMA DoneType ==
    ASSUME NEW c \in Calls, NEW k \in Codes
    PROVE  Done(c, k) \in Answers
  BY EmptySeq DEF Done, Answers

LEMMA BlocksAreNat == Blocks \subseteq Nat /\ NULL \notin Blocks
  BY DriverAssumption DEF Blocks, NULL

LEMMA IInvInit == Init => IInv
<1> SUFFICES ASSUME Init PROVE IInv
  OBVIOUS
<1>1. EmptyEntry \in Entry /\ EmptyEntry.bytes = <<>> /\ EmptyEntry.buffptr = NULL
  BY EmptySeq DEF EmptyEntry, Entry
<1>2. TypeOK
  <2>1. entry \in [Offsets -> Entry] /\ in_offs \in Offsets /\ out_offs \in Offsets
    BY <1>1, MaxIsNat DEF Init, Offsets
  <2>2. ret \in Answers
    BY DoneType DEF Init, Calls, Codes
  <2> QED  BY <2>1, <2>2, EmptySeq DEF Init, TypeOK, Entry, Answers
<1>3. RingOK
  BY DEF Init, RingOK
<1>4. EntriesOK
  BY <1>1, EmptySeq, DriverAssumption DEF Init, EntriesOK
<1>5. TempOK /\ BuffersLive
  BY DEF Init, TempOK, BuffersLive
<1> QED  BY <1>2, <1>3, <1>4, <1>5 DEF IInv

(* A call that leaves buffer, message and memory alone.                     *)
LEMMA IdleStep ==
    ASSUME IInv, UNCHANGED <<entry, in_offs, out_offs, hasBufferBeenFilled, loaded, onGoingWrite,
                             tempBuffer, tempBytes, tempBufferSize, live>>,
           f_pos' \in [Files -> Positions \cup {Closed}], ret' \in Answers
    PROVE  IInv'
  BY DEF IInv, TypeOK, Answers, RingOK, EntriesOK, TempOK, BuffersLive, Owned, EntryBlocks

LEMMA InitModuleStep ==
    ASSUME IInv, aesd_init_module
    PROVE  IInv'
<1>1. EmptyEntry \in Entry /\ EmptyEntry.bytes = <<>> /\ EmptyEntry.buffptr = NULL
  BY EmptySeq DEF EmptyEntry, Entry
<1>2. /\ entry' = [i \in Offsets |-> EmptyEntry] /\ in_offs' = 0 /\ out_offs' = 0
      /\ hasBufferBeenFilled' = FALSE /\ onGoingWrite' = FALSE /\ tempBuffer' = NULL
      /\ tempBytes' = <<>> /\ tempBufferSize' = 0 /\ loaded' \in BOOLEAN
      /\ UNCHANGED <<f_pos, live>>
  BY DEF aesd_init_module, aesd_circular_buffer_init
<1>3. ret' \in Answers
  BY DoneType DEF aesd_init_module, Calls, Codes
<1>4. TypeOK'
  <2>1. entry' \in [Offsets -> Entry] /\ in_offs' \in Offsets /\ out_offs' \in Offsets
    BY <1>1, <1>2, MaxIsNat DEF Offsets
  <2> QED  BY <1>2, <1>3, <2>1, EmptySeq DEF IInv, TypeOK, Entry, Answers
<1>5. RingOK'
  BY <1>2 DEF RingOK
<1>6. EntriesOK'
  BY <1>1, <1>2, EmptySeq, DriverAssumption DEF EntriesOK
<1>7. TempOK'
  BY <1>2 DEF TempOK
<1>8. BuffersLive'
  <2>1. \A i \in Offsets : entry'[i].buffptr = NULL
    BY <1>1, <1>2
  <2>2. EntryBlocks' = {}
    BY <2>1 DEF EntryBlocks
  <2> QED  BY <1>2, <2>1, <2>2 DEF BuffersLive, Owned
<1> QED  BY <1>4, <1>5, <1>6, <1>7, <1>8 DEF IInv

LEMMA CleanupStep ==
    ASSUME IInv, aesd_cleanup_module
    PROVE  IInv'
<1>1. /\ \A i \in Offsets : entry'[i] = [entry[i] EXCEPT !.buffptr = NULL]
      /\ entry' = [i \in Offsets |-> [entry[i] EXCEPT !.buffptr = NULL]]
      /\ loaded' = FALSE /\ ret' = Done("other", "ok") /\ live' \subseteq live
      /\ UNCHANGED <<in_offs, out_offs, hasBufferBeenFilled, onGoingWrite, tempBuffer, tempBytes,
                     tempBufferSize, f_pos>>
  BY DEF aesd_cleanup_module, temp
<1>2. \A i \in Offsets : /\ entry[i] \in Entry
                         /\ entry'[i] \in Entry /\ entry'[i].bytes = entry[i].bytes
                         /\ entry'[i].buffptr = NULL
  BY <1>1 DEF IInv, TypeOK, Entry
<1>3. ret' \in Answers
  BY <1>1, DoneType DEF Calls, Codes
<1>4. TypeOK'
  <2>1. entry' \in [Offsets -> Entry]
    BY <1>1, <1>2
  <2> QED  BY <1>1, <1>3, <2>1 DEF IInv, TypeOK, Entry, Answers
<1>5. RingOK'
  <2>1. ASSUME NEW i \in Offsets, entry[i] = EmptyEntry PROVE entry'[i] = EmptyEntry
    BY <1>1, <2>1 DEF EmptyEntry
  <2> QED  BY <1>1, <2>1 DEF IInv, RingOK
<1>6. EntriesOK'
  BY <1>2 DEF IInv, EntriesOK
<1>7. TempOK' /\ BuffersLive'
  BY <1>1 DEF TempOK, BuffersLive
<1> QED  BY <1>4, <1>5, <1>6, <1>7 DEF IInv

(* Where aesd_read copies from: inside an entry that has the byte, or in an *)
(* empty entry without memory.                                              *)
HitsByte(hit, pos) ==
    \E i \in Offsets : /\ hit = [slot |-> Slot(i), offset |-> pos - BytesBefore(i)]
                       /\ Finds(i, pos)
                       /\ hit.slot \in Offsets /\ hit.offset \in Nat
                       /\ hit.offset < Len(entry[hit.slot].bytes)
HitsNothing(hit, pos) ==
    /\ BytesBefore(MAX) = 0
    /\ hit.slot \in Offsets /\ hit.offset = pos
    /\ entry[hit.slot].bytes = <<>> /\ entry[hit.slot].buffptr = NULL

LEMMA HitFacts ==
    ASSUME TypeOK, EntriesOK, NEW pos \in Nat,
           aesd_circular_buffer_find_entry_offset_for_fpos(pos) # NotFound
    PROVE  \/ HitsByte(aesd_circular_buffer_find_entry_offset_for_fpos(pos), pos)
           \/ HitsNothing(aesd_circular_buffer_find_entry_offset_for_fpos(pos), pos)
<1>1. PICK h \in [0 .. MAX -> Nat] :
               /\ h[0] = 0
               /\ \A k \in 0 .. MAX : h[k] = BytesBefore(k)
               /\ \A k \in Offsets : h[k + 1] = h[k] + Size(k)
               /\ \A k \in 0 .. MAX : \A m \in k .. MAX : h[k] <= h[m]
  BY Chars
<1>2. PICK hit : hit = aesd_circular_buffer_find_entry_offset_for_fpos(pos)
  OBVIOUS
<1>3. \A i \in Offsets : i \in 0 .. MAX /\ i + 1 \in 0 .. MAX
  BY MaxIsNat DEF Offsets
<1>4. \A i \in 0 .. MAX : Slot(i) \in Offsets /\ Size(i) \in Nat
  BY SizesAreNat
<1>5. ASSUME NEW i \in Offsets, Finds(i, pos) PROVE HitsByte(hit, pos)
  <2>1. hit = [slot |-> Slot(i), offset |-> pos - BytesBefore(i)]
    BY <1>2, <1>5 DEF Finds
  <2>2. BytesBefore(i) = h[i] /\ BytesBefore(i + 1) = h[i] + Size(i) /\ h[i] \in Nat
    BY <1>1, <1>3
  <2>3. h[i] <= pos /\ pos < h[i] + Size(i)
    BY <1>5, <2>2 DEF Finds
  <2>4. hit.slot = Slot(i) /\ hit.offset = pos - h[i] /\ Size(i) = Len(entry[hit.slot].bytes)
    BY <2>1, <2>2 DEF Size
  <2>5. hit.offset \in Nat /\ hit.offset < Size(i)
    <3>1. PICK b \in Nat : b = h[i]
      BY <2>2
    <3>2. PICK z \in Nat : z = Size(i)
      BY <1>3, <1>4
    <3>3. b <= pos /\ pos < b + z /\ hit.offset = pos - b
      BY <2>3, <2>4, <3>1, <3>2
    <3>4. pos - b \in Nat /\ pos - b < z
      BY <3>3
    <3> QED  BY <3>2, <3>3, <3>4
  <2>6. hit.slot \in Offsets
    BY <1>3, <1>4, <2>4
  <2>7. hit.offset < Len(entry[hit.slot].bytes)
    BY <2>4, <2>5
  <2> QED  BY <1>5, <2>1, <2>5, <2>6, <2>7, Zenon DEF HitsByte
<1>6. ASSUME BytesBefore(MAX) = 0, hit = [slot |-> Slot(MAX), offset |-> pos]
      PROVE  HitsNothing(hit, pos)
  <2>1. MAX \in 0 .. MAX /\ 0 \in Offsets /\ 0 + 1 \in 0 .. MAX /\ MAX \in (0 + 1) .. MAX
    BY MaxIsNat DEF Offsets
  <2>2. h[0 + 1] = h[0] + Size(0) /\ h[0 + 1] <= h[MAX] /\ h[MAX] = 0 /\ Size(0) \in Nat
    BY <1>1, <1>3, <1>4, <1>6, <2>1
  <2>3. Size(0) = 0
    BY <1>1, <2>2
  <2>4. Slot(MAX) = Slot(0)
    <3>1. /\ At(out_offs, MAX) = IF out_offs + MAX < MAX THEN out_offs + MAX
                                 ELSE out_offs + MAX - MAX
          /\ At(out_offs, 0) = IF out_offs + 0 < MAX THEN out_offs + 0
                               ELSE out_offs + 0 - MAX
      BY <1>3, <2>1, AtValue DEF TypeOK
    <3>2. out_offs \in Offsets
      BY DEF TypeOK
    <3>3. At(out_offs, MAX) = At(out_offs, 0)
      BY <3>1, <3>2, MaxIsNat DEF Offsets
    <3> QED  BY <3>3 DEF Slot, At
  <2>5. hit.slot = Slot(0) /\ hit.offset = pos /\ hit.slot \in Offsets
    BY <1>3, <1>4, <1>6, <2>1, <2>4
  <2>6. entry[hit.slot].bytes \in Seq(Bytes)
    BY <2>5 DEF TypeOK
  <2>7. entry[hit.slot].bytes = <<>>
    BY <2>3, <2>5, <2>6, EmptySeq DEF Size
  <2>8. entry[hit.slot].buffptr = NULL
    BY <2>5, <2>7 DEF EntriesOK
  <2> QED  BY <1>6, <2>5, <2>7, <2>8 DEF HitsNothing
<1>7. \/ \E i \in Offsets : Finds(i, pos)
      \/ BytesBefore(MAX) = 0 /\ hit = [slot |-> Slot(MAX), offset |-> pos]
  BY <1>2, FindSpec
<1> QED  BY <1>2, <1>5, <1>6, <1>7

(* How much aesd_read copies.                                               *)
LEMMA CopyFacts ==
    ASSUME TypeOK, EntriesOK, NEW pos \in Nat, NEW hit, NEW count \in Counts,
           HitsByte(hit, pos) \/ HitsNothing(hit, pos),
           entry[hit.slot].buffptr # NULL \/ bytesToCopy(hit, count) = 0
    PROVE  /\ bytesToCopy(hit, count) \in Nat
           /\ HitsByte(hit, pos) =>
                 /\ bytesToCopy(hit, count) > 0
                 /\ hit.offset + bytesToCopy(hit, count) <= Len(entry[hit.slot].bytes)
           /\ HitsNothing(hit, pos) => bytesToCopy(hit, count) = 0
<1>1. count \in Nat \ {0}
  BY DriverAssumption
<1>2. HitsNothing(hit, pos) => bytesToCopy(hit, count) = 0
  BY DEF HitsNothing
<1>3. CASE HitsByte(hit, pos)
  <2>1. /\ hit.slot \in Offsets /\ hit.offset \in Nat
        /\ hit.offset < Len(entry[hit.slot].bytes)
    BY <1>3 DEF HitsByte
  <2>2. PICK len \in Nat : len = Len(entry[hit.slot].bytes)
    BY <2>1, LenProperties DEF TypeOK
  <2>3. len <= MaxMessage /\ MaxMessage < SizeModulus /\ SizeModulus \in Nat \ {0}
    <3>1. MaxMessage <= MAX * MaxMessage
      BY DriverAssumption, MaxIsNat
    <3> QED  BY <2>1, <2>2, <3>1, MemoryAssumption, DriverAssumption, MaxIsNat, RingAssumption
            DEF EntriesOK
  <2>4. PICK off \in Nat : off = hit.offset /\ off < len
    BY <2>1, <2>2
  <2>5. PICK rest \in 0 .. SizeModulus - 1 : rest = len - off /\ rest > 0
    BY <2>2, <2>3, <2>4, DriverAssumption
  <2>6. rest % SizeModulus = rest
    BY <2>3, <2>5, ModBelow
  <2>7. PICK T : T = {rest, count}
    OBVIOUS
  <2>8. T \subseteq Nat /\ T # {}
    BY <1>1, <2>3, <2>5, <2>7
  <2>9. PICK n \in T : n = Min(T) /\ \A y \in T : n <= y
    BY <2>8, MinIsLeast
  <2>10. bytesToCopy(hit, count) = n
    BY <2>2, <2>4, <2>5, <2>6, <2>7, <2>9 DEF bytesToCopy
  <2>11. n \in Nat /\ n > 0 /\ n <= rest
    BY <1>1, <2>5, <2>7, <2>8, <2>9
  <2>12. off + n <= len
    BY <2>4, <2>5, <2>11
  <2> QED  BY <1>2, <2>2, <2>4, <2>10, <2>11, <2>12
<1>4. CASE ~HitsByte(hit, pos)
  BY <1>2, <1>4, SMTT(30)
<1> QED  BY <1>3, <1>4

LEMMA ReadStep ==
    ASSUME IInv, NEW f \in Files, aesd_read(f)
    PROVE  IInv'
<1>1. PICK pos \in Nat : pos = f_pos[f]
  BY PassesFacts DEF IInv, aesd_read
<1>2. PICK hit : hit = aesd_circular_buffer_find_entry_offset_for_fpos(pos)
  BY SMTT(30)
<1>3. UNCHANGED <<entry, in_offs, out_offs, hasBufferBeenFilled, loaded, onGoingWrite,
                  tempBuffer, tempBytes, tempBufferSize, live>>
  BY DEF aesd_read, buffer, temp
<1>4. f_pos \in [Files -> Positions \cup {Closed}]
  BY DEF IInv, TypeOK
<1>5. Done("read", "ok") \in Answers /\ Done("read", "EFAULT") \in Answers
  BY DoneType DEF Calls, Codes
<1>6. ASSUME hit # NotFound
      PROVE  /\ HitsByte(hit, pos) \/ HitsNothing(hit, pos)
             /\ hit.slot \in Offsets
  BY <1>2, <1>6, HitFacts DEF IInv, HitsByte, HitsNothing
<1>7. ASSUME hit # NotFound PROVE entry[hit.slot] \in Entry
  BY <1>6, <1>7 DEF IInv, TypeOK, Entry
<1>8. CASE /\ hit = NotFound
           /\ ret' = [Done("read", "ok") EXCEPT !.pos = f_pos[f]]
           /\ UNCHANGED f_pos
  <2>1. ret' \in Answers
    BY <1>1, <1>5, <1>8 DEF Answers
  <2> QED  BY <1>3, <1>4, <1>8, <2>1, IdleStep
<1>9. ASSUME NEW count \in Counts,
             hit # NotFound,
             entry[hit.slot].buffptr # NULL \/ bytesToCopy(hit, count) = 0,
             ret' = [Done("read", "ok") EXCEPT
                         !.pos = f_pos[f], !.from = entry[hit.slot].buffptr,
                         !.bytes = SubSeq(entry[hit.slot].bytes, hit.offset + 1,
                                          hit.offset + bytesToCopy(hit, count))],
             f_pos' = [f_pos EXCEPT ![f] = @ + bytesToCopy(hit, count)]
      PROVE  IInv'
  <2>1. PICK n \in Nat :
            /\ n = bytesToCopy(hit, count)
            /\ HitsByte(hit, pos) => hit.offset + n <= Len(entry[hit.slot].bytes)
            /\ HitsNothing(hit, pos) => n = 0
    BY <1>6, <1>9, CopyFacts DEF IInv
  <2>2. PICK s \in Seq(Bytes) : s = entry[hit.slot].bytes
    BY <1>7, <1>9 DEF Entry
  <2>3. PICK o \in Nat : o = hit.offset
    BY <1>6, <1>9 DEF HitsByte, HitsNothing
  <2>4. n = 0 \/ o + n <= Len(s)
    BY <1>6, <1>9, <2>1, <2>2, <2>3
  <2>5. SubSeq(s, o + 1, o + n) \in Seq(Bytes)
    <3>1. \A i \in o + 1 .. o + n : s[i] \in Bytes
      BY <2>4, LenProperties, ElementOfSeq
    <3> QED  BY <3>1, SubSeqProperties
  <2>6. ret' \in Answers
    BY <1>1, <1>5, <1>7, <1>9, <2>1, <2>2, <2>3, <2>5 DEF Answers, Entry
  <2>7. f_pos' \in [Files -> Positions \cup {Closed}]
    BY <1>1, <1>4, <1>9, <2>1, PositionFacts
  <2> QED  BY <1>3, <2>6, <2>7, IdleStep
<1>10. CASE /\ hit # NotFound
            /\ ret' = [Done("read", "EFAULT") EXCEPT !.pos = f_pos[f],
                                                     !.from = entry[hit.slot].buffptr]
            /\ UNCHANGED f_pos
  <2>1. ret' \in Answers
    BY <1>1, <1>5, <1>7, <1>10 DEF Answers, Entry
  <2> QED  BY <1>3, <1>4, <1>10, <2>1, IdleStep
<1> QED  BY <1>1, <1>2, <1>8, <1>9, <1>10, ZenonT(60) DEF aesd_read

(* The calls that move only a file's position.                              *)
Ioctl(f) == \E arg \in Seeks \cup DOMAIN UserStruct : aesd_unlockedioctl(f, arg)

Moves(f) ==
    \/ aesd_open(f) \/ aesd_release(f) \/ rw_verify_area(f) \/ aesd_llseek(f) \/ Ioctl(f)

(* They answer without bytes.                                               *)
LEMMA MovesAnswer ==
    ASSUME NEW f \in Files, Moves(f)
    PROVE  \E call \in {"other", "ioctl"}, code \in Codes : ret' = Done(call, code)
<1>1. CASE aesd_open(f) \/ aesd_release(f) \/ rw_verify_area(f) \/ aesd_llseek(f)
  BY <1>1 DEF aesd_open, aesd_release, rw_verify_area, aesd_llseek, Codes
<1>2. CASE Ioctl(f)
  BY <1>2 DEF Ioctl, aesd_unlockedioctl, Codes
<1> QED  BY <1>1, <1>2 DEF Moves

LEMMA MovesOnly ==
    ASSUME NEW f \in Files, Moves(f) \/ StorePosition(f)
    PROVE  UNCHANGED <<entry, in_offs, out_offs, hasBufferBeenFilled, loaded, onGoingWrite,
                       tempBuffer, tempBytes, tempBufferSize, live>>
  BY DEF Moves, Ioctl, StorePosition, aesd_open, aesd_release, rw_verify_area, aesd_llseek,
         aesd_unlockedioctl, buffer, temp

(* A seek stores an int, whatever the argument.                             *)
LEMMA SeekIsInt ==
    ASSUME IInv, NEW arg \in Seeks \cup DOMAIN UserStruct, arg.write_cmd < MAX
    PROVE  SeekPosition(arg.write_cmd, arg.write_cmd_offset) \in Positions
<1>1. arg.write_cmd \in Nat /\ arg.write_cmd_offset \in Nat
  <2>1. UintModulus \in Nat /\ arg \in aesd_seekto
    BY SeekAssumption DEF UintModulus
  <2> QED  BY <2>1 DEF aesd_seekto
<1>2. PICK h \in [0 .. MAX -> Nat] : \A k \in 0 .. MAX : h[k] = BytesBefore(k)
  BY Chars DEF IInv
<1>3. arg.write_cmd \in 0 .. MAX
  BY <1>1, MaxIsNat
<1>4. PICK n \in Nat : n = BytesBefore(arg.write_cmd) + arg.write_cmd_offset
  BY <1>1, <1>2, <1>3
<1> QED  BY <1>4, ToIntFacts DEF SeekPosition

LEMMA FileStep ==
    ASSUME IInv, NEW f \in Files, Moves(f) \/ StorePosition(f)
    PROVE  IInv'
<1>1. UNCHANGED <<entry, in_offs, out_offs, hasBufferBeenFilled, loaded, onGoingWrite,
                  tempBuffer, tempBytes, tempBufferSize, live>>
  BY MovesOnly
<1>2. f_pos \in [Files -> Positions \cup {Closed}]
  BY DEF IInv, TypeOK
<1>3. ret' \in Answers
  <2>1. CASE Moves(f)
    BY <2>1, MovesAnswer, DoneType DEF Calls
  <2>2. CASE StorePosition(f)
    BY <2>2 DEF StorePosition, IInv, TypeOK, Answers
  <2> QED  BY <2>1, <2>2
<1>4. CASE aesd_open(f) \/ aesd_release(f) \/ rw_verify_area(f) \/ aesd_llseek(f)
  <2>1. f_pos' \in [Files -> Positions \cup {Closed}]
    BY <1>2, <1>4, PositionFacts DEF aesd_open, aesd_release, rw_verify_area, aesd_llseek
  <2> QED  BY <1>1, <1>3, <2>1, IdleStep
<1>5. CASE Ioctl(f)
  <2>1. PICK arg \in Seeks \cup DOMAIN UserStruct :
            \/ UNCHANGED f_pos
            \/ /\ arg.write_cmd < MAX
               /\ f_pos' = [f_pos EXCEPT ![f] = SeekPosition(arg.write_cmd, arg.write_cmd_offset)]
    BY <1>5 DEF Ioctl, aesd_unlockedioctl
  <2>2. f_pos' \in [Files -> Positions \cup {Closed}]
    BY <1>2, <2>1, SeekIsInt
  <2> QED  BY <1>1, <1>3, <2>2, IdleStep
<1>6. CASE StorePosition(f)
  <2>1. PICK pos \in 0 .. MaxPos : f_pos' = [f_pos EXCEPT ![f] = pos]
    BY <1>6, Zenon DEF StorePosition
  <2>2. pos \in Positions
    BY DriverAssumption, PositionFacts
  <2>3. f_pos' \in [Files -> Positions \cup {Closed}]
    BY <1>2, <2>1, <2>2
  <2> QED  BY <1>1, <1>3, <2>3, IdleStep
<1> QED  BY <1>4, <1>5, <1>6 DEF Moves

(* The memory aesd_write works on is allocated, belongs to no entry and is  *)
(* large enough once it has grown.                                          *)
LEMMA WriteFacts ==
    ASSUME IInv, NEW f \in Files, NEW piece \in Pieces, CanWrite(f, piece), HasBlock
    PROVE  /\ BlockNow \in Blocks /\ BlockNow \in LiveNow
           /\ LiveNow \subseteq Blocks /\ live \subseteq LiveNow
           /\ LiveNow \subseteq live \cup {BlockNow}
           /\ BlockNow \notin EntryBlocks /\ EntryBlocks \subseteq live
           /\ BytesNow \in Seq(Bytes) /\ piece \in Seq(Bytes)
           /\ BytesNow \o piece \in Seq(Bytes) /\ Len(BytesNow \o piece) <= MaxMessage
           /\ SizeNow \in Nat /\ NewSize(piece) \in Nat /\ NewSize(piece) > 0
           /\ Len(BytesNow \o piece) <= NewSize(piece)
           /\ loaded /\ f_pos[f] \in Nat
<1>1. loaded /\ f_pos[f] \in Nat
  BY PassesFacts DEF IInv, CanWrite
<1>2. /\ live \subseteq Blocks /\ EntryBlocks \subseteq live
      /\ onGoingWrite => tempBuffer \in live /\ tempBuffer \notin EntryBlocks
  BY <1>1 DEF IInv, TypeOK, BuffersLive, Owned
<1>3. ~onGoingWrite => kmalloc \in Blocks \ live
  <2>1. HasBlock /\ ~onGoingWrite => Blocks \ live # {}
    BY DEF HasBlock, Started
  <2>2. Blocks \ live \subseteq Nat
    BY BlocksAreNat
  <2> QED  BY <2>1, <2>2, MinIsLeast DEF kmalloc
<1>4. /\ BlockNow \in Blocks /\ BlockNow \in LiveNow
      /\ LiveNow \subseteq Blocks /\ live \subseteq LiveNow
      /\ LiveNow \subseteq live \cup {BlockNow}
      /\ BlockNow \notin EntryBlocks
  BY <1>2, <1>3 DEF BlockNow, LiveNow, Started
<1>5. BytesNow \in Seq(Bytes) /\ piece \in Seq(Bytes)
  BY DriverAssumption, EmptySeq DEF IInv, TypeOK, BytesNow
<1>6. /\ BytesNow \o piece \in Seq(Bytes)
      /\ Len(BytesNow \o piece) = Len(BytesNow) + Len(piece)
  BY <1>5, ConcatProperties
<1>7. PICK needed \in Nat : needed = Len(BytesNow) + Len(piece)
  BY <1>5, LenProperties
<1>8. PICK size \in Nat \ {0} : size = SizeNow
  BY <1>1, DriverAssumption DEF IInv, TypeOK, TempOK, SizeNow, Started
<1>9. NewSize(piece) = IF size < needed THEN Grown(size, needed) ELSE size
  BY <1>7, <1>8 DEF NewSize
<1>10. PICK grown \in Nat : grown = Grown(size, needed) /\ grown >= needed /\ grown > 0
  BY GrownFits
<1>11. NewSize(piece) \in Nat /\ NewSize(piece) > 0 /\ needed <= NewSize(piece)
  BY <1>9, <1>10
<1> QED  BY <1>1, <1>2, <1>4, <1>5, <1>6, <1>7, <1>8, <1>11 DEF CanWrite

(* The three writes that give the message up leave the entries alone and    *)
(* free its memory.                                                         *)
LEMMA GiveUpStep ==
    ASSUME IInv, NEW f \in Files, NEW piece \in Pieces, CanWrite(f, piece), HasBlock,
           UNCHANGED <<entry, in_offs, out_offs, hasBufferBeenFilled, loaded, f_pos>>,
           live' = LiveNow \ {BlockNow}, onGoingWrite' = FALSE,
           tempBuffer' \in Blocks \cup {NULL}, tempBytes' \in Seq(Bytes), tempBufferSize' \in Nat,
           ret' \in Answers
    PROVE  IInv'
<1>1. /\ BlockNow \notin EntryBlocks /\ EntryBlocks \subseteq live /\ live \subseteq LiveNow
      /\ LiveNow \subseteq Blocks
  BY WriteFacts
<1>2. TypeOK'
  BY <1>1 DEF IInv, TypeOK, Answers
<1>3. RingOK' /\ EntriesOK' /\ TempOK'
  BY DEF IInv, RingOK, EntriesOK, TempOK
<1>4. EntryBlocks' = EntryBlocks /\ EntryBlocks \subseteq live'
  BY <1>1 DEF EntryBlocks
<1>5. BuffersLive'
  BY <1>4 DEF IInv, BuffersLive, Owned
<1> QED  BY <1>2, <1>3, <1>5 DEF IInv

LEMMA NoStartStep ==
    ASSUME IInv, NEW f \in Files, WriteNoStart(f)
    PROVE  IInv'
<1>1. /\ ~onGoingWrite /\ tempBuffer' = NULL /\ ret' = Done("write", "ENOMEM")
      /\ UNCHANGED <<entry, in_offs, out_offs, hasBufferBeenFilled, loaded, onGoingWrite,
                     tempBytes, tempBufferSize, f_pos, live>>
  BY DEF WriteNoStart, Started, buffer
<1>2. ret' \in Answers
  BY <1>1, DoneType DEF Calls, Codes
<1>3. TypeOK'
  BY <1>1, <1>2 DEF IInv, TypeOK, Answers
<1>4. RingOK' /\ EntriesOK' /\ TempOK'
  BY <1>1 DEF IInv, RingOK, EntriesOK, TempOK
<1>5. BuffersLive'
  BY <1>1 DEF IInv, BuffersLive, Owned, EntryBlocks
<1> QED  BY <1>3, <1>4, <1>5 DEF IInv

LEMMA GiveUpSteps ==
    ASSUME IInv, NEW f \in Files, WriteNoGrowth(f) \/ WriteNoCopy(f) \/ WriteNoEntry(f)
    PROVE  IInv'
<1>1. Done("write", "ENOMEM") \in Answers /\ Done("write", "EFAULT") \in Answers
  BY DoneType DEF Calls, Codes
<1>2. PICK piece \in Pieces :
          /\ CanWrite(f, piece) /\ HasBlock
          /\ UNCHANGED <<entry, in_offs, out_offs, hasBufferBeenFilled, loaded, f_pos>>
          /\ live' = LiveNow \ {BlockNow} /\ onGoingWrite' = FALSE
          /\ tempBuffer' \in {NULL, BlockNow} /\ tempBytes' \in {<<>>, BytesNow \o piece}
          /\ tempBufferSize' \in {0, SizeNow, NewSize(piece)}
          /\ ret' \in {Done("write", "ENOMEM"), Done("write", "EFAULT")}
  BY DEF WriteNoGrowth, WriteNoCopy, WriteNoEntry, buffer
<1>3. /\ BlockNow \in Blocks /\ BytesNow \o piece \in Seq(Bytes)
      /\ SizeNow \in Nat /\ NewSize(piece) \in Nat
  BY <1>2, WriteFacts
<1>4. /\ tempBuffer' \in Blocks \cup {NULL} /\ tempBytes' \in Seq(Bytes)
      /\ tempBufferSize' \in Nat /\ ret' \in Answers
  <2>1. <<>> \in Seq(Bytes)
    BY EmptySeq
  <2>2. tempBuffer' \in Blocks \cup {NULL} /\ tempBytes' \in Seq(Bytes)
    BY <1>2, <1>3, <2>1, Zenon
  <2>3. tempBufferSize' \in Nat
    BY <1>2, <1>3
  <2>4. ret' \in Answers
    BY <1>1, <1>2, Zenon
  <2> QED  BY <2>2, <2>3, <2>4
<1> QED  BY <1>2, <1>4, GiveUpStep

LEMMA PieceStep ==
    ASSUME IInv, NEW f \in Files, WritePiece(f)
    PROVE  IInv'
<1>1. PICK piece \in Pieces :
          /\ CanWrite(f, piece) /\ HasBlock
          /\ live' = LiveNow /\ onGoingWrite' = TRUE /\ tempBuffer' = BlockNow
          /\ tempBytes' = BytesNow \o piece /\ tempBufferSize' = NewSize(piece)
          /\ ret' = Done("write", "ok")
          /\ f_pos' = [f_pos EXCEPT ![f] = @ + Len(piece)]
          /\ UNCHANGED <<entry, in_offs, out_offs, hasBufferBeenFilled, loaded>>
  BY DEF WritePiece, buffer
<1>2. /\ BlockNow \in Blocks /\ BlockNow \in LiveNow
      /\ LiveNow \subseteq Blocks /\ live \subseteq LiveNow
      /\ BlockNow \notin EntryBlocks /\ EntryBlocks \subseteq live
      /\ piece \in Seq(Bytes) /\ BytesNow \o piece \in Seq(Bytes)
      /\ NewSize(piece) \in Nat /\ NewSize(piece) > 0
      /\ Len(BytesNow \o piece) <= NewSize(piece) /\ f_pos[f] \in Nat
  BY <1>1, WriteFacts
<1>3. ret' \in Answers
  BY <1>1, DoneType DEF Calls, Codes
<1>4. f_pos' \in [Files -> Positions \cup {Closed}]
  BY <1>1, <1>2, LenProperties, PositionFacts DEF IInv, TypeOK
<1>5. TypeOK'
  BY <1>1, <1>2, <1>3, <1>4 DEF IInv, TypeOK, Answers
<1>6. RingOK' /\ EntriesOK' /\ TempOK'
  BY <1>1, <1>2 DEF IInv, RingOK, EntriesOK, TempOK
<1>7. EntryBlocks' = EntryBlocks
  BY <1>1 DEF EntryBlocks
<1>8. BuffersLive'
  BY <1>1, <1>2, <1>7 DEF IInv, BuffersLive, Owned
<1> QED  BY <1>5, <1>6, <1>8 DEF IInv

(* aesd_write completes a message: its entry e takes the place of the       *)
(* oldest or of an empty one, and has memory of its own.                    *)
Completes(f, piece, e) ==
    /\ CanWrite(f, piece) /\ HasBlock /\ EndsMessage(BytesNow \o piece)
    /\ e.buffptr \in Blocks \ LiveNow /\ e.bytes = BytesNow \o piece
    /\ entry' = [entry EXCEPT ![in_offs] = e]
    /\ out_offs' = IF hasBufferBeenFilled /\ out_offs = in_offs THEN NextOffs(out_offs)
                   ELSE out_offs
    /\ in_offs' = NextOffs(in_offs)
    /\ hasBufferBeenFilled' = (hasBufferBeenFilled \/ in_offs' = 0)
    /\ live' = (LiveNow \cup {e.buffptr}) \ {entry[in_offs].buffptr, BlockNow}
    /\ onGoingWrite' = FALSE /\ tempBuffer' = NULL /\ tempBytes' = <<>> /\ tempBufferSize' = 0
    /\ ret' = Done("write", "ok")
    /\ f_pos' = [f_pos EXCEPT ![f] = @ + Len(piece)]
    /\ UNCHANGED loaded

LEMMA MessageCompletes ==
    ASSUME IInv, NEW f \in Files, WriteMessage(f)
    PROVE  \E piece \in Pieces, e \in Entry : Completes(f, piece, e)
<1>1. PICK piece \in Pieces :
          /\ CanWrite(f, piece) /\ HasBlock
          /\ EndsMessage(BytesNow \o piece)
          /\ Blocks \ LiveNow # {}
          /\ aesd_circular_buffer_add_entry([buffptr |-> Min(Blocks \ LiveNow),
                                             bytes |-> BytesNow \o piece])
          /\ live' = (LiveNow \cup {Min(Blocks \ LiveNow)}) \ {Overwritten, BlockNow}
          /\ onGoingWrite' = FALSE /\ tempBuffer' = NULL /\ tempBytes' = <<>>
          /\ tempBufferSize' = 0
          /\ ret' = Done("write", "ok")
          /\ f_pos' = [f_pos EXCEPT ![f] = @ + Len(piece)]
          /\ UNCHANGED loaded
  BY Zenon DEF WriteMessage
<1>2. PICK block \in Blocks \ LiveNow : block = Min(Blocks \ LiveNow)
  <2>1. Blocks \ LiveNow \subseteq Nat
    BY BlocksAreNat
  <2> QED  BY <1>1, <2>1, MinIsLeast
<1>3. PICK e : e = [buffptr |-> block, bytes |-> BytesNow \o piece]
  OBVIOUS
<1>4. e \in Entry /\ e.buffptr = block /\ e.bytes = BytesNow \o piece
  <2>1. BytesNow \o piece \in Seq(Bytes)
    BY <1>1, WriteFacts
  <2> QED  BY <1>3, <2>1 DEF Entry
<1>5. Completes(f, piece, e)
  BY <1>1, <1>2, <1>3, <1>4 DEF Completes, aesd_circular_buffer_add_entry, Overwritten
<1> QED  BY <1>4, <1>5

LEMMA MessageStep ==
    ASSUME IInv, NEW f \in Files, NEW piece \in Pieces, NEW e \in Entry, Completes(f, piece, e)
    PROVE  IInv'
<1>1. /\ BlockNow \in Blocks /\ BlockNow \in LiveNow
      /\ LiveNow \subseteq Blocks /\ live \subseteq LiveNow
      /\ BlockNow \notin EntryBlocks /\ EntryBlocks \subseteq live
      /\ piece \in Seq(Bytes) /\ BytesNow \o piece \in Seq(Bytes)
      /\ Len(BytesNow \o piece) <= MaxMessage /\ f_pos[f] \in Nat /\ loaded
  BY WriteFacts DEF Completes
<1>2. /\ in_offs \in Offsets /\ out_offs \in Offsets /\ entry \in [Offsets -> Entry]
      /\ hasBufferBeenFilled \in BOOLEAN /\ f_pos \in [Files -> Positions \cup {Closed}]
  BY DEF IInv, TypeOK, Entry
<1>3. NextOffs(in_offs) \in Offsets /\ NextOffs(out_offs) \in Offsets
  BY <1>2, NextValue
<1>4. entry' \in [Offsets -> Entry] /\ \A i \in Offsets : entry'[i] = IF i = in_offs THEN e ELSE entry[i]
  BY <1>2 DEF Completes
<1>5. TypeOK'
  <2>1. ret' \in Answers
    BY DoneType DEF Completes, Calls, Codes
  <2>2. f_pos' \in [Files -> Positions \cup {Closed}]
    BY <1>1, <1>2, LenProperties, PositionFacts DEF Completes
  <2>3. live' \subseteq Blocks
    BY <1>1 DEF Completes
  <2>4. in_offs' \in Offsets /\ out_offs' \in Offsets /\ hasBufferBeenFilled' \in BOOLEAN
    BY <1>2, <1>3 DEF Completes
  <2>5. loaded' \in BOOLEAN /\ onGoingWrite' \in BOOLEAN /\ tempBuffer' \in Blocks \cup {NULL}
    BY DEF Completes, IInv, TypeOK
  <2>6. tempBytes' \in Seq(Bytes) /\ tempBufferSize' \in Nat
    BY EmptySeq DEF Completes
  <2> QED  BY <1>4, <2>1, <2>2, <2>3, <2>4, <2>5, <2>6 DEF TypeOK, Answers, Entry
<1>6. RingOK'
  <2>1. CASE hasBufferBeenFilled
    BY <2>1 DEF IInv, RingOK, Completes
  <2>2. CASE ~hasBufferBeenFilled
    <3>1. out_offs' = 0 /\ (hasBufferBeenFilled' <=> in_offs' = 0)
      BY <2>2 DEF IInv, RingOK, Completes
    <3>2. in_offs' = IF in_offs + 1 < MAX THEN in_offs + 1 ELSE 0
      BY <1>2, NextValue DEF Completes
    <3>3. ASSUME NEW i \in Offsets, in_offs' # 0, i >= in_offs' PROVE entry'[i] = EmptyEntry
      <4>1. i # in_offs /\ i >= in_offs
        BY <1>2, <3>2, <3>3, MaxIsNat DEF Offsets
      <4> QED  BY <1>4, <2>2, <4>1 DEF IInv, RingOK
    <3> QED  BY <3>1, <3>3 DEF RingOK
  <2> QED  BY <2>1, <2>2
<1>7. EntriesOK'
  <2>1. Len(e.bytes) <= MaxMessage /\ e.bytes # <<>>
    BY <1>1 DEF Completes, EndsMessage
  <2> QED  BY <1>4, <2>1 DEF IInv, EntriesOK
<1>8. TempOK'
  BY DEF TempOK, Completes
<1>9. BuffersLive'
  <2>1. \A i \in Offsets : entry[i].buffptr \in EntryBlocks \cup {NULL}
    BY DEF EntryBlocks
  <2>2. e.buffptr \in Blocks \ LiveNow /\ e.buffptr # NULL /\ e.buffptr # BlockNow
    BY <1>1, BlocksAreNat DEF Completes
  <2>3. \A i \in Offsets : e.buffptr # entry[i].buffptr
    BY <1>1, <2>1, <2>2
  <2>4. \A i, j \in Offsets : i # j => \/ entry[i].buffptr # entry[j].buffptr
                                       \/ entry[i].buffptr = NULL
    BY <1>1 DEF IInv, BuffersLive
  <2>5. \A i, j \in Offsets : i # j => \/ entry'[i].buffptr # entry'[j].buffptr
                                       \/ entry'[i].buffptr = NULL
    BY <1>4, <2>3, <2>4
  <2>6. live' = (LiveNow \cup {e.buffptr}) \ {entry[in_offs].buffptr, BlockNow}
    BY DEF Completes
  <2>7. ASSUME NEW i \in Offsets, entry'[i].buffptr # NULL PROVE entry'[i].buffptr \in live'
    <3>1. CASE i = in_offs
      BY <1>2, <1>4, <2>2, <2>3, <2>6, <3>1
    <3>2. CASE i # in_offs
      <4>1. entry[i].buffptr \in EntryBlocks /\ entry[i].buffptr # entry[in_offs].buffptr
        BY <1>2, <1>4, <2>1, <2>4, <2>7, <3>2
      <4> QED  BY <1>1, <1>4, <2>6, <3>2, <4>1
    <3> QED  BY <3>1, <3>2
  <2>8. EntryBlocks' \subseteq live'
    BY <2>7 DEF EntryBlocks
  <2> QED  BY <2>5, <2>8 DEF BuffersLive, Owned, Completes
<1> QED  BY <1>5, <1>6, <1>7, <1>8, <1>9 DEF IInv

LEMMA IInvStep == IInv /\ [Next]_vars => IInv'
<1> SUFFICES ASSUME IInv, [Next]_vars PROVE IInv'
  OBVIOUS
<1>1. CASE aesd_init_module
  BY <1>1, InitModuleStep
<1>2. CASE aesd_cleanup_module
  BY <1>2, CleanupStep
<1>3. ASSUME NEW f \in Files, Moves(f) \/ StorePosition(f) PROVE IInv'
  BY <1>3, FileStep
<1>4. ASSUME NEW f \in Files, aesd_read(f) PROVE IInv'
  BY <1>4, ReadStep
<1>5. ASSUME NEW f \in Files, aesd_write(f) PROVE IInv'
  <2>1. CASE WriteNoStart(f)
    BY <2>1, NoStartStep
  <2>2. CASE WriteNoGrowth(f) \/ WriteNoCopy(f) \/ WriteNoEntry(f)
    BY <2>2, GiveUpSteps
  <2>3. CASE WritePiece(f)
    BY <2>3, PieceStep
  <2>4. CASE WriteMessage(f)
    BY <2>4, MessageCompletes, MessageStep
  <2> QED  BY <1>5, <2>1, <2>2, <2>3, <2>4 DEF aesd_write
<1>6. CASE UNCHANGED vars
  <2>1. f_pos' \in [Files -> Positions \cup {Closed}] /\ ret' \in Answers
    BY <1>6 DEF IInv, TypeOK, vars, Answers
  <2>2. UNCHANGED <<entry, in_offs, out_offs, hasBufferBeenFilled, loaded, onGoingWrite,
                    tempBuffer, tempBytes, tempBufferSize, live>>
    BY <1>6 DEF vars, buffer, temp
  <2> QED  BY <2>1, <2>2, IdleStep
<1> QED  BY <1>1, <1>2, <1>3, <1>4, <1>5, <1>6 DEF Next, Moves, Ioctl

-----------------------------------------------------------------------------
(* The invariant of every behaviour: the array is a ring, an entry with     *)
(* memory is not empty, and the unfinished message has memory it fits.      *)
THEOREM Invariance == Spec => []IInv
<1>1. Init => IInv
  BY IInvInit
<1>2. IInv /\ [Next]_vars => IInv'
  BY IInvStep
<1> QED  BY <1>1, <1>2, PTL DEF Spec

(* The type invariant, for every size of the array: a position is never     *)
(* below the least int, whatever 32-bit offset an ioctl adds to it, and     *)
(* never the mark of a closed file.                                         *)
THEOREM TypeCorrect == Spec => []TypeOK
  BY Invariance, PTL DEF IInv

(* What the driver will free or copy from is allocated, and nothing is in   *)
(* it twice: aesd_write frees the overwritten entry and the working memory  *)
(* exactly once, whichever kernel call fails.                               *)
THEOREM BuffersAreLive == Spec => []BuffersLive
  BY Invariance, PTL DEF IInv

(* The doubling of newBufferSize in aesd_write always makes room.           *)
THEOREM PieceAlwaysFits == Spec => []PieceFits
<1>1. IInv => PieceFits
  BY DEF IInv, TempOK, PieceFits
<1> QED  BY <1>1, Invariance, PTL

-----------------------------------------------------------------------------
(* Seeking                                                                  *)

(* The bytes of entry k are found where AESDCHAR_IOCSEEKTO puts the         *)
(* position.                                                                *)
LEMMA SeekFinds ==
    ASSUME TypeOK, EntriesOK, NEW k \in Offsets, NEW o \in Nat, o < Size(k)
    PROVE  /\ SeekPosition(k, o) \in Nat
           /\ aesd_circular_buffer_find_entry_offset_for_fpos(SeekPosition(k, o))
                 = [slot |-> Slot(k), offset |-> o]
<1>1. PICK h \in [0 .. MAX -> Nat] :
               /\ h[0] = 0
               /\ \A i \in 0 .. MAX : h[i] = BytesBefore(i)
               /\ \A i \in Offsets : h[i + 1] = h[i] + Size(i)
               /\ \A i \in 0 .. MAX : \A m \in i .. MAX : h[i] <= h[m]
               /\ \A i \in 0 .. MAX : h[i] <= INT_MAX
  BY Chars
<1>2. \A i \in Offsets : i \in 0 .. MAX /\ i + 1 \in 0 .. MAX /\ MAX \in i + 1 .. MAX
  BY MaxIsNat DEF Offsets
<1>3. PICK pos \in Nat : pos = h[k] + o /\ pos < h[k + 1] /\ pos = SeekPosition(k, o)
  <2>1. PICK b \in Nat, z \in Nat, c \in Nat : b = h[k] /\ z = Size(k) /\ c = h[k + 1]
    BY <1>2, SizesAreNat
  <2>2. b + o \in Nat /\ b + o < c
    BY <1>1, <2>1
  <2>3. PICK n \in Nat : n = b + o
    BY <2>2
  <2>4. n <= INT_MAX
    BY <1>1, <1>2, <2>1, <2>2, <2>3, PositionFacts, SMTT(30)
  <2>5. ToInt(n) = n
    BY <2>4, ToIntFacts
  <2> QED  BY <1>1, <1>2, <2>1, <2>2, <2>3, <2>5 DEF SeekPosition
<1>4. h[k + 1] <= h[MAX] /\ MAX \in 0 .. MAX
  BY <1>1, <1>2, MaxIsNat
<1>5. PICK i \in Offsets : Finds(i, pos)
  <2>1. ~(BytesBefore(MAX) <= pos) /\ BytesBefore(MAX) # 0
    BY <1>1, <1>2, <1>3, <1>4
  <2> QED  BY <2>1, FindSpec
<1>6. h[i] <= pos /\ pos < h[i + 1]
  BY <1>1, <1>2, <1>5 DEF Finds
<1>7. i = k
  <2>1. ASSUME i < k PROVE FALSE
    <3>1. k \in i + 1 .. MAX
      BY <1>2, <2>1, MaxIsNat DEF Offsets
    <3>2. h[i + 1] <= h[k]
      BY <1>1, <1>2, <3>1
    <3> QED  BY <1>2, <1>3, <1>6, <3>2
  <2>2. ASSUME k < i PROVE FALSE
    <3>1. i \in k + 1 .. MAX
      BY <1>2, <2>2, MaxIsNat DEF Offsets
    <3>2. h[k + 1] <= h[i]
      BY <1>1, <1>2, <3>1
    <3> QED  BY <1>2, <1>3, <1>6, <3>2
  <2> QED  BY <2>1, <2>2, MaxIsNat DEF Offsets
<1>8. pos - BytesBefore(k) = o
  BY <1>1, <1>2, <1>3
<1> QED  BY <1>3, <1>5, <1>7, <1>8 DEF Finds

(* A call of ioctl with the struct itself for an argument succeeds and ends *)
(* at the byte the struct names.                                            *)
LEMMA SeekStep ==
    ASSUME IInv, NEW f \in Files, NEW seek \in Seeks
    PROVE  SeeksTo(f, seek, seek)
<1> SUFFICES ASSUME aesd_unlockedioctl(f, seek), NamesByte(seek)
             PROVE  /\ ret'.code = "ok"
                    /\ aesd_circular_buffer_find_entry_offset_for_fpos(f_pos'[f]) = ByteNamed(seek)
  BY DEF SeeksTo
<1>1. PICK k \in Nat, o \in Nat : k = seek.write_cmd /\ o = seek.write_cmd_offset
  <2>1. UintModulus \in Nat /\ seek \in aesd_seekto
    BY SeekAssumption DEF UintModulus
  <2> QED  BY <2>1 DEF aesd_seekto
<1>2. Kept \in 0 .. MAX
  BY MaxIsNat DEF IInv, TypeOK, Kept, Offsets
<1>3. k < Kept /\ o < Len(Log[k + 1])
  BY <1>1 DEF NamesByte
<1>4. k \in Offsets /\ k \in 0 .. MAX
  BY <1>2, <1>3, MaxIsNat DEF Offsets
<1>5. Log[k + 1] = entry[Slot(k)].bytes
  <2>1. k + 1 \in 1 .. Kept /\ (k + 1) - 1 = k
    BY <1>2, <1>3
  <2> QED  BY <2>1 DEF Log
<1>6. PICK pos \in Nat :
          /\ pos = SeekPosition(k, o)
          /\ aesd_circular_buffer_find_entry_offset_for_fpos(pos) = [slot |-> Slot(k), offset |-> o]
  BY <1>3, <1>4, <1>5, SeekFinds DEF IInv, Size
<1>7. /\ f_pos' = [f_pos EXCEPT ![f] = pos]
      /\ ret' = Done("ioctl", IF f_pos'[f] < 0 THEN "negative" ELSE "ok")
  BY <1>1, <1>4, <1>6, MaxIsNat DEF aesd_unlockedioctl, Offsets
<1>8. f_pos'[f] = pos
  BY <1>7 DEF IInv, TypeOK
<1>9. ret'.code = "ok"
  BY <1>7, <1>8 DEF Done
<1> QED  BY <1>1, <1>6, <1>8, <1>9 DEF ByteNamed

(* Whatever was written and however often the array has wrapped,            *)
(* AESDCHAR_IOCSEEKTO with the struct itself for an argument, which names a *)
(* byte of a kept message, succeeds and makes aesd_read continue there: the *)
(* conversion to int is harmless for such a struct.                         *)
THEOREM SeekIsExact == Spec => SeekHitsByte
<1>1. IInv /\ [Next]_vars => [\A f \in Files : \A seek \in Seeks : SeeksTo(f, seek, seek)]_vars
  BY SeekStep
<1> QED  BY <1>1, Invariance, PTL DEF Spec, SeekHitsByte

-----------------------------------------------------------------------------
(* Memory                                                                   *)

LEMMA LeakStep ==
    ASSUME IInv, Next, loaded, loaded'
    PROVE  (live \ Owned)' \subseteq live \ Owned
<1>1. ASSUME UNCHANGED <<entry, onGoingWrite, live>>, onGoingWrite => UNCHANGED tempBuffer
      PROVE  (live \ Owned)' \subseteq live \ Owned
  BY <1>1, SMTT(30) DEF Owned, EntryBlocks
<1>2. ASSUME NEW f \in Files,
             Moves(f) \/ StorePosition(f) \/ aesd_read(f) \/ WriteNoStart(f)
      PROVE  UNCHANGED <<entry, onGoingWrite, live>> /\ (onGoingWrite => UNCHANGED tempBuffer)
  BY <1>2, MovesOnly DEF aesd_read, WriteNoStart, Started, buffer, temp
<1>3. Started => BlockNow = tempBuffer
  BY DEF BlockNow
<1>4. ASSUME NEW f \in Files, WriteNoGrowth(f) \/ WriteNoCopy(f) \/ WriteNoEntry(f)
      PROVE  (live \ Owned)' \subseteq live \ Owned
  <2>1. PICK piece \in Pieces :
            /\ CanWrite(f, piece) /\ HasBlock
            /\ live' = LiveNow \ {BlockNow} /\ onGoingWrite' = FALSE /\ UNCHANGED entry
    BY <1>4 DEF WriteNoGrowth, WriteNoCopy, WriteNoEntry, buffer
  <2>2. LiveNow \subseteq live \cup {BlockNow}
    BY <2>1, WriteFacts
  <2> QED  BY <1>3, <2>1, <2>2 DEF Owned, EntryBlocks, Started
<1>5. ASSUME NEW f \in Files, WritePiece(f) PROVE (live \ Owned)' \subseteq live \ Owned
  <2>1. PICK piece \in Pieces :
            /\ CanWrite(f, piece) /\ HasBlock
            /\ live' = LiveNow /\ onGoingWrite' = TRUE /\ tempBuffer' = BlockNow
            /\ UNCHANGED entry
    BY <1>5 DEF WritePiece, buffer
  <2>2. LiveNow \subseteq live \cup {BlockNow}
    BY <2>1, WriteFacts
  <2> QED  BY <1>3, <2>1, <2>2 DEF Owned, EntryBlocks, Started
<1>6. ASSUME NEW f \in Files, WriteMessage(f) PROVE (live \ Owned)' \subseteq live \ Owned
  <2>1. PICK piece \in Pieces, e \in Entry : Completes(f, piece, e)
    BY <1>6, MessageCompletes
  <2>2. LiveNow \subseteq live \cup {BlockNow}
    BY <2>1, WriteFacts DEF Completes
  <2>3. in_offs \in Offsets /\ entry \in [Offsets -> Entry]
    BY DEF IInv, TypeOK, Entry
  <2>4. \A i \in Offsets : entry'[i] = IF i = in_offs THEN e ELSE entry[i]
    BY <2>1, <2>3 DEF Completes
  <2>5. live' = (LiveNow \cup {e.buffptr}) \ {entry[in_offs].buffptr, BlockNow}
    BY <2>1 DEF Completes
  <2>6. e.buffptr \in EntryBlocks'
    <3>1. e.buffptr # NULL
      BY <2>1, BlocksAreNat DEF Completes
    <3> QED  BY <2>3, <2>4, <3>1 DEF EntryBlocks
  <2>7. EntryBlocks \ {entry[in_offs].buffptr} \subseteq EntryBlocks'
    BY <2>4 DEF EntryBlocks
  <2>8. Owned' = EntryBlocks' /\ Owned \subseteq EntryBlocks \cup {BlockNow}
    BY <1>3, <2>1 DEF Owned, Completes, Started
  <2> QED  BY <2>2, <2>5, <2>6, <2>7, <2>8
<1>7. ~aesd_init_module /\ ~aesd_cleanup_module
  BY DEF aesd_init_module, aesd_cleanup_module
<1> QED  BY <1>1, <1>2, <1>4, <1>5, <1>6, <1>7 DEF Next, Moves, Ioctl, aesd_write

(* No path of aesd_write, aesd_read or the other calls forgets memory: a    *)
(* block nobody points to any more appears only when the module is          *)
(* unloaded.                                                                *)
THEOREM LeaksOnlyOnUnload == Spec => OnlyUnloadLeaks
<1>1. IInv /\ [Next]_vars => [loaded /\ loaded' => (live \ Owned)' \subseteq live \ Owned]_vars
  BY LeakStep
<1> QED  BY <1>1, Invariance, PTL DEF Spec, OnlyUnloadLeaks

-----------------------------------------------------------------------------
(* Refinement of MessageLog                                                 *)

log     == IF loaded THEN Log ELSE <<>>
partial == IF loaded /\ onGoingWrite THEN tempBytes ELSE <<>>
answer  == IF ret.call = "write" THEN ret.code ELSE "ok"

LEMMA SameLog ==
    ASSUME UNCHANGED <<entry, in_offs, out_offs, hasBufferBeenFilled>>
    PROVE  Log' = Log
  BY DEF Log, Slot, Kept

LEMMA ReadAnswers ==
    ASSUME NEW f \in Files, aesd_read(f)
    PROVE  ret'.call = "read"
<1>1. \E code, p, from, bytes :
          ret' = [call |-> "read", code |-> code, pos |-> p, bytes |-> bytes, from |-> from]
  BY DEF aesd_read, Done
<1> QED  BY <1>1, SMTT(30)

(* aesd_circular_buffer_add_entry on the list: the new message is appended, *)
(* and the oldest one makes room if the array is full.                      *)
LEMMA AddEntryAppends ==
    ASSUME IInv, NEW f \in Files, NEW piece \in Pieces, NEW e \in Entry, Completes(f, piece, e)
    PROVE  Log' = Messages!Newest(Append(Log, BytesNow \o piece))
<1>1. /\ in_offs \in Offsets /\ out_offs \in Offsets /\ entry \in [Offsets -> Entry]
  BY DEF IInv, TypeOK, Entry
<1>2. e.bytes \in Seq(Bytes) /\ e.bytes = BytesNow \o piece
  BY DEF Entry, Completes
<1>3. Log' = RingLog(entry', out_offs', Kept')
  BY DEF Log, RingLog, Slot, At
<1>4. CASE hasBufferBeenFilled
  <2>1. /\ in_offs = out_offs /\ Kept = MAX /\ Kept' = MAX
        /\ entry' = [entry EXCEPT ![out_offs] = e] /\ out_offs' = NextOffs(out_offs)
    BY <1>4 DEF IInv, RingOK, Completes, Kept
  <2>2. Log = RingLog(entry, out_offs, MAX)
    BY <2>1, LogIsRing
  <2>3. Log' = Tail(Append(Log, e.bytes))
    BY <1>1, <1>3, <2>1, <2>2, StoreReplaces
  <2>4. Log \in Seq(Seq(Bytes)) /\ Len(Log) = MAX
    BY <1>1, <2>2, RingLogType, MaxIsNat
  <2>5. Len(Append(Log, e.bytes)) = MAX + 1 /\ MAX + 1 > MAX
    BY <1>2, <2>4, AppendProperties, MaxIsNat
  <2> QED  BY <1>2, <2>3, <2>5 DEF Messages!Newest
<1>5. CASE ~hasBufferBeenFilled
  <2>1. /\ out_offs = 0 /\ out_offs' = out_offs /\ Kept = in_offs
        /\ entry' = [entry EXCEPT ![in_offs] = e] /\ in_offs' = NextOffs(in_offs)
        /\ (hasBufferBeenFilled' <=> in_offs' = 0)
    BY <1>5 DEF IInv, RingOK, Completes, Kept
  <2>2. At(out_offs, in_offs) = in_offs /\ in_offs \in 0 .. MAX
    BY <1>1, <2>1, AtValue, MaxIsNat DEF Offsets
  <2>3. Log = RingLog(entry, out_offs, in_offs)
    BY <2>1, LogIsRing
  <2>4. Kept' = in_offs + 1
    <3>1. in_offs' = IF in_offs + 1 < MAX THEN in_offs + 1 ELSE 0
      BY <1>1, <2>1, NextValue
    <3> QED  BY <1>1, <2>1, <3>1, MaxIsNat DEF Kept, Offsets
  <2>5. Log' = Append(Log, e.bytes)
    <3>1. RingLog([entry EXCEPT ![At(out_offs, in_offs)] = e], out_offs, in_offs + 1)
             = Append(RingLog(entry, out_offs, in_offs), e.bytes)
      BY <1>1, StoreAppends
    <3>2. Log' = RingLog([entry EXCEPT ![in_offs] = e], out_offs, in_offs + 1)
      BY <1>3, <2>1, <2>4
    <3> QED  BY <2>2, <2>3, <3>1, <3>2
  <2>6. Log \in Seq(Seq(Bytes)) /\ Len(Log) = in_offs
    BY <1>1, <2>2, <2>3, RingLogType
  <2>7. Len(Append(Log, e.bytes)) = in_offs + 1 /\ ~(in_offs + 1 > MAX)
    BY <1>1, <1>2, <2>6, AppendProperties, MaxIsNat DEF Offsets
  <2> QED  BY <1>2, <2>5, <2>7 DEF Messages!Newest
<1> QED  BY <1>4, <1>5

LEMMA StepRefines ==
    ASSUME IInv, Next, ~\E f \in Files : StorePosition(f)
    PROVE  Messages!Next
<1> USE DEF log, partial, answer
<1>1. CASE aesd_init_module
  <2>1. Log' = <<>>
    BY <1>1 DEF aesd_init_module, aesd_circular_buffer_init, Log, Kept
  <2>2. ret'.call = "other" /\ loaded = FALSE /\ loaded' \in BOOLEAN /\ onGoingWrite' = FALSE
    <3>1. /\ ~loaded /\ loaded' \in BOOLEAN /\ onGoingWrite' = FALSE
          /\ ret' = Done("other", "ok") \/ ret' = Done("other", "EINVAL")
      BY <1>1, Zenon DEF aesd_init_module
    <3>2. loaded = FALSE
      BY <3>1, Zenon DEF IInv, TypeOK
    <3>3. ret'.call = "other"
      BY <3>1 DEF Done
    <3> QED  BY <3>1, <3>2, <3>3, Zenon
  <2>3. Messages!Quiet \/ Messages!Load
    BY <2>1, <2>2 DEF Messages!Quiet, Messages!Load
  <2> QED  BY <2>3 DEF Messages!Next
<1>2. CASE aesd_cleanup_module
  <2>1. loaded /\ loaded' = FALSE /\ ret'.call = "other"
    BY <1>2 DEF aesd_cleanup_module, Done
  <2>2. Messages!Unload
    BY <2>1 DEF Messages!Unload
  <2> QED  BY <2>2 DEF Messages!Next
<1>3. ASSUME NEW f \in Files, Moves(f) \/ aesd_read(f) PROVE Messages!Next
  <2>1. UNCHANGED <<entry, in_offs, out_offs, hasBufferBeenFilled, loaded, onGoingWrite, tempBytes>>
    BY <1>3, MovesOnly DEF aesd_read, buffer, temp
  <2>2. ret'.call \in {"read", "other", "ioctl"}
    <3>1. CASE aesd_read(f)
      BY <3>1, ReadAnswers
    <3>2. CASE Moves(f)
      BY <3>2, MovesAnswer DEF Done
    <3> QED  BY <1>3, <3>1, <3>2
  <2>3. Log' = Log
    BY <2>1, SameLog
  <2>4. Messages!Quiet
    BY <2>1, <2>2, <2>3 DEF Messages!Quiet
  <2> QED  BY <2>4, SMTT(30) DEF Messages!Next
<1>4. ASSUME NEW f \in Files,
             WriteNoStart(f) \/ WriteNoGrowth(f) \/ WriteNoCopy(f) \/ WriteNoEntry(f)
      PROVE  Messages!Next
  <2>1. /\ UNCHANGED <<entry, in_offs, out_offs, hasBufferBeenFilled, loaded>>
        /\ onGoingWrite' = FALSE /\ loaded
    BY <1>4 DEF WriteNoStart, WriteNoGrowth, WriteNoCopy, WriteNoEntry, buffer, IInv, TypeOK,
                Started, CanWrite, Passes, Open
  <2>2. ret'.call = "write" /\ ret'.code # "ok"
    BY <1>4 DEF WriteNoStart, WriteNoGrowth, WriteNoCopy, WriteNoEntry, Done
  <2>3. Log' = Log
    BY <2>1, SameLog
  <2>4. Messages!Drop
    BY <2>1, <2>2, <2>3 DEF Messages!Drop
  <2> QED  BY <2>4 DEF Messages!Next
<1>5. ASSUME loaded PROVE partial = BytesNow
  BY <1>5 DEF BytesNow, Started
<1>6. ASSUME NEW f \in Files, WritePiece(f) PROVE Messages!Next
  <2>1. PICK piece \in Pieces :
            /\ loaded /\ ~EndsMessage(BytesNow \o piece)
            /\ onGoingWrite' = TRUE /\ tempBytes' = BytesNow \o piece
            /\ ret' = Done("write", "ok")
            /\ UNCHANGED <<entry, in_offs, out_offs, hasBufferBeenFilled, loaded>>
    BY <1>6 DEF WritePiece, CanWrite, Passes, Open, buffer
  <2>2. partial' = partial \o piece /\ answer' = "ok"
    BY <1>5, <2>1 DEF Done
  <2>3. Log' = Log
    BY <2>1, SameLog
  <2>4. Messages!Accept(piece)
    BY <1>5, <2>1, <2>2, <2>3 DEF Messages!Accept, Messages!Ends, EndsMessage
  <2> QED  BY <2>4 DEF Messages!Next
<1>7. ASSUME NEW f \in Files, WriteMessage(f) PROVE Messages!Next
  <2>1. PICK piece \in Pieces, e \in Entry : Completes(f, piece, e)
    BY <1>7, MessageCompletes
  <2>2. loaded /\ UNCHANGED loaded /\ partial' = <<>> /\ answer' = "ok" /\ EndsMessage(BytesNow \o piece)
    BY <2>1 DEF Completes, CanWrite, Passes, Open, Done
  <2>3. Log' = Messages!Newest(Append(Log, BytesNow \o piece))
    BY <2>1, AddEntryAppends
  <2>4. Messages!Complete(piece)
    BY <1>5, <2>2, <2>3 DEF Messages!Complete, Messages!Ends, EndsMessage
  <2> QED  BY <2>4 DEF Messages!Next
<1> QED  BY <1>1, <1>2, <1>3, <1>4, <1>6, <1>7 DEF Next, Moves, Ioctl, aesd_write

(* For every size of the array the driver implements MessageLog: the newest *)
(* messages, whole, in order, and nothing lost without an error.            *)
THEOREM DriverKeepsNewest == Spec => KeepsNewest
<1>1. Init => Messages!Init
  BY DEF Init, Messages!Init, Done
<1>2. IInv /\ [Next]_vars => [Messages!Next]_<<loaded, log, partial, answer>>
  <2>1. ASSUME UNCHANGED vars \/ \E f \in Files : StorePosition(f)
        PROVE  UNCHANGED <<loaded, log, partial, answer>>
    <3>1. UNCHANGED <<entry, in_offs, out_offs, hasBufferBeenFilled, loaded, onGoingWrite,
                      tempBytes, ret>>
      BY <2>1 DEF StorePosition, vars, buffer, temp
    <3>2. Log' = Log
      BY <3>1, SameLog
    <3> QED  BY <3>1, <3>2 DEF log, partial, answer
  <2> QED  BY <2>1, StepRefines
<1> QED  BY <1>1, <1>2, Invariance, PTL
         DEF Spec, KeepsNewest, Messages!Spec, Messages!vars, log, partial, answer

-----------------------------------------------------------------------------
(* Reading                                                                  *)

(* t consists of the first j of the sequences q, put end to end; h[k] is    *)
(* where the k-th one ends.                                                 *)
EndToEnd(t, q, h, j) ==
    /\ Len(t) = h[j]
    /\ \A k \in 0 .. j : h[k] <= h[j]
    /\ \A k \in 1 .. j : \A o \in 1 .. Len(q[k]) : t[h[k - 1] + o] = q[k][o]

LEMMA EndToEndStep ==
    ASSUME NEW S, NEW q \in Seq(Seq(S)), NEW h \in [0 .. Len(q) -> Nat],
           \A k \in 1 .. Len(q) : h[k] = h[k - 1] + Len(q[k]),
           NEW j \in 0 .. Len(q) - 1, NEW t \in Seq(S), EndToEnd(t, q, h, j)
    PROVE  t \o q[j + 1] \in Seq(S) /\ EndToEnd(t \o q[j + 1], q, h, j + 1)
<1>1. PICK n \in Nat : n = Len(q)
  BY LenProperties
<1>2. j + 1 \in 1 .. n /\ j \in 0 .. n /\ (j + 1) - 1 = j
  BY <1>1
<1>3. PICK s \in Seq(S) : s = q[j + 1]
  BY <1>1, <1>2, ElementOfSeq
<1>4. PICK a \in Nat : a = Len(t) /\ a = h[j]
  BY <1>1, <1>2, LenProperties DEF EndToEnd
<1>5. PICK b \in Nat : b = Len(s)
  BY LenProperties
<1>6. h[j + 1] = a + b
  BY <1>1, <1>2, <1>3, <1>4, <1>5
<1>7. PICK u : u = t \o s
  OBVIOUS
<1>8. /\ u \in Seq(S) /\ Len(u) = a + b
      /\ \A i \in 1 .. a + b : u[i] = IF i <= a THEN t[i] ELSE s[i - a]
  <2>1. /\ t \o s \in Seq(S) /\ Len(t \o s) = Len(t) + Len(s)
        /\ \A i \in 1 .. Len(t) + Len(s) : (t \o s)[i] = IF i <= Len(t) THEN t[i]
                                                       ELSE s[i - Len(t)]
    BY ConcatProperties, ZenonT(60)
  <2> QED  BY <1>4, <1>5, <1>7, <2>1, Zenon
<1>9. ASSUME NEW k \in 0 .. j + 1 PROVE h[k] <= h[j + 1]
  <2>1. CASE k = j + 1
    BY <1>6, <2>1
  <2>2. CASE k # j + 1
    <3>1. k \in 0 .. j /\ k \in 0 .. n
      BY <1>2, <2>2
    <3>2. h[k] <= a /\ h[k] \in Nat
      BY <1>1, <1>4, <3>1 DEF EndToEnd
    <3> QED  BY <1>6, <3>2
  <2> QED  BY <2>1, <2>2
<1>10. ASSUME NEW k \in 1 .. j + 1, NEW o \in 1 .. Len(q[k])
       PROVE  u[h[k - 1] + o] = q[k][o]
  <2>1. PICK c \in Nat : c = Len(q[k])
    BY <1>1, <1>2, ElementOfSeq, LenProperties
  <2>2. CASE k = j + 1
    <3>1. c = b /\ h[k - 1] = a /\ q[k] = s
      BY <1>2, <1>3, <1>4, <1>5, <2>1, <2>2
    <3>2. a + o \in 1 .. a + b /\ ~(a + o <= a) /\ (a + o) - a = o
      BY <2>1, <3>1
    <3> QED  BY <1>8, <3>1, <3>2
  <2>3. CASE k # j + 1
    <3>1. k \in 1 .. j /\ k \in 1 .. n /\ k \in 0 .. j /\ k - 1 \in 0 .. n
      BY <1>2, <2>3
    <3>2. PICK d \in Nat : d = h[k - 1] /\ h[k] = d + c /\ d + c <= a
      BY <1>1, <1>4, <2>1, <3>1 DEF EndToEnd
    <3>3. d + o \in 1 .. a + b /\ d + o <= a
      <4>1. o \in Nat /\ 1 <= o /\ o <= c
        BY <2>1
      <4>2. d + c <= a
        BY <3>2
      <4>3. d + o \in Nat /\ 1 <= d + o /\ d + o <= a /\ a <= a + b
        BY <4>1, <4>2
      <4> QED  BY <4>3
    <3>4. t[d + o] = q[k][o]
      BY <3>1, <3>2 DEF EndToEnd
    <3> QED  BY <1>8, <3>2, <3>3, <3>4
  <2> QED  BY <2>2, <2>3
<1>11. EndToEnd(u, q, h, j + 1)
  BY <1>6, <1>8, <1>9, <1>10 DEF EndToEnd
<1> QED  BY <1>3, <1>7, <1>8, <1>11

LEMMA FlattenFacts ==
    ASSUME NEW S, NEW q \in Seq(Seq(S)), NEW h \in [0 .. Len(q) -> Nat], h[0] = 0,
           \A k \in 1 .. Len(q) : h[k] = h[k - 1] + Len(q[k])
    PROVE  FlattenSeq(q) \in Seq(S) /\ EndToEnd(FlattenSeq(q), q, h, Len(q))
<1>1. PICK n \in Nat : n = Len(q)
  BY LenProperties
<1>2. EndToEnd(<<>>, q, h, 0) /\ <<>> \in Seq(S)
  BY <1>1, EmptySeq DEF EndToEnd
<1>3. CASE n = 0
  BY <1>1, <1>2, <1>3, EmptySeq DEF FlattenSeq
<1>4. CASE n # 0
  <2>1. \A k \in 1 .. n : q[k] \in Seq(S)
    BY <1>1, ElementOfSeq
  <2>2. PICK g : g = [p \in (1 .. n) \X Seq(S) |-> p[2] \o q[p[1]]]
    OBVIOUS
  <2>3. g \in [(1 .. n) \X Seq(S) -> Seq(S)]
    BY <2>1, <2>2, ConcatProperties
  <2>4. PICK f \in [0 .. n -> Seq(S)] : Follows(f, n, <<>>, g)
    BY <1>2, <2>3, RecursionExists
  <2>5. ASSUME NEW k \in 1 .. n PROVE f[k] = f[k - 1] \o q[k]
    <3>1. f[k - 1] \in Seq(S) /\ f[k] = g[<<k, f[k - 1]>>]
      BY <2>4, SMTT(30) DEF Follows
    <3> QED  BY <2>2, <3>1
  <2>6. f[1] = q[1]
    <3>1. f[1] = <<>> \o q[1] /\ q[1] \in Seq(S)
      <4>1. 1 \in 1 .. n /\ 1 - 1 = 0
        BY <1>4
      <4>2. f[1] = f[1 - 1] \o q[1] /\ f[0] = <<>>
        BY <2>4, <2>5, <4>1 DEF Follows
      <4> QED  BY <2>1, <4>1, <4>2
    <3> QED  BY <3>1, ConcatEmptySeq
  <2>7. PICK f1 : f1 = [k \in 1 .. n |-> f[k]]
    OBVIOUS
  <2>8. f1 = [k \in 1 .. n |-> IF k = 1 THEN q[k] ELSE f1[k - 1] \o q[k]]
    <3>1. ASSUME NEW k \in 1 .. n
          PROVE  f[k] = IF k = 1 THEN q[k] ELSE f1[k - 1] \o q[k]
      <4>1. k # 1 => k - 1 \in 1 .. n
        OBVIOUS
      <4> QED  BY <2>5, <2>6, <2>7, <4>1
    <3> QED  BY <2>7, <3>1, Zenon
  <2>9. PICK fl : fl = CHOOSE f2 : f2 = [k \in 1 .. n |-> IF k = 1 THEN q[k]
                                                        ELSE f2[k - 1] \o q[k]]
    OBVIOUS
  <2>10. fl = [k \in 1 .. n |-> IF k = 1 THEN q[k] ELSE fl[k - 1] \o q[k]]
    BY <2>8, <2>9
  <2>11. FlattenSeq(q) = fl[n]
    BY <1>1, <1>4, <2>9 DEF FlattenSeq
  <2> DEFINE T == {j \in 0 .. n : j = 0 \/ (fl[j] \in Seq(S) /\ EndToEnd(fl[j], q, h, j))}
  <2>12. 0 \in T
    OBVIOUS
  <2>13. ASSUME NEW j \in 0 .. n - 1, j \in T PROVE j + 1 \in T
    <3>1. PICK t \in Seq(S) : t = (IF j = 0 THEN <<>> ELSE fl[j]) /\ EndToEnd(t, q, h, j)
      BY <1>2, <2>13
    <3>2. j + 1 \in 1 .. n /\ (j + 1) - 1 = j /\ q[j + 1] \in Seq(S)
      BY <2>1
    <3>3. fl[j + 1] = t \o q[j + 1]
      <4>1. fl[j + 1] = IF j + 1 = 1 THEN q[j + 1] ELSE fl[(j + 1) - 1] \o q[j + 1]
        BY <2>10, <3>2, Zenon
      <4>2. CASE j = 0
        BY <3>1, <3>2, <4>1, <4>2, ConcatEmptySeq
      <4>3. CASE j # 0
        <5>1. j + 1 # 1
          BY <4>3
        <5> QED  BY <3>1, <3>2, <4>1, <4>3, <5>1
      <4> QED  BY <4>2, <4>3
    <3>4. t \o q[j + 1] \in Seq(S) /\ EndToEnd(t \o q[j + 1], q, h, j + 1)
      BY <1>1, <3>1, EndToEndStep
    <3>5. j + 1 \in 0 .. n
      BY <3>2
    <3> QED  BY <3>3, <3>4, <3>5, Zenon
  <2> HIDE DEF T
  <2>14. 0 .. n \subseteq T
    BY <2>12, <2>13, CountUp
  <2>15. n \in T
    BY <2>14
  <2> QED  BY <1>1, <1>4, <2>11, <2>15 DEF T
<1> QED  BY <1>3, <1>4

(* The text a reader sees, entry by entry.                                  *)
LEMMA TextFacts ==
    ASSUME IInv
    PROVE  /\ Text \in Seq(Bytes) /\ Len(Text) = BytesBefore(MAX)
           /\ \A k \in Offsets : \A o \in 1 .. Size(k) :
                 Text[BytesBefore(k) + o] = entry[Slot(k)].bytes[o]
<1>1. PICK h \in [0 .. MAX -> Nat] :
               /\ h[0] = 0
               /\ \A i \in 0 .. MAX : h[i] = BytesBefore(i)
               /\ \A i \in Offsets : h[i + 1] = h[i] + Size(i)
               /\ \A i \in 0 .. MAX : \A m \in i .. MAX : h[i] <= h[m]
  BY Chars DEF IInv
<1>2. PICK n \in 0 .. MAX : n = Kept
  BY MaxIsNat DEF IInv, TypeOK, Kept, Offsets
<1>3. /\ Log \in Seq(Seq(Bytes)) /\ Len(Log) = n
      /\ \A i \in 1 .. n : Log[i] = entry[Slot(i - 1)].bytes
  <2>1. entry \in [Offsets -> Entry] /\ out_offs \in Offsets
    BY DEF IInv, TypeOK, Entry
  <2> QED  BY <1>2, <2>1, LogIsRing, RingLogType DEF Slot, At
<1>4. PICK h2 \in [0 .. n -> Nat] : \A k \in 0 .. n : h2[k] = h[k]
  <2>1. [k \in 0 .. n |-> h[k]] \in [0 .. n -> Nat]
    BY MaxIsNat
  <2> QED  BY <2>1
<1>5. h2[0] = 0 /\ \A k \in 1 .. n : h2[k] = h2[k - 1] + Len(Log[k])
  <2>1. ASSUME NEW k \in 1 .. n
        PROVE  k \in 0 .. n /\ k - 1 \in 0 .. n /\ k - 1 \in Offsets /\ (k - 1) + 1 = k
    BY MaxIsNat DEF Offsets
  <2>2. ASSUME NEW k \in 1 .. n PROVE h2[k] = h2[k - 1] + Len(Log[k])
    <3>1. h[k] = h[k - 1] + Size(k - 1)
      BY <1>1, <2>1
    <3>2. h2[k] = h[k] /\ h2[k - 1] = h[k - 1]
      BY <1>4, <2>1
    <3> QED  BY <1>3, <3>1, <3>2 DEF Size
  <2>3. 0 \in 0 .. n
    BY MaxIsNat
  <2> QED  BY <1>1, <1>4, <2>2, <2>3
<1>6. Text \in Seq(Bytes) /\ EndToEnd(Text, Log, h2, n)
  BY <1>3, <1>4, <1>5, FlattenFacts DEF Text
<1>7. ASSUME NEW k \in Offsets, k >= n PROVE Size(k) = 0
  <2>1. ~hasBufferBeenFilled /\ n = in_offs
    BY <1>2, <1>7, MaxIsNat DEF Kept, Offsets
  <2>2. out_offs = 0 /\ \A i \in Offsets : i >= in_offs => entry[i] = EmptyEntry
    BY <2>1 DEF IInv, RingOK
  <2>3. k \in 0 .. MAX /\ 0 \in Offsets
    BY MaxIsNat DEF Offsets
  <2>4. Slot(k) = IF 0 + k < MAX THEN 0 + k ELSE 0 + k - MAX
    BY <2>2, <2>3, AtValue, SizesAreNat DEF IInv
  <2>5. Slot(k) = k
    BY <2>4, MaxIsNat DEF Offsets
  <2>6. entry[Slot(k)].bytes = <<>>
    BY <1>7, <2>1, <2>2, <2>5 DEF EmptyEntry
  <2> QED  BY <2>6, EmptySeq DEF Size
<1>8. h[MAX] = h[n]
  <2> DEFINE T == {j \in 0 .. MAX : j < n \/ h[j] = h[n]}
  <2>1. 0 \in T
    BY MaxIsNat
  <2>2. ASSUME NEW j \in 0 .. MAX - 1, j \in T PROVE j + 1 \in T
    <3>1. j \in Offsets /\ j + 1 \in 0 .. MAX /\ h[j + 1] = h[j] + Size(j) /\ h[j] \in Nat
      BY <1>1, MaxIsNat DEF Offsets
    <3>2. CASE j >= n
      <4>1. h[j] = h[n] /\ Size(j) = 0
        BY <1>7, <2>2, <3>1, <3>2
      <4> QED  BY <3>1, <4>1
    <3>3. CASE j < n
      BY <3>1, <3>3
    <3> QED  BY <3>1, <3>2, <3>3
  <2> HIDE DEF T
  <2>3. 0 .. MAX \subseteq T
    BY <2>1, <2>2, CountUp, MaxIsNat
  <2>4. MAX \in T
    BY <2>3, MaxIsNat
  <2> QED  BY <2>4, MaxIsNat DEF T
<1>9. Len(Text) = BytesBefore(MAX)
  <2>1. Len(Text) = h2[n] /\ h2[n] = h[n] /\ h[MAX] = BytesBefore(MAX)
    BY <1>1, <1>4, <1>6, MaxIsNat DEF EndToEnd
  <2> QED  BY <1>8, <2>1
<1>10. ASSUME NEW k \in Offsets, NEW o \in 1 .. Size(k)
       PROVE  Text[BytesBefore(k) + o] = entry[Slot(k)].bytes[o]
  <2>1. ~(k >= n)
    BY <1>7, <1>10
  <2>2. k + 1 \in 1 .. n /\ (k + 1) - 1 = k /\ k \in 0 .. n /\ k \in 0 .. MAX
    BY <2>1, MaxIsNat DEF Offsets
  <2>3. Log[k + 1] = entry[Slot(k)].bytes /\ h2[k] = BytesBefore(k)
    BY <1>1, <1>3, <1>4, <2>2
  <2>4. o \in 1 .. Len(Log[k + 1])
    BY <2>3 DEF Size
  <2>5. Text[h2[(k + 1) - 1] + o] = Log[k + 1][o]
    BY <1>6, <2>2, <2>4 DEF EndToEnd
  <2> QED  BY <2>2, <2>3, <2>5
<1> QED  BY <1>6, <1>9, <1>10

(* A part of the text that lies in one entry is the same part of the entry. *)
LEMMA TextInEntry ==
    ASSUME IInv, NEW k \in Offsets, NEW o \in Nat, NEW n \in Nat, o + n <= Size(k)
    PROVE  /\ SubSeq(Text, BytesBefore(k) + o + 1, BytesBefore(k) + o + n)
                 = SubSeq(entry[Slot(k)].bytes, o + 1, o + n)
           /\ Len(SubSeq(entry[Slot(k)].bytes, o + 1, o + n)) = n
<1>1. PICK h \in [0 .. MAX -> Nat] :
               /\ \A i \in 0 .. MAX : h[i] = BytesBefore(i)
               /\ \A i \in Offsets : h[i + 1] = h[i] + Size(i)
               /\ \A i \in 0 .. MAX : \A m \in i .. MAX : h[i] <= h[m]
  BY Chars DEF IInv
<1>2. k \in 0 .. MAX /\ k + 1 \in 0 .. MAX /\ MAX \in k + 1 .. MAX /\ MAX \in 0 .. MAX
  BY MaxIsNat DEF Offsets
<1>3. PICK s \in Seq(Bytes) : s = entry[Slot(k)].bytes
  BY <1>2, SizesAreNat DEF IInv, TypeOK
<1>4. PICK z \in Nat : z = Size(k) /\ z = Len(s)
  BY <1>3, LenProperties DEF Size
<1>5. PICK b \in Nat : b = BytesBefore(k) /\ b = h[k]
  BY <1>1, <1>2
<1>6. PICK t \in Seq(Bytes) : t = Text
  BY TextFacts
<1>7. PICK l \in Nat : l = Len(t) /\ b + z <= l
  <2>1. h[k + 1] <= h[MAX] /\ h[k + 1] = b + z /\ h[MAX] = BytesBefore(MAX) /\ h[MAX] \in Nat
    BY <1>1, <1>2, <1>4, <1>5
  <2>2. Len(Text) = BytesBefore(MAX)
    BY TextFacts
  <2> QED  BY <1>6, <2>1, <2>2
<1>8. \A i \in 1 .. z : t[b + i] = s[i]
  BY <1>3, <1>4, <1>5, <1>6, TextFacts
<1>9. o + n <= z
  BY <1>4
<1>10. PICK u : u = SubSeq(t, b + o + 1, b + o + n)
  OBVIOUS
<1>11. PICK v : v = SubSeq(s, o + 1, o + n)
  OBVIOUS
<1>12. /\ u \in Seq(Bytes) /\ Len(u) = n
       /\ \A i \in 1 .. n : u[i] = t[(b + o + 1) + i - 1]
  <2>1. \A i \in b + o + 1 .. b + o + n : t[i] \in Bytes
    BY <1>7, <1>9, ElementOfSeq
  <2>2. b + o + 1 \in Int /\ b + o + n \in Int
    OBVIOUS
  <2>3. PICK x \in Int, y \in Int : x = b + o + 1 /\ y = b + o + n
    BY <2>2
  <2>4. /\ SubSeq(t, x, y) \in Seq(Bytes)
        /\ Len(SubSeq(t, x, y)) = IF x <= y THEN y - x + 1 ELSE 0
        /\ \A i \in 1 .. y - x + 1 : SubSeq(t, x, y)[i] = t[x + i - 1]
    BY <2>1, <2>3, SubSeqProperties
  <2>5. y - x + 1 = n /\ (IF x <= y THEN y - x + 1 ELSE 0) = n
    BY <2>3
  <2> QED  BY <1>10, <2>3, <2>4, <2>5, Zenon
<1>13. /\ v \in Seq(Bytes) /\ Len(v) = n
       /\ \A i \in 1 .. n : v[i] = s[(o + 1) + i - 1]
  <2>1. \A i \in o + 1 .. o + n : s[i] \in Bytes
    BY <1>4, <1>9, ElementOfSeq
  <2>2. PICK x \in Int, y \in Int : x = o + 1 /\ y = o + n
    OBVIOUS
  <2>3. /\ SubSeq(s, x, y) \in Seq(Bytes)
        /\ Len(SubSeq(s, x, y)) = IF x <= y THEN y - x + 1 ELSE 0
        /\ \A i \in 1 .. y - x + 1 : SubSeq(s, x, y)[i] = s[x + i - 1]
    BY <2>1, <2>2, SubSeqProperties
  <2>4. y - x + 1 = n /\ (IF x <= y THEN y - x + 1 ELSE 0) = n
    BY <2>2
  <2> QED  BY <1>11, <2>2, <2>3, <2>4, Zenon
<1>14. ASSUME NEW i \in 1 .. n PROVE u[i] = v[i]
  <2>1. /\ o + i \in 1 .. z
        /\ (b + o + 1) + i - 1 = b + (o + i) /\ (o + 1) + i - 1 = o + i
    BY <1>9
  <2>2. t[b + (o + i)] = s[o + i]
    BY <1>8, <2>1
  <2> QED  BY <1>12, <1>13, <2>1, <2>2
<1>15. u = v
  BY <1>12, <1>13, <1>14, SeqEqual
<1> QED  BY <1>3, <1>5, <1>6, <1>10, <1>11, <1>13, <1>15

LEMMA ReadsTextStep ==
    ASSUME IInv, NEW f \in Files, aesd_read(f)
    PROVE  ReadsTheText'
<1>1. PICK pos \in Nat : pos = f_pos[f]
  BY PassesFacts DEF IInv, aesd_read
<1>2. PICK hit : hit = aesd_circular_buffer_find_entry_offset_for_fpos(pos)
  OBVIOUS
<1>3. Text' = Text
  <2>1. UNCHANGED <<entry, in_offs, out_offs, hasBufferBeenFilled>>
    BY DEF aesd_read, buffer
  <2> QED  BY <2>1, SameLog, SMTT(30) DEF Text
<1>4. Text \in Seq(Bytes) /\ Len(Text) = BytesBefore(MAX)
  BY TextFacts
<1>5. ASSUME ret'.code = "ok" => /\ ret'.pos = pos
                                 /\ \/ ret'.bytes = <<>> /\ BytesBefore(MAX) <= pos
                                    \/ /\ ret'.bytes # <<>>
                                       /\ ret'.bytes = SubSeq(Text, pos + 1,
                                                              pos + Len(ret'.bytes))
      PROVE  ReadsTheText'
  <2>1. SubSeq(Text, pos + 1, pos + Len(<<>>)) = <<>>
    BY <1>4, SubSeqEmpty, EmptySeq
  <2> QED  BY <1>3, <1>4, <1>5, <2>1 DEF ReadsTheText
<1>6. CASE /\ hit = NotFound
           /\ ret' = [Done("read", "ok") EXCEPT !.pos = f_pos[f]]
  <2>1. ret'.pos = pos /\ ret'.bytes = <<>>
    BY <1>1, <1>6 DEF Done
  <2>2. BytesBefore(MAX) <= pos
    <3>1. ASSUME NEW i \in 0 .. MAX PROVE NotFound # [slot |-> Slot(i), offset |-> pos]
      <4>1. Slot(i) \in Offsets
        BY SizesAreNat DEF IInv
      <4>2. Slot(i) # -1
        BY <4>1, MaxIsNat DEF Offsets
      <4> QED  BY <4>2 DEF NotFound
    <3>2. ASSUME NEW i \in Offsets, Finds(i, pos) PROVE FALSE
      <4>1. Slot(i) \in Offsets /\ hit = [slot |-> Slot(i), offset |-> pos - BytesBefore(i)]
        BY <1>2, <3>2, SizesAreNat, MaxIsNat DEF IInv, Finds, Offsets
      <4>2. Slot(i) # -1
        BY <4>1, MaxIsNat DEF Offsets
      <4> QED  BY <1>6, <4>1, <4>2 DEF NotFound
    <3>3. MAX \in 0 .. MAX
      BY MaxIsNat
    <3> QED  BY <1>2, <1>6, <3>1, <3>2, <3>3, FindSpec DEF IInv
  <2> QED  BY <1>5, <2>1, <2>2
<1>7. ASSUME NEW count \in Counts,
             hit # NotFound,
             entry[hit.slot].buffptr # NULL \/ bytesToCopy(hit, count) = 0,
             ret' = [Done("read", "ok") EXCEPT
                         !.pos = f_pos[f], !.from = entry[hit.slot].buffptr,
                         !.bytes = SubSeq(entry[hit.slot].bytes, hit.offset + 1,
                                          hit.offset + bytesToCopy(hit, count))]
      PROVE  ReadsTheText'
  <2>1. HitsByte(hit, pos) \/ HitsNothing(hit, pos)
    BY <1>2, <1>7, HitFacts DEF IInv
  <2>2. PICK n \in Nat :
            /\ n = bytesToCopy(hit, count)
            /\ HitsByte(hit, pos) => n > 0 /\ hit.offset + n <= Len(entry[hit.slot].bytes)
            /\ HitsNothing(hit, pos) => n = 0
    BY <1>7, <2>1, CopyFacts DEF IInv
  <2>3. /\ ret'.pos = pos
        /\ ret'.bytes = SubSeq(entry[hit.slot].bytes, hit.offset + 1, hit.offset + n)
    BY <1>1, <1>7, <2>2 DEF Done
  <2>4. CASE HitsByte(hit, pos)
    <3>1. PICK i \in Offsets : /\ hit = [slot |-> Slot(i), offset |-> pos - BytesBefore(i)]
                               /\ hit.offset \in Nat
      BY <2>4 DEF HitsByte
    <3>2. PICK b \in Nat : b = BytesBefore(i)
      <4>1. i \in 0 .. MAX
        BY MaxIsNat DEF Offsets
      <4>2. PICK h \in [0 .. MAX -> Nat] : \A k \in 0 .. MAX : h[k] = BytesBefore(k)
        BY Chars DEF IInv
      <4> QED  BY <4>1, <4>2
    <3>3. PICK o \in Nat : o = hit.offset /\ pos = b + o /\ hit.slot = Slot(i)
      <4>1. hit.offset = pos - b /\ hit.slot = Slot(i)
        BY <3>1, <3>2
      <4> QED  BY <3>1, <4>1
    <3>4. n > 0 /\ o + n <= Size(i)
      BY <2>2, <2>4, <3>3 DEF Size
    <3>5. /\ SubSeq(Text, b + o + 1, b + o + n) = ret'.bytes
          /\ Len(ret'.bytes) = n
      <4>1. /\ SubSeq(Text, BytesBefore(i) + o + 1, BytesBefore(i) + o + n)
                   = SubSeq(entry[Slot(i)].bytes, o + 1, o + n)
            /\ Len(SubSeq(entry[Slot(i)].bytes, o + 1, o + n)) = n
        BY <3>4, TextInEntry
      <4>2. ret'.bytes = SubSeq(entry[Slot(i)].bytes, o + 1, o + n)
        BY <2>3, <3>3
      <4> QED  BY <3>2, <4>1, <4>2
    <3>6. ret'.bytes # <<>>
      BY <3>4, <3>5, EmptySeq
    <3>7. ret'.bytes = SubSeq(Text, pos + 1, pos + Len(ret'.bytes))
      BY <3>3, <3>5
    <3> QED  BY <1>5, <2>3, <3>6, <3>7
  <2>5. CASE HitsNothing(hit, pos)
    <3>1. n = 0 /\ hit.offset = pos /\ BytesBefore(MAX) = 0
      BY <2>2, <2>5 DEF HitsNothing
    <3>2. ret'.bytes = <<>>
      BY <2>3, <3>1, SubSeqEmpty
    <3> QED  BY <1>5, <2>3, <3>1, <3>2
  <2> QED  BY <2>1, <2>4, <2>5
<1>8. CASE ret' = [Done("read", "EFAULT") EXCEPT !.pos = f_pos[f],
                                                 !.from = entry[hit.slot].buffptr]
  BY <1>5, <1>8 DEF Done
<1> QED  BY <1>1, <1>2, <1>6, <1>7, <1>8, ZenonT(60) DEF aesd_read

(* For every size of the array, aesd_read returns the bytes that follow the *)
(* file's position in the messages kept, and reports the end only there.    *)
THEOREM ReadIsExact == Spec => []ReadsTheText
<1>1. Init => ReadsTheText
  BY DEF Init, ReadsTheText, Done
<1>2. ReadsTheText /\ IInv /\ [Next]_vars => ReadsTheText'
  <2> SUFFICES ASSUME ReadsTheText, IInv, [Next]_vars PROVE ReadsTheText'
    OBVIOUS
  <2>1. ASSUME NEW f \in Files, aesd_read(f) PROVE ReadsTheText'
    BY <2>1, ReadsTextStep
  <2>2. ASSUME NEW f \in Files, Moves(f) \/ aesd_write(f) PROVE ret'.call # "read"
    <3>1. CASE Moves(f)
      BY <3>1, MovesAnswer DEF Done
    <3>2. CASE aesd_write(f)
      <4>1. \E code \in Codes : ret' = Done("write", code)
        BY <3>2 DEF aesd_write, WriteNoStart, WriteNoGrowth, WriteNoCopy, WritePiece,
                    WriteNoEntry, WriteMessage, Codes
      <4> QED  BY <4>1 DEF Done
    <3> QED  BY <2>2, <3>1, <3>2
  <2>3. CASE aesd_init_module \/ aesd_cleanup_module
    <3>1. ret'.call # "read"
      BY <2>3 DEF aesd_init_module, aesd_cleanup_module, Done
    <3> QED  BY <3>1 DEF ReadsTheText
  <2>4. CASE UNCHANGED vars \/ \E f \in Files : StorePosition(f)
    <3>1. UNCHANGED <<entry, in_offs, out_offs, hasBufferBeenFilled, ret>>
      BY <2>4 DEF StorePosition, vars, buffer
    <3>2. Text' = Text
      BY <3>1, SameLog DEF Text
    <3> QED  BY <3>1, <3>2 DEF ReadsTheText
  <2>5. ASSUME NEW f \in Files, Moves(f) \/ aesd_write(f) PROVE ReadsTheText'
    BY <2>2, <2>5 DEF ReadsTheText
  <2> QED  BY <2>1, <2>3, <2>4, <2>5 DEF Next, Moves, Ioctl
<1> QED  BY <1>1, <1>2, Invariance, PTL DEF Spec
=============================================================================
