--------------------------- MODULE SessionProofs ---------------------------
(***************************************************************************)
(* Proofs about Session for any number of clients, any buffer and any way  *)
(* in which the streams are cut into reads.                                *)
(***************************************************************************)
EXTENDS Session, SequenceTheorems, FiniteSetTheorems, NatFacts

Symbols == Words \cup {Newline}
Labels  == {"loop", "recv", "execute", "work", "prepare", "dup", "close", "closed", "failed"}
              \cup Redirecting

-----------------------------------------------------------------------------
(* The words of a message                                                   *)

(* w lists the places of the words among the n bytes behind b.              *)
Found(w, s, b, n) ==
    /\ w \in Seq(Nat)
    /\ \A i \in 1 .. Len(w) : w[i] \in b + 1 .. b + n /\ s[w[i]] # Newline
    /\ \A i, j \in 1 .. Len(w) : i < j => w[i] < w[j]
    /\ \A p \in b + 1 .. b + n : s[p] # Newline => \E i \in 1 .. Len(w) : w[i] = p

LEMMA FoundStep ==
    ASSUME NEW w, NEW s, NEW b \in Nat, NEW n \in Nat, Found(w, s, b, n)
    PROVE  Found(IF s[b + (n + 1)] = Newline THEN w ELSE Append(w, b + (n + 1)), s, b, n + 1)
<1>1. PICK l \in Nat : l = Len(w)
  BY LenProperties DEF Found
<1>2. PICK x \in Nat : x = b + (n + 1)
  OBVIOUS
<1>3. /\ w \in Seq(Nat)
      /\ \A i \in 1 .. l : w[i] \in b + 1 .. b + n /\ s[w[i]] # Newline
      /\ \A i, j \in 1 .. l : i < j => w[i] < w[j]
      /\ \A p \in b + 1 .. b + n : s[p] # Newline => \E i \in 1 .. l : w[i] = p
  BY <1>1 DEF Found
<1>4. \A p \in b + 1 .. b + (n + 1) : p = x \/ p \in b + 1 .. b + n
  BY <1>2
<1>5. \A p \in b + 1 .. b + n : p \in b + 1 .. b + (n + 1) /\ p < x
  BY <1>2
<1>6. CASE s[x] = Newline
  <2>1. \A p \in b + 1 .. b + (n + 1) : s[p] # Newline => \E i \in 1 .. l : w[i] = p
    BY <1>3, <1>4, <1>6
  <2>2. Found(w, s, b, n + 1)
    BY <1>1, <1>3, <1>5, <2>1 DEF Found
  <2> QED  BY <1>2, <1>6, <2>2
<1>7. CASE s[x] # Newline
  <2>1. PICK v : v = Append(w, x)
    OBVIOUS
  <2>2. /\ v \in Seq(Nat) /\ Len(v) = l + 1 /\ v[l + 1] = x
        /\ \A i \in 1 .. l : v[i] = w[i]
    BY <1>1, <1>3, <2>1, AppendProperties
  <2>3. \A i \in 1 .. l + 1 : i = l + 1 \/ i \in 1 .. l
    OBVIOUS
  <2>4. ASSUME NEW i \in 1 .. l + 1
        PROVE  v[i] \in b + 1 .. b + (n + 1) /\ s[v[i]] # Newline
    <3>1. CASE i = l + 1
      BY <1>2, <1>7, <2>2, <3>1
    <3>2. CASE i \in 1 .. l
      BY <1>3, <1>5, <2>2, <3>2
    <3> QED  BY <2>3, <3>1, <3>2
  <2>5. ASSUME NEW i \in 1 .. l + 1, NEW j \in 1 .. l + 1, i < j PROVE v[i] < v[j]
    <3>1. i \in 1 .. l
      BY <2>5
    <3>2. CASE j = l + 1
      BY <1>3, <1>5, <2>2, <3>1, <3>2
    <3>3. CASE j \in 1 .. l
      BY <1>3, <2>2, <2>5, <3>1, <3>3
    <3> QED  BY <2>3, <3>2, <3>3
  <2>6. ASSUME NEW p \in b + 1 .. b + (n + 1), s[p] # Newline
        PROVE  \E i \in 1 .. l + 1 : v[i] = p
    <3>1. CASE p = x
      <4>1. l + 1 \in 1 .. l + 1
        OBVIOUS
      <4> QED  BY <2>2, <3>1, <4>1
    <3>2. CASE p \in b + 1 .. b + n
      <4>1. PICK i \in 1 .. l : w[i] = p
        BY <1>3, <2>6, <3>2
      <4>2. i \in 1 .. l + 1 /\ v[i] = p
        BY <2>2, <4>1
      <4> QED  BY <4>2
    <3> QED  BY <1>4, <3>1, <3>2
  <2>7. Found(v, s, b, n + 1)
    BY <2>2, <2>4, <2>5, <2>6 DEF Found
  <2> QED  BY <1>2, <1>7, <2>1, <2>7
<1> QED  BY <1>6, <1>7

LEMMA WordPlacesFound ==
    ASSUME TypeOK, NEW c \in Clients
    PROVE  Found(WordPlaces(c), stream[c], base[c], totalBytesRecvd[c])
<1>0. PICK s : s = stream[c]
  OBVIOUS
<1>1. PICK b \in Nat, N \in Nat : b = base[c] /\ N = totalBytesRecvd[c] /\ s = stream[c]
  BY <1>0 DEF TypeOK
<1>2. PICK g : g = [p \in (1 .. N) \X Seq(Nat) |->
                      IF s[b + p[1]] = Newline THEN p[2] ELSE Append(p[2], b + p[1])]
  OBVIOUS
<1>3. g \in [(1 .. N) \X Seq(Nat) -> Seq(Nat)]
  BY <1>2, AppendProperties
<1>4. <<>> \in Seq(Nat)
  BY EmptySeq
<1>5. PICK f \in [0 .. N -> Seq(Nat)] : Follows(f, N, <<>>, g)
  BY <1>3, <1>4, RecursionExists
<1>6. ASSUME NEW k \in 1 .. N
      PROVE  f[k] = IF s[b + k] = Newline THEN f[k - 1] ELSE Append(f[k - 1], b + k)
  <2>0. k - 1 \in 0 .. N
    OBVIOUS
  <2>1. f[k - 1] \in Seq(Nat)
    BY <2>0
  <2>2. f[k] = g[<<k, f[k - 1]>>]
    BY <1>5, Zenon DEF Follows
  <2> QED  BY <1>2, <2>1, <2>2
<1>7. f = [k \in 0 .. N |-> IF k = 0 THEN <<>>
                          ELSE IF s[b + k] = Newline THEN f[k - 1] ELSE Append(f[k - 1], b + k)]
  <2>1. PICK e : e = [k \in 0 .. N |-> IF k = 0 THEN <<>>
                  ELSE IF s[b + k] = Newline THEN f[k - 1] ELSE Append(f[k - 1], b + k)]
    OBVIOUS
  <2>2. ASSUME NEW k \in 0 .. N PROVE f[k] = e[k]
    <3>1. CASE k = 0
      BY <1>5, <2>1, <3>1 DEF Follows
    <3>2. CASE k # 0
      <4>1. k \in 1 .. N
        BY <3>2
      <4>2. e[k] = IF s[b + k] = Newline THEN f[k - 1] ELSE Append(f[k - 1], b + k)
        BY <2>1, <3>2
      <4> QED  BY <1>6, <4>1, <4>2
    <3> QED  BY <3>1, <3>2
  <2>3. f = [k \in 0 .. N |-> f[k]]
    BY <1>5
  <2>4. e = [k \in 0 .. N |-> e[k]]
    BY <2>1
  <2>5. f = e
    BY <2>2, <2>3, <2>4
  <2> QED  BY <2>1, <2>5
<1>8. PICK h : h = CHOOSE f2 : f2 = [k \in 0 .. N |-> IF k = 0 THEN <<>>
                     ELSE IF s[b + k] = Newline THEN f2[k - 1] ELSE Append(f2[k - 1], b + k)]
  OBVIOUS
<1>9. h = [k \in 0 .. N |-> IF k = 0 THEN <<>>
                     ELSE IF s[b + k] = Newline THEN h[k - 1] ELSE Append(h[k - 1], b + k)]
  BY <1>7, <1>8
<1>10. WordPlaces(c) = h[N]
  BY <1>1, <1>8 DEF WordPlaces
<1> DEFINE T == {k \in 0 .. N : Found(h[k], s, b, k)}
<1>11. 0 \in T
  <2>1. h[0] = <<>>
    BY <1>9
  <2>2. Found(<<>>, s, b, 0)
    BY EmptySeq DEF Found
  <2> QED  BY <2>1, <2>2
<1>12. ASSUME NEW k \in 0 .. N - 1, k \in T PROVE k + 1 \in T
  <2>1. k + 1 \in 0 .. N /\ k + 1 # 0 /\ (k + 1) - 1 = k /\ k \in Nat
    OBVIOUS
  <2>2. h[k + 1] = IF s[b + (k + 1)] = Newline THEN h[k] ELSE Append(h[k], b + (k + 1))
    BY <1>9, <2>1
  <2>3. Found(h[k + 1], s, b, k + 1)
    BY <1>12, <2>1, <2>2, FoundStep
  <2> QED  BY <2>1, <2>3
<1> HIDE DEF T
<1>13. 0 .. N \subseteq T
  BY <1>11, <1>12, CountUp
<1>14. N \in T
  BY <1>13
<1> QED  BY <1>1, <1>10, <1>14 DEF T

(* What the tokens of a message are: a first word with nothing but newlines *)
(* before it in the message, then later words of the message, then perhaps  *)
(* what lies behind it.                                                     *)
LEMMA TokenFacts ==
    ASSUME TypeOK, NEW c \in Clients, NEW tokens \in Tokens(c), tokens # <<>>
    PROVE  /\ Head(tokens) \in Nat
           /\ Head(tokens) # 0 =>
                 /\ Head(tokens) \in base[c] + 1 .. base[c] + totalBytesRecvd[c]
                 /\ stream[c][Head(tokens)] # Newline
                 /\ \A p \in base[c] + 1 .. Head(tokens) - 1 : stream[c][p] = Newline
           /\ \A i \in (2 .. 5) \cap DOMAIN tokens :
                 /\ tokens[i] \in Nat /\ Head(tokens) # 0
                 /\ \/ tokens[i] \in base[c] + 1 .. base[c] + totalBytesRecvd[c]
                       /\ Head(tokens) < tokens[i]
                    \/ tokens[i] = 0 /\ totalBytesRecvd[c] >= RECV_BUFFER_LENGTH_BYTES
<1>0. PICK s : s = stream[c]
  OBVIOUS
<1>1. PICK b \in Nat, N \in Nat : b = base[c] /\ N = totalBytesRecvd[c] /\ s = stream[c]
  BY <1>0 DEF TypeOK
<1>2. PICK w : w = WordPlaces(c)
  OBVIOUS
<1>3. Found(w, s, b, N)
  BY <1>1, <1>2, WordPlacesFound
<1>4. tokens = w \/ (tokens = Append(w, 0) /\ N >= RECV_BUFFER_LENGTH_BYTES)
  BY <1>1, <1>2, <1>3 DEF Tokens, Found
<1>5. PICK l \in Nat : l = Len(w)
  BY <1>3, LenProperties DEF Found
<1>6. /\ w \in Seq(Nat)
      /\ \A i \in 1 .. l : w[i] \in b + 1 .. b + N /\ s[w[i]] # Newline
      /\ \A i, j \in 1 .. l : i < j => w[i] < w[j]
      /\ \A p \in b + 1 .. b + N : s[p] # Newline => \E i \in 1 .. l : w[i] = p
  BY <1>3, <1>5 DEF Found
<1>7. PICK first : first = Head(tokens)
  OBVIOUS
<1>8. CASE l = 0
  <2>1. w = <<>>
    BY <1>5, <1>6, <1>8, EmptySeq
  <2>2. tokens = <<0>>
    BY <1>4, <2>1
  <2>3. Head(tokens) = 0 /\ DOMAIN tokens = {1}
    BY <2>2
  <2> QED  BY <2>3
<1>9. CASE l # 0
  <2>1. 1 \in 1 .. l
    BY <1>9
  <2>2. /\ tokens \in Seq(Nat) /\ tokens[1] = w[1]
        /\ \A i \in DOMAIN tokens : \/ i \in 1 .. l /\ tokens[i] = w[i]
                                    \/ tokens[i] = 0 /\ N >= RECV_BUFFER_LENGTH_BYTES
    <3>1. CASE tokens = w
      BY <1>5, <1>6, <3>1
    <3>2. CASE tokens = Append(w, 0) /\ N >= RECV_BUFFER_LENGTH_BYTES
      <4>1. tokens \in Seq(Nat) /\ Len(tokens) = l + 1 /\ tokens[l + 1] = 0
            /\ \A i \in 1 .. l : tokens[i] = w[i]
        BY <1>5, <1>6, <3>2, AppendProperties
      <4>2. \A i \in DOMAIN tokens : i = l + 1 \/ i \in 1 .. l
        BY <4>1
      <4> QED  BY <2>1, <3>2, <4>1, <4>2
    <3> QED  BY <1>4, <3>1, <3>2
  <2>3. first = w[1]
    BY <1>7, <2>2 
  <2>4. first \in b + 1 .. b + N /\ s[first] # Newline /\ first # 0 /\ first \in Nat
    BY <1>6, <2>1, <2>3
  <2>5. ASSUME NEW p \in b + 1 .. first - 1 PROVE s[p] = Newline
    <3> SUFFICES ASSUME s[p] # Newline PROVE FALSE
      OBVIOUS
    <3>1. p \in b + 1 .. b + N /\ p < first
      BY <2>4
    <3>2. PICK i \in 1 .. l : w[i] = p
      BY <1>6, <3>1
    <3>3. i # 1
      BY <2>3, <3>1, <3>2, <2>4
    <3>4. 1 < i
      BY <3>3
    <3>5. w[1] < w[i]
      BY <1>6, <2>1, <3>4
    <3> QED  BY <2>3, <2>4, <3>1, <3>2, <3>5
  <2>6. ASSUME NEW i \in (2 .. 5) \cap DOMAIN tokens
        PROVE  /\ tokens[i] \in Nat
               /\ \/ tokens[i] \in b + 1 .. b + N /\ first < tokens[i]
                  \/ tokens[i] = 0 /\ N >= RECV_BUFFER_LENGTH_BYTES
    <3>1. CASE i \in 1 .. l /\ tokens[i] = w[i]
      <4>1. w[i] \in b + 1 .. b + N /\ 1 < i
        BY <1>6, <3>1
      <4>2. w[1] < w[i]
        BY <1>6, <2>1, <3>1, <4>1
      <4> QED  BY <2>3, <3>1, <4>1, <4>2
    <3>2. CASE tokens[i] = 0 /\ N >= RECV_BUFFER_LENGTH_BYTES
      BY <3>2
    <3> QED  BY <2>2, <3>1, <3>2
  <2> QED  BY <1>1, <1>7, <2>4, <2>5, <2>6
<1> QED  BY <1>8, <1>9

-----------------------------------------------------------------------------
(* Types.  No more connections are open than descriptors are counted, so    *)
(* the count does not fall below zero.                                      *)

Open  == {c \in Clients : pc[c] # "closed"}
FdsOK == Cardinality(Open) <= fds
TInv  == TypeOK /\ FdsOK

LEMMA OpenIsFinite == IsFiniteSet(Open) /\ Cardinality(Open) \in Nat
<1>1. Open \subseteq Clients
  BY DEF Open
<1>2. IsFiniteSet(Open)
  BY <1>1, SessionAssumption, FS_Subset
<1> QED  BY <1>2, FS_CardinalityType

LEMMA StaysOpen ==
    ASSUME TypeOK, NEW c \in Clients, NEW l \in Labels \ {"closed"}, pc[c] # "closed", Goto(c, l)
    PROVE  Open' = Open /\ pc' \in [Clients -> Labels]
<1>1. pc' \in [Clients -> Labels]
  BY DEF TypeOK, Goto, Labels
<1>2. ASSUME NEW d \in Clients PROVE pc'[d] # "closed" <=> pc[d] # "closed"
  <2>1. CASE d = c
    BY <2>1 DEF TypeOK, Goto
  <2>2. CASE d # c
    BY <2>2 DEF TypeOK, Goto
  <2> QED  BY <2>1, <2>2
<1> QED  BY <1>1, <1>2 DEF Open

LEMMA CommandIsTyped ==
    ASSUME TypeOK, NEW c \in Clients, NEW tokens \in Tokens(c), tokens # <<>>
    PROVE  [at |-> Head(tokens),
            args |-> {tokens[i] : i \in (2 .. 5) \cap DOMAIN tokens}] \in Command
<1>1. Head(tokens) \in Nat /\ \A i \in (2 .. 5) \cap DOMAIN tokens : tokens[i] \in Nat
  BY TokenFacts
<1>2. PICK a, r : a = Head(tokens) /\ r = {tokens[i] : i \in (2 .. 5) \cap DOMAIN tokens}
  OBVIOUS
<1>3. a \in Nat /\ r \in SUBSET Nat
  BY <1>1, <1>2
<1> QED  BY <1>2, <1>3 DEF Command

LEMMA SendTyped ==
    ASSUME TypeOK, NEW c \in Clients, NEW line \in Lines, Send(c, line)
    PROVE  stream' \in [Clients -> Seq(Symbols)] /\ gone' \in [Clients -> BOOLEAN]
<1>1. PICK k \in 1 .. Len(line) :
          /\ stream' = [stream EXCEPT ![c] = @ \o SubSeq(line, 1, k)]
          /\ gone' = [gone EXCEPT ![c] = k < Len(line)]
  BY DEF Send
<1>2. line \in Seq(Symbols) /\ stream \in [Clients -> Seq(Symbols)]
  BY SessionAssumption DEF TypeOK, Symbols
<1>3. SubSeq(line, 1, k) \in Seq(Symbols)
  BY <1>2, SubSeqProperties
<1>4. stream[c] \o SubSeq(line, 1, k) \in Seq(Symbols)
  BY <1>2, <1>3, ConcatProperties
<1>5. (k < Len(line)) \in BOOLEAN
  OBVIOUS
<1> QED  BY <1>1, <1>2, <1>4, <1>5 DEF TypeOK

LEMMA TInvInit == Init => TInv
<1> SUFFICES ASSUME Init PROVE TInv
  OBVIOUS
<1>1. \A c \in Clients : pc[c] = "loop"
  BY DEF Init
<1>2. Open = Clients
  BY <1>1 DEF Open
<1>3. Cardinality(Clients) \in Nat /\ Cardinality(Clients) <= MaxFds /\ MaxFds \in Nat
      /\ RECV_BUFFER_LENGTH_BYTES \in Nat
  BY SessionAssumption, FS_CardinalityType
<1>4. FdsOK
  BY <1>2, <1>3 DEF FdsOK, Init
<1>5. /\ <<>> \in Seq(Words \cup {Newline}) /\ <<>> \in Seq(Command)
      /\ Console \in Dest /\ None \in Dest \cup {None}
  BY EmptySeq DEF Dest
<1>6. /\ stream \in [Clients -> Seq(Words \cup {Newline})] /\ gone \in [Clients -> BOOLEAN]
      /\ pc \in [Clients -> Labels] /\ threadActive \in [Clients -> BOOLEAN]
      /\ done \in [Clients -> Seq(Command)] /\ tossed \in [Clients -> BOOLEAN]
  BY <1>5 DEF Init, Labels
<1>7. /\ base \in [Clients -> Nat]
      /\ bufferCapacity \in [Clients -> Nat] /\ totalBytesRecvd \in [Clients -> Nat]
      /\ \A c \in Clients : totalBytesRecvd[c] <= bufferCapacity[c]
  BY <1>3 DEF Init
<1>8. /\ stdout \in Dest /\ savedfd \in [Clients -> Dest \cup {None}]
      /\ held \subseteq Text /\ astray \in [Dest -> SUBSET Text]
  BY <1>5 DEF Init
<1>9. fds \in 0 .. MaxFds
  BY <1>3 DEF Init
<1>10. fullyBuffered \in BOOLEAN /\ disturbed \in BOOLEAN /\ endProgram \in BOOLEAN
  BY Zenon DEF Init
<1> QED  BY <1>4, <1>6, <1>7, <1>8, <1>9, <1>10 DEF TInv, TypeOK, Labels

(* The types of the variables that receiving and executing a message change. *)
FrameTyped ==
    /\ base \in [Clients -> Nat]
    /\ bufferCapacity \in [Clients -> Nat] /\ totalBytesRecvd \in [Clients -> Nat]
    /\ \A c \in Clients : totalBytesRecvd[c] <= bufferCapacity[c]
    /\ tossed \in [Clients -> BOOLEAN]

LEMMA FrameTypes ==
    ASSUME TypeOK, NEW c \in Clients, SessionTest(c) \/ Grow(c) \/ Recv(c) \/ Execute(c)
    PROVE  FrameTyped'
<1>1. FrameTyped /\ RECV_BUFFER_LENGTH_BYTES \in Nat
  BY SessionAssumption DEF FrameTyped, TypeOK
<1>2. CASE SessionTest(c)
  <2>1. base' = base /\ tossed' = tossed
        /\ totalBytesRecvd' = [totalBytesRecvd EXCEPT ![c] = 0]
        /\ bufferCapacity' = [bufferCapacity EXCEPT ![c] = RECV_BUFFER_LENGTH_BYTES]
    BY <1>2 DEF SessionTest
  <2>2. \A d \in Clients : totalBytesRecvd'[d] <= bufferCapacity'[d]
    BY <1>1, <2>1 DEF FrameTyped
  <2> QED  BY <1>1, <2>1, <2>2 DEF FrameTyped
<1>3. CASE Grow(c)
  <2>1. CASE /\ bufferCapacity' = [bufferCapacity EXCEPT ![c] = @ * 2]
             /\ base' = base /\ tossed' = tossed /\ totalBytesRecvd' = totalBytesRecvd
    <3>1. bufferCapacity[c] * 2 \in Nat /\ totalBytesRecvd[c] <= bufferCapacity[c] * 2
      BY <1>1 DEF FrameTyped
    <3>2. \A d \in Clients : totalBytesRecvd'[d] <= bufferCapacity'[d]
      BY <1>1, <2>1, <3>1 DEF FrameTyped
    <3> QED  BY <1>1, <2>1, <3>1, <3>2 DEF FrameTyped
  <2>2. CASE /\ base' = [base EXCEPT ![c] = @ + totalBytesRecvd[c]]
             /\ totalBytesRecvd' = [totalBytesRecvd EXCEPT ![c] = 0]
             /\ tossed' = [tossed EXCEPT ![c] = TRUE]
             /\ bufferCapacity' = bufferCapacity
    <3>1. \A d \in Clients : totalBytesRecvd'[d] <= bufferCapacity'[d]
      BY <1>1, <2>2 DEF FrameTyped
    <3>2. base[c] + totalBytesRecvd[c] \in Nat
      BY <1>1 DEF FrameTyped
    <3> QED  BY <1>1, <2>2, <3>1, <3>2 DEF FrameTyped
  <2> QED  BY <1>3, <2>1, <2>2 DEF Grow
<1>4. CASE Recv(c)
  <2>1. PICK n \in 1 .. bufferCapacity[c] - totalBytesRecvd[c] :
            totalBytesRecvd' = [totalBytesRecvd EXCEPT ![c] = @ + n]
    BY <1>4 DEF Recv
  <2>2. base' = base /\ tossed' = tossed /\ bufferCapacity' = bufferCapacity
    BY <1>4 DEF Recv
  <2>3. totalBytesRecvd[c] + n \in Nat /\ totalBytesRecvd[c] + n <= bufferCapacity[c]
    BY <1>1 DEF FrameTyped
  <2>4. \A d \in Clients : totalBytesRecvd'[d] <= bufferCapacity'[d]
    BY <1>1, <2>1, <2>2, <2>3 DEF FrameTyped
  <2> QED  BY <1>1, <2>1, <2>2, <2>3, <2>4 DEF FrameTyped
<1>5. CASE Execute(c)
  <2>1. base' = [base EXCEPT ![c] = @ + totalBytesRecvd[c]]
        /\ totalBytesRecvd' = [totalBytesRecvd EXCEPT ![c] = 0]
        /\ tossed' = tossed /\ bufferCapacity' = bufferCapacity
    BY <1>5 DEF Execute
  <2>2. \A d \in Clients : totalBytesRecvd'[d] <= bufferCapacity'[d]
    BY <1>1, <2>1 DEF FrameTyped
  <2>3. base[c] + totalBytesRecvd[c] \in Nat
    BY <1>1 DEF FrameTyped
  <2> QED  BY <1>1, <2>1, <2>2, <2>3 DEF FrameTyped
<1> QED  BY <1>2, <1>3, <1>4, <1>5

(* Where Execute leaves the thread, and what it does to done.               *)
LEMMA ExecuteMoves ==
    ASSUME TypeOK, NEW c \in Clients, Execute(c)
    PROVE  /\ \E l \in {"loop", "work", "prepare"} : Goto(c, l)
           /\ \/ done' = done /\ Goto(c, "loop")
              \/ \E tokens \in Tokens(c) :
                    /\ tokens # <<>>
                    /\ done' = [done EXCEPT ![c] =
                          Append(@, [at   |-> Head(tokens),
                                     args |-> {tokens[i] : i \in (2 .. 5) \cap DOMAIN tokens}])]
                    /\ Goto(c, "work") \/ "show" \in WordAt(c, Head(tokens))
           /\ threadActive' \in [Clients -> BOOLEAN]
           /\ \A d \in Clients : /\ threadActive'[d] => threadActive[d]
                                 /\ d # c => threadActive'[d] = threadActive[d]
           /\ output' = output \/ Prints(Log)
<1>1. PICK tokens \in Tokens(c) :
          \/ /\ tokens = <<>>
             /\ Goto(c, "loop")
             /\ UNCHANGED <<threadActive, done, output>>
          \/ /\ tokens # <<>>
             /\ done' = [done EXCEPT ![c] =
                   Append(@, [at   |-> Head(tokens),
                              args |-> {tokens[i] : i \in (2 .. 5) \cap DOMAIN tokens}])]
             /\ \E word \in WordAt(c, Head(tokens)) :
                   /\ \E label \in {"work"} \cup IF Redirects(word) THEN {"prepare"} ELSE {} :
                         Goto(c, label)
                   /\ threadActive' = [threadActive EXCEPT ![c] = @ /\ word # "quit"]
             /\ Prints(Log)
  BY Zenon DEF Execute
<1>2. threadActive \in [Clients -> BOOLEAN]
  BY DEF TypeOK
<1>3. CASE tokens = <<>> /\ Goto(c, "loop") /\ UNCHANGED <<threadActive, done, output>>
  BY <1>2, <1>3
<1>4. CASE /\ tokens # <<>>
           /\ done' = [done EXCEPT ![c] =
                 Append(@, [at   |-> Head(tokens),
                            args |-> {tokens[i] : i \in (2 .. 5) \cap DOMAIN tokens}])]
           /\ \E word \in WordAt(c, Head(tokens)) :
                 /\ \E label \in {"work"} \cup IF Redirects(word) THEN {"prepare"} ELSE {} :
                       Goto(c, label)
                 /\ threadActive' = [threadActive EXCEPT ![c] = @ /\ word # "quit"]
           /\ Prints(Log)
  <2>1. PICK word \in WordAt(c, Head(tokens)) :
                    /\ \E label \in {"work"} \cup IF Redirects(word) THEN {"prepare"} ELSE {} :
                         Goto(c, label)
                    /\ threadActive' = [threadActive EXCEPT ![c] = @ /\ word # "quit"]
    BY <1>4
  <2>2. Goto(c, "work") \/ (Goto(c, "prepare") /\ "show" \in WordAt(c, Head(tokens)))
    BY <2>1 DEF Redirects
  <2>3. threadActive' \in [Clients -> BOOLEAN]
    BY <1>2, <2>1
  <2>4. ASSUME NEW d \in Clients
        PROVE  (threadActive'[d] => threadActive[d]) /\ (d # c => threadActive'[d] = threadActive[d])
    BY <1>2, <2>1
  <2>5. \E l \in {"loop", "work", "prepare"} : Goto(c, l)
    BY <2>2
  <2> QED  BY <1>4, <2>2, <2>3, <2>4, <2>5
<1> QED  BY <1>1, <1>3, <1>4

(* The types of what printing changes, and what it leaves alone.            *)
OutputTyped ==
    /\ stdout \in Dest /\ savedfd \in [Clients -> Dest \cup {None}] /\ fds \in 0 .. MaxFds
    /\ fullyBuffered \in BOOLEAN /\ held \subseteq Text /\ astray \in [Dest -> SUBSET Text]
    /\ disturbed \in BOOLEAN

LEMMA PrintsTyped ==
    ASSUME TypeOK, NEW text \in Text, Prints(text)
    PROVE  OutputTyped' /\ fds' = fds
<1>1. OutputTyped
  BY DEF TypeOK, OutputTyped
<1>2. UNCHANGED <<stdout, savedfd, fds, disturbed, fullyBuffered>>
  BY DEF Prints
<1>3. held' \subseteq Text
  BY <1>1 DEF Prints, OutputTyped
<1>4. astray' \in [Dest -> SUBSET Text]
  <2>1. PICK a : a = astray[stdout] \cup {t \in held \cup {text} : MeantFor(t) # stdout}
    OBVIOUS
  <2>2. a \subseteq Text
    BY <1>1, <2>1 DEF OutputTyped
  <2>3. astray' = astray \/ astray' = [astray EXCEPT ![stdout] = a]
    BY <2>1 DEF Prints
  <2> QED  BY <1>1, <2>2, <2>3 DEF OutputTyped
<1> QED  BY <1>1, <1>2, <1>3, <1>4 DEF OutputTyped

(* What a thread prints while it does not redirect is a log line.           *)
LEMMA OthersLog ==
    ASSUME TypeOK, NEW c \in Clients,
           \/ SessionTest(c) \/ Grow(c) \/ Recv(c) \/ RecvEnd(c) \/ RecvFails(c)
           \/ Execute(c) \/ Work(c)
    PROVE  output' = output \/ Prints(Log)
<1>1. CASE Execute(c)
  BY <1>1, ExecuteMoves
<1>2. CASE SessionTest(c) \/ Grow(c) \/ Recv(c) \/ RecvEnd(c) \/ RecvFails(c) \/ Work(c)
  BY <1>2 DEF SessionTest, Grow, Recv, RecvEnd, RecvFails, Work
<1> QED  BY <1>1, <1>2

LEMMA DoneTyped ==
    ASSUME TypeOK, NEW c \in Clients, Execute(c)
    PROVE  done' \in [Clients -> Seq(Command)]
<1>1. done \in [Clients -> Seq(Command)]
  BY DEF TypeOK
<1>2. CASE done' = done
  BY <1>1, <1>2
<1>3. ASSUME NEW tokens \in Tokens(c), tokens # <<>>,
             done' = [done EXCEPT ![c] =
                Append(@, [at   |-> Head(tokens),
                           args |-> {tokens[i] : i \in (2 .. 5) \cap DOMAIN tokens}])]
      PROVE  done' \in [Clients -> Seq(Command)]
  <2>1. PICK e : e = [at   |-> Head(tokens),
                      args |-> {tokens[i] : i \in (2 .. 5) \cap DOMAIN tokens}]
    OBVIOUS
  <2>2. e \in Command
    BY <1>3, <2>1, CommandIsTyped
  <2>3. Append(done[c], e) \in Seq(Command)
    BY <1>1, <2>2, AppendProperties
  <2>4. done' = [done EXCEPT ![c] = Append(done[c], e)]
    BY <1>3, <2>1
  <2> QED  BY <1>1, <2>3, <2>4
<1> QED  BY <1>2, <1>3, ExecuteMoves

(* The descriptor counts, by what a step does to pc and fds.                *)
LEMMA FdsKept ==
    ASSUME TInv, NEW c \in Clients, NEW l \in Labels \ {"closed"}, pc[c] # "closed", Goto(c, l),
           fds' \in Nat, fds <= fds'
    PROVE  FdsOK'
<1>1. Open' = Open
  BY StaysOpen DEF TInv
<1>2. PICK n \in Nat : n = Cardinality(Open)
  BY OpenIsFinite
<1>3. Cardinality(Open') = n /\ n <= fds /\ fds \in Nat
  BY <1>1, <1>2 DEF TInv, FdsOK, TypeOK
<1> QED  BY <1>3 DEF FdsOK

LEMMA FdsClose ==
    ASSUME TInv, NEW c \in Clients, Close(c)
    PROVE  FdsOK' /\ fds' \in 0 .. MaxFds
<1>1. c \in Open
  BY DEF Open, Close
<1>2. PICK n \in Nat : n = Cardinality(Open)
  BY OpenIsFinite
<1>3. Open' = Open \ {c}
  <2>1. ASSUME NEW d \in Clients PROVE pc'[d] # "closed" <=> pc[d] # "closed" /\ d # c
    BY DEF TInv, TypeOK, Close, Goto
  <2> QED  BY <2>1 DEF Open
<1>4. Cardinality(Open \ {c}) = n - 1
  BY <1>1, <1>2, OpenIsFinite, FS_RemoveElement
<1>5. n # 0
  BY <1>1, <1>2, OpenIsFinite, FS_EmptySet
<1>6. Cardinality(Open') = n - 1 /\ n <= fds /\ fds \in 0 .. MaxFds /\ fds' = fds - 1
      /\ MaxFds \in Nat
  BY <1>2, <1>3, <1>4, SessionAssumption DEF TInv, FdsOK, TypeOK, Close
<1> QED  BY <1>5, <1>6 DEF FdsOK

LEMMA TInvRecv ==
    ASSUME TInv, NEW c \in Clients,
           \/ SessionTest(c) \/ Grow(c) \/ Recv(c) \/ RecvEnd(c) \/ RecvFails(c)
           \/ Execute(c) \/ Work(c)
    PROVE  TInv'
<1>1. TypeOK /\ fds \in Nat
  BY DEF TInv, TypeOK
<1>2. OutputTyped' /\ fds' = fds /\ input' = input
  <2>1. Log \in Text
    BY DEF Text
  <2>2. input' = input
    BY DEF SessionTest, Grow, Recv, RecvEnd, RecvFails, Execute, Work
  <2>3. CASE output' = output
    BY <1>1, <2>2, <2>3 DEF OutputTyped, TypeOK, output
  <2>4. CASE Prints(Log)
    BY <1>1, <2>1, <2>2, <2>4, PrintsTyped
  <2> QED  BY <1>1, <2>3, <2>4, OthersLog
<1>3. FrameTyped'
  <2>1. CASE RecvEnd(c) \/ RecvFails(c) \/ Work(c)
    BY <1>1, <2>1 DEF RecvEnd, RecvFails, Work, frame, FrameTyped, TypeOK
  <2> QED  BY <1>1, <2>1, FrameTypes
<1>4. done' \in [Clients -> Seq(Command)]
  <2>1. CASE Execute(c)
    BY <1>1, <2>1, DoneTyped
  <2>2. CASE ~Execute(c)
    BY <1>1, <2>2 DEF SessionTest, Grow, Recv, RecvEnd, RecvFails, Work, TypeOK
  <2> QED  BY <2>1, <2>2
<1>5. threadActive' \in [Clients -> BOOLEAN]
  <2>1. CASE Execute(c)
    BY <1>1, <2>1, ExecuteMoves
  <2>2. CASE ~Execute(c)
    BY <1>1, <2>2 DEF SessionTest, Grow, Recv, RecvEnd, RecvFails, Work, TypeOK
  <2> QED  BY <2>1, <2>2
<1>6. pc' \in [Clients -> Labels] /\ FdsOK'
  <2>1. pc[c] \in {"loop", "recv", "execute", "work", "prepare"} /\ fds' = fds
    BY <1>2 DEF SessionTest, Grow, Recv, RecvEnd, RecvFails, Execute, Work
  <2>2. pc' = pc \/ \E l \in Labels \ {"closed"} : Goto(c, l)
    <3>1. CASE Execute(c)
      <4>1. PICK l \in {"loop", "work", "prepare"} : Goto(c, l)
        BY <1>1, <3>1, ExecuteMoves
      <4> QED  BY <4>1 DEF Labels
    <3>2. CASE SessionTest(c)
      BY <3>2 DEF SessionTest, Labels
    <3>3. CASE Grow(c)
      BY <3>3 DEF Grow, Labels
    <3>4. CASE Recv(c)
      BY <3>4 DEF Recv, Labels
    <3>5. CASE RecvEnd(c) \/ RecvFails(c) \/ Work(c)
      BY <3>5 DEF RecvEnd, RecvFails, Work, Labels
    <3> QED  BY <3>1, <3>2, <3>3, <3>4, <3>5
  <2>3. CASE pc' = pc
    BY <1>1, <2>1, <2>3 DEF TInv, TypeOK, FdsOK, Open, Labels
  <2>4. ASSUME NEW l \in Labels \ {"closed"}, Goto(c, l)
        PROVE  pc' \in [Clients -> Labels] /\ FdsOK'
    <3>1. pc[c] # "closed" /\ fds' \in Nat /\ fds <= fds'
      BY <1>1, <2>1
    <3> QED  BY <1>1, <2>4, <3>1, StaysOpen, FdsKept
  <2> QED  BY <2>2, <2>3, <2>4
<1> QED  BY <1>1, <1>2, <1>3, <1>4, <1>5, <1>6 DEF TInv, TypeOK, FrameTyped, OutputTyped, Labels, input

LEMMA TInvOutput ==
    ASSUME TInv, NEW c \in Clients, Dup(c) \/ Aim(c) \/ Output(c) \/ Restore(c) \/ Close(c)
    PROVE  TInv'
<1>1. TypeOK /\ fds \in Nat /\ MaxFds \in Nat
  BY SessionAssumption DEF TInv, TypeOK
<1>2. input' = input /\ threadActive' = threadActive /\ frame' = frame /\ done' = done
      /\ fullyBuffered' = fullyBuffered
  BY DEF Dup, Aim, Output, Prints, Restore, Close
<1>3. fds' \in 0 .. MaxFds /\ FdsOK' /\ pc' \in [Clients -> Labels]
  <2>1. CASE Close(c)
    <3>1. pc' \in [Clients -> Labels]
      BY <1>1, <2>1 DEF Close, Goto, TypeOK, Labels
    <3> QED  BY <2>1, <3>1, FdsClose
  <2>2. CASE ~Close(c)
    <3>1. PICK l \in Labels \ {"closed"} : pc[c] # "closed" /\ Goto(c, l)
      BY <2>2 DEF Dup, Aim, Output, Restore, Labels, Redirecting
    <3>2. fds' \in 0 .. MaxFds /\ fds <= fds'
      BY <1>1, <2>2 DEF Dup, Aim, Output, Prints, Restore, TypeOK
    <3> QED  BY <1>1, <3>1, <3>2, StaysOpen, FdsKept
  <2> QED  BY <2>1, <2>2
<1>4. /\ stdout' \in Dest /\ savedfd' \in [Clients -> Dest \cup {None}]
  <2>1. c \in Dest /\ stdout \in Dest /\ savedfd \in [Clients -> Dest \cup {None}]
    BY <1>1 DEF TypeOK, Dest
  <2>2. CASE Dup(c)
    BY <2>1, <2>2 DEF Dup
  <2>3. CASE Restore(c)
    BY <2>1, <2>3 DEF Restore
  <2>4. CASE Aim(c) \/ Output(c) \/ Close(c)
    BY <2>1, <2>4 DEF Aim, Output, Prints, Close
  <2> QED  BY <2>2, <2>3, <2>4
<1>5. held' \subseteq Text /\ astray' \in [Dest -> SUBSET Text]
  <2>1. CASE Output(c)
    <3>1. c \in Text /\ Prints(c)
      BY <2>1 DEF Text, Output
    <3> QED  BY <1>1, <3>1, PrintsTyped DEF OutputTyped
  <2> QED  BY <1>1, <2>1 DEF Dup, Aim, Restore, Close, TypeOK
<1>6. disturbed' \in BOOLEAN
  <2>1. CASE Dup(c)
    BY <2>1, Zenon DEF Dup
  <2>2. CASE ~Dup(c)
    <3>1. disturbed' = disturbed
      BY <2>2 DEF Aim, Output, Prints, Restore, Close
    <3> QED  BY <1>1, <3>1 DEF TypeOK
  <2> QED  BY <2>1, <2>2
<1> QED  BY <1>1, <1>2, <1>3, <1>4, <1>5, <1>6 DEF TInv, TypeOK, Labels, input, frame

LEMMA TInvStep == TInv /\ [Next]_vars => TInv'
<1> SUFFICES ASSUME TInv, [Next]_vars PROVE TInv'
  OBVIOUS
<1>1. ASSUME NEW c \in Clients, repsondingThread(c) PROVE TInv'
  BY <1>1, TInvRecv, TInvOutput DEF repsondingThread
<1>2. ASSUME NEW c \in Clients, Leave(c) \/ \E line \in Lines : Send(c, line) PROVE TInv'
  <2>1. stream' \in [Clients -> Seq(Symbols)] /\ gone' \in [Clients -> BOOLEAN]
    <3>1. CASE Leave(c)
      BY <3>1 DEF Leave, TInv, TypeOK, Symbols
    <3>2. CASE \E line \in Lines : Send(c, line)
      BY <3>2, SendTyped DEF TInv
    <3> QED  BY <1>2, <3>1, <3>2
  <2>2. UNCHANGED <<endProgram, pc, threadActive, frame, done, output>>
    BY <1>2 DEF Leave, Send
  <2> QED  BY <2>1, <2>2 DEF TInv, TypeOK, FdsOK, Open, Symbols, frame, output
<1>3. CASE UNCHANGED vars
  BY <1>3 DEF vars, input, frame, output, TInv, TypeOK, FdsOK, Open
<1>4. CASE Signal
  <2>1. /\ endProgram' \in BOOLEAN /\ fds' = fds /\ fds \in Nat /\ TypeOK
        /\ UNCHANGED <<stream, gone, threadActive, frame, done, output>>
    BY <1>4 DEF Signal, TInv, TypeOK, output
  <2>2. pc' \in [Clients -> Labels] /\ FdsOK'
    <3>1. CASE pc' = pc
      BY <2>1, <3>1 DEF TInv, TypeOK, FdsOK, Open, Labels
    <3>2. ASSUME NEW c \in Clients, pc[c] = "recv", Goto(c, "failed")
          PROVE  pc' \in [Clients -> Labels] /\ FdsOK'
      <4>1. "failed" \in Labels \ {"closed"} /\ pc[c] # "closed" /\ fds' \in Nat /\ fds <= fds'
        BY <2>1, <3>2 DEF Labels
      <4> QED  BY <2>1, <3>2, <4>1, StaysOpen, FdsKept
    <3> QED  BY <1>4, <3>1, <3>2 DEF Signal
  <2> QED  BY <2>1, <2>2 DEF TInv, TypeOK, Labels, frame, output
<1> QED  BY <1>1, <1>2, <1>3, <1>4 DEF Next, Finished

LEMMA TInvariance == Spec => []TInv
BY TInvInit, TInvStep, PTL DEF Spec

(* The receive buffer of repsondingThread is never overrun, every command   *)
(* is made of bytes of the stream, and the descriptors that connections and *)
(* copies of stdout take stay within the limit of the process.              *)
THEOREM TypeCorrect == Spec => []TypeOK
BY TInvariance, PTL DEF TInv

-----------------------------------------------------------------------------
(* The redirection of stdout.  While nothing disturbs it, one command at    *)
(* most redirects stdout, its copy refers to the console, and stdout is     *)
(* the client's from Aim to Restore.                                        *)

OneRedirects ==
    \A c, d \in Clients : pc[c] \in Redirecting /\ pc[d] \in Redirecting => c = d
CopyIsConsole ==
    \A c \in Clients : pc[c] \in Redirecting => savedfd[c] = Console
AimedAtClient ==
    \A c \in Clients : pc[c] \in {"print", "restore"} => stdout = c
ConsoleOtherwise ==
    (\A c \in Clients : pc[c] \notin Redirecting) => stdout = Console

Redirection ==
    /\ ~disturbed => OneRedirects /\ CopyIsConsole /\ AimedAtClient /\ ConsoleOtherwise
    /\ ~fullyBuffered => held = {}
    /\ OutputToItsClient

LEMMA RedirectionInit == Init => Redirection
<1> SUFFICES ASSUME Init PROVE Redirection
  OBVIOUS
<1>1. \A c \in Clients : pc[c] = "loop" /\ pc[c] \notin Redirecting
  BY DEF Init, Redirecting
<1>2. OneRedirects /\ CopyIsConsole /\ AimedAtClient /\ ConsoleOtherwise
  BY <1>1 DEF Init, OneRedirects, CopyIsConsole, AimedAtClient, ConsoleOtherwise
<1>3. held = {} /\ \A d \in Dest : astray[d] \subseteq {Log}
  BY DEF Init
<1> QED  BY <1>2, <1>3 DEF Redirection, OutputToItsClient

(* A printed log line is no one's answer.                                   *)
LEMMA LogIsNoAnswer ==
    ASSUME TypeOK, Redirection, output' = output \/ Prints(Log)
    PROVE  /\ (~fullyBuffered => held = {})' /\ OutputToItsClient'
           /\ stdout' = stdout /\ savedfd' = savedfd /\ disturbed' = disturbed
<1>1. /\ stdout' = stdout /\ savedfd' = savedfd /\ disturbed' = disturbed
      /\ fullyBuffered' = fullyBuffered
  BY DEF output, Prints
<1>2. CASE output' = output
  BY <1>1, <1>2 DEF output, Redirection, OutputToItsClient
<1>3. CASE Prints(Log)
  <2>1. ASSUME ~fullyBuffered PROVE held' = {}
    BY <1>3, <2>1 DEF Prints
  <2>2. ASSUME ~disturbed, ~fullyBuffered PROVE \A d \in Dest : astray'[d] \subseteq {Log}
    <3>1. held = {} /\ \A d \in Dest : astray[d] \subseteq {Log}
      BY <2>2 DEF Redirection, OutputToItsClient
    <3>2. PICK a : a = {t \in held \cup {Log} : MeantFor(t) # stdout}
      OBVIOUS
    <3>3. astray' = [astray EXCEPT ![stdout] = @ \cup a] /\ a \subseteq {Log}
      BY <1>3, <2>2, <3>1, <3>2 DEF Prints
    <3> QED  BY <3>1, <3>3 DEF TypeOK
  <2> QED  BY <1>1, <2>1, <2>2 DEF OutputToItsClient
<1> QED  BY <1>1, <1>2, <1>3

(* Steps outside the redirection leave all of this alone.                   *)
LEMMA RedirectionElsewhere ==
    ASSUME TypeOK, Redirection,
           (~fullyBuffered => held = {})', OutputToItsClient',
           stdout' = stdout, savedfd' = savedfd, disturbed' = disturbed,
           \A d \in Clients : pc'[d] = pc[d] \/ (pc[d] \notin Redirecting /\ pc'[d] \notin Redirecting)
    PROVE  Redirection'
<1>1. \A d \in Clients : /\ pc'[d] \in Redirecting <=> pc[d] \in Redirecting
                         /\ pc'[d] \in {"print", "restore"} => pc[d] \in {"print", "restore"}
  BY DEF Redirecting
<1>2. CASE disturbed
  BY <1>2 DEF Redirection
<1>3. CASE ~disturbed
  <2>1. OneRedirects /\ CopyIsConsole /\ AimedAtClient /\ ConsoleOtherwise
    BY <1>3 DEF Redirection
  <2>2. OneRedirects'
    BY <1>1, <2>1 DEF OneRedirects
  <2>3. CopyIsConsole'
    BY <1>1, <2>1 DEF CopyIsConsole
  <2>4. AimedAtClient'
    BY <1>1, <2>1 DEF AimedAtClient
  <2>5. ConsoleOtherwise'
    BY <1>1, <2>1 DEF ConsoleOtherwise
  <2> QED  BY <2>2, <2>3, <2>4, <2>5 DEF Redirection
<1> QED  BY <1>2, <1>3

LEMMA PcMoves ==
    ASSUME TypeOK, NEW c \in Clients, NEW l, Goto(c, l)
    PROVE  pc'[c] = l /\ \A d \in Clients : d # c => pc'[d] = pc[d]
BY DEF TypeOK, Goto

LEMMA RedirectionDup ==
    ASSUME TypeOK, Redirection, NEW c \in Clients, Dup(c)
    PROVE  Redirection'
<1>1. pc'[c] = "aim" /\ pc[c] = "dup" /\ \A d \in Clients : d # c => pc'[d] = pc[d]
  BY PcMoves DEF Dup
<1>2. stdout' = stdout /\ held' = held /\ astray' = astray /\ fullyBuffered' = fullyBuffered
  BY DEF Dup
<1>3. ~disturbed' => ~disturbed
  BY DEF Dup, TypeOK
<1>4. OutputToItsClient' /\ (~fullyBuffered => held = {})'
  BY <1>2, <1>3 DEF Redirection, OutputToItsClient
<1>5. ASSUME ~disturbed'
      PROVE  (OneRedirects /\ CopyIsConsole /\ AimedAtClient /\ ConsoleOtherwise)'
  <2>1. OneRedirects /\ CopyIsConsole /\ AimedAtClient /\ ConsoleOtherwise
    BY <1>3, <1>5 DEF Redirection
  <2>2. savedfd' = [savedfd EXCEPT ![c] = stdout]
        /\ ~\E d \in Clients \ {c} : pc[d] \in Redirecting
    BY <1>5 DEF Dup
  <2>3. \A d \in Clients : pc[d] \notin Redirecting
    BY <1>1, <2>2 DEF Redirecting
  <2>4. stdout = Console
    BY <2>1, <2>3 DEF ConsoleOtherwise
  <2>5. \A d \in Clients : pc'[d] \in Redirecting => d = c
    BY <1>1, <2>3
  <2>6. savedfd'[c] = Console
    BY <2>2, <2>4 DEF TypeOK
  <2>7. pc'[c] \in Redirecting /\ pc'[c] \notin {"print", "restore"}
    BY <1>1 DEF Redirecting
  <2>8. \A d \in Clients : pc'[d] \in {"print", "restore"} => pc'[d] \in Redirecting
    BY DEF Redirecting
  <2>9. OneRedirects'
    BY <2>5 DEF OneRedirects
  <2>10. CopyIsConsole'
    BY <2>5, <2>6 DEF CopyIsConsole
  <2>11. AimedAtClient'
    BY <2>5, <2>7, <2>8 DEF AimedAtClient
  <2>12. ConsoleOtherwise'
    BY <2>7 DEF ConsoleOtherwise
  <2> QED  BY <2>9, <2>10, <2>11, <2>12
<1> QED  BY <1>4, <1>5 DEF Redirection

(* From Aim to Restore the thread holds the redirection alone.              *)
LEMMA RedirectionHeld ==
    ASSUME TypeOK, Redirection, NEW c \in Clients, Aim(c) \/ Output(c) \/ Restore(c)
    PROVE  (~disturbed => OneRedirects /\ CopyIsConsole /\ AimedAtClient /\ ConsoleOtherwise)'
<1>1. disturbed' = disturbed
  BY DEF Aim, Output, Prints, Restore
<1> SUFFICES ASSUME ~disturbed
             PROVE  (OneRedirects /\ CopyIsConsole /\ AimedAtClient /\ ConsoleOtherwise)'
  BY <1>1
<1>2. OneRedirects /\ CopyIsConsole /\ AimedAtClient /\ ConsoleOtherwise
  BY DEF Redirection
<1>3. pc[c] \in Redirecting
  BY DEF Aim, Output, Restore, Redirecting
<1>4. \A d \in Clients : d # c => pc[d] \notin Redirecting
  BY <1>2, <1>3 DEF OneRedirects
<1>5. savedfd[c] = Console
  BY <1>2, <1>3 DEF CopyIsConsole
<1>6. pc'[c] \in {"print", "restore", "loop", "work"} /\ \A d \in Clients : d # c => pc'[d] = pc[d]
  BY PcMoves DEF Aim, Output, Restore
<1>7. \A d \in Clients : d # c => pc'[d] \notin Redirecting /\ pc'[d] \notin {"print", "restore"}
  BY <1>4, <1>6 DEF Redirecting
<1>8. CASE Aim(c) \/ Output(c)
  <2>1. pc'[c] \in Redirecting /\ savedfd' = savedfd
    BY <1>8, PcMoves DEF Aim, Output, Prints, Redirecting
  <2>2. stdout' = c
    <3>1. CASE Aim(c)
      BY <3>1 DEF Aim
    <3>2. CASE Output(c)
      BY <1>2, <3>2 DEF Output, Prints, AimedAtClient
    <3> QED  BY <1>8, <3>1, <3>2
  <2>3. OneRedirects'
    BY <1>7 DEF OneRedirects
  <2>4. CopyIsConsole'
    BY <1>5, <1>7, <2>1 DEF CopyIsConsole
  <2>5. AimedAtClient'
    BY <1>7, <2>2 DEF AimedAtClient
  <2>6. ConsoleOtherwise'
    BY <2>1 DEF ConsoleOtherwise
  <2> QED  BY <2>3, <2>4, <2>5, <2>6
<1>9. CASE Restore(c)
  <2>1. pc'[c] \in {"loop", "work"}
    BY <1>9, PcMoves DEF Restore
  <2>2. \A d \in Clients : pc'[d] \notin Redirecting /\ pc'[d] \notin {"print", "restore"}
    BY <1>7, <2>1 DEF Redirecting
  <2>3. Console # None
    BY SessionAssumption DEF Dest
  <2>4. stdout' = Console
    BY <1>5, <1>9, <2>3 DEF Restore
  <2> QED  BY <2>2, <2>4 DEF OneRedirects, CopyIsConsole, AimedAtClient, ConsoleOtherwise
<1> QED  BY <1>8, <1>9

LEMMA RedirectionOutput ==
    ASSUME TypeOK, Redirection, NEW c \in Clients, Aim(c) \/ Output(c) \/ Restore(c)
    PROVE  (~fullyBuffered => held = {})' /\ OutputToItsClient'
<1>1. fullyBuffered' = fullyBuffered /\ disturbed' = disturbed
  BY DEF Aim, Output, Prints, Restore
<1>2. CASE Output(c)
  <2>0. Prints(c)
    BY <1>2 DEF Output
  <2>1. (~fullyBuffered => held = {})'
    BY <1>1, <2>0 DEF Prints
  <2>2. ASSUME ~disturbed, ~fullyBuffered PROVE \A d \in Dest : astray'[d] \subseteq {Log}
    <3>1. held = {} /\ \A d \in Dest : astray[d] \subseteq {Log}
      BY <2>2 DEF Redirection, OutputToItsClient
    <3>2. stdout = c
      BY <1>2, <2>2 DEF Redirection, AimedAtClient, Output
    <3>3. MeantFor(c) = c
      BY SessionAssumption DEF MeantFor, Dest
    <3>4. PICK a : a = {t \in held \cup {c} : MeantFor(t) # stdout}
      OBVIOUS
    <3>5. astray' = [astray EXCEPT ![stdout] = @ \cup a] /\ a = {}
      BY <2>0, <2>2, <3>1, <3>2, <3>3, <3>4 DEF Prints
    <3> QED  BY <3>1, <3>5 DEF TypeOK
  <2> QED  BY <1>1, <2>1, <2>2 DEF OutputToItsClient
<1>3. CASE Aim(c) \/ Restore(c)
  BY <1>1, <1>3 DEF Aim, Restore, Redirection, OutputToItsClient
<1> QED  BY <1>2, <1>3

LEMMA RedirectionStep == TInv /\ Redirection /\ [Next]_vars => Redirection'
<1> SUFFICES ASSUME TypeOK, Redirection, [Next]_vars PROVE Redirection'
  BY DEF TInv
<1>1. ASSUME NEW c \in Clients,
             \/ SessionTest(c) \/ Grow(c) \/ Recv(c) \/ RecvEnd(c) \/ RecvFails(c)
             \/ Execute(c) \/ Work(c) \/ Close(c)
      PROVE  Redirection'
  <2>2. pc[c] \in {"loop", "recv", "execute", "work", "prepare", "close"}
    BY <1>1 DEF SessionTest, Grow, Recv, RecvEnd, RecvFails, Execute, Work, Close
  <2>3. pc' = pc \/ \E l \in Labels \ Redirecting : Goto(c, l)
    <3>1. CASE Execute(c)
      <4>1. PICK l \in {"loop", "work", "prepare"} : Goto(c, l)
        BY <3>1, ExecuteMoves
      <4> QED  BY <4>1 DEF Labels, Redirecting
    <3>2. CASE SessionTest(c)
      BY <3>2 DEF SessionTest, Labels, Redirecting
    <3>3. CASE Grow(c)
      BY <3>3 DEF Grow, Labels, Redirecting
    <3>4. CASE Recv(c)
      BY <3>4 DEF Recv, Labels, Redirecting
    <3>5. CASE RecvEnd(c) \/ RecvFails(c) \/ Work(c) \/ Close(c)
      BY <3>5 DEF RecvEnd, RecvFails, Work, Close, Labels, Redirecting
    <3> QED  BY <1>1, <3>1, <3>2, <3>3, <3>4, <3>5
  <2>4. ASSUME NEW d \in Clients
        PROVE  pc'[d] = pc[d] \/ (pc[d] \notin Redirecting /\ pc'[d] \notin Redirecting)
    <3>1. pc[c] \notin Redirecting
      BY <2>2 DEF Redirecting
    <3>2. ASSUME NEW l \in Labels \ Redirecting, Goto(c, l)
          PROVE  pc'[d] = pc[d] \/ (pc[d] \notin Redirecting /\ pc'[d] \notin Redirecting)
      BY <3>1, <3>2, PcMoves
    <3> QED  BY <2>3, <3>2
  <2>5. CASE Close(c)
    <3>1. /\ stdout' = stdout /\ savedfd' = savedfd /\ held' = held /\ astray' = astray
          /\ disturbed' = disturbed /\ fullyBuffered' = fullyBuffered
      BY <2>5 DEF Close
    <3>2. (~fullyBuffered => held = {})' /\ OutputToItsClient'
      BY <3>1 DEF Redirection, OutputToItsClient
    <3> QED  BY <2>4, <3>1, <3>2, RedirectionElsewhere
  <2>6. CASE ~Close(c)
    <3>1. output' = output \/ Prints(Log)
      BY <1>1, <2>6, OthersLog
    <3> QED  BY <2>4, <3>1, LogIsNoAnswer, RedirectionElsewhere
  <2> QED  BY <2>5, <2>6
<1>2. ASSUME NEW c \in Clients, Aim(c) \/ Output(c) \/ Restore(c) PROVE Redirection'
  BY <1>2, RedirectionHeld, RedirectionOutput DEF Redirection
<1>3. ASSUME NEW c \in Clients, repsondingThread(c) PROVE Redirection'
  BY <1>1, <1>2, <1>3, RedirectionDup DEF repsondingThread
<1>4. CASE UNCHANGED <<pc, output>>
  BY <1>4, LogIsNoAnswer, RedirectionElsewhere
<1>5. ASSUME NEW c \in Clients, Leave(c) \/ \E line \in Lines : Send(c, line)
      PROVE  UNCHANGED <<pc, output>>
  BY <1>5 DEF Leave, Send
<1>6. UNCHANGED vars => UNCHANGED <<pc, output>>
  BY DEF vars
<1>7. CASE Signal
  <2>1. ASSUME NEW d \in Clients
        PROVE  pc'[d] = pc[d] \/ (pc[d] \notin Redirecting /\ pc'[d] \notin Redirecting)
    <3>1. ASSUME NEW c \in Clients, pc[c] = "recv", Goto(c, "failed")
          PROVE  pc'[d] = pc[d] \/ (pc[d] \notin Redirecting /\ pc'[d] \notin Redirecting)
      BY <3>1, PcMoves DEF Redirecting
    <3> QED  BY <1>7, <3>1 DEF Signal
  <2>2. output' = output
    BY <1>7 DEF Signal
  <2> QED  BY <2>1, <2>2, LogIsNoAnswer, RedirectionElsewhere
<1> QED  BY <1>3, <1>4, <1>5, <1>6, <1>7 DEF Next, Finished

LEMMA RedirectionInvariance == Spec => []Redirection
BY TInvariance, RedirectionInit, RedirectionStep, PTL DEF Spec

(* After the commands that point the stdout of the process at a client have *)
(* ended, it is the console again, if no two of them overlapped and no dup  *)
(* failed.                                                                  *)
THEOREM RedirectionIsUndone == Spec => []StdoutComesBack
<1>1. Redirection => StdoutComesBack
  BY DEF Redirection, ConsoleOtherwise, StdoutComesBack
<1> QED  BY <1>1, RedirectionInvariance, PTL

(* What a command prints between its two dup2 calls reaches its own client  *)
(* and nobody else, under the same proviso and if stdio holds nothing back. *)
(* Only log lines, which any thread prints at any time, come to a client    *)
(* for whom they were not meant.                                            *)
THEOREM OutputIsPrivate == Spec => []OutputToItsClient
BY RedirectionInvariance, PTL DEF Redirection

-----------------------------------------------------------------------------
(* Framing.  A session that goes on is at the start of a line whenever it   *)
(* begins a message, and the message it executes ends with a newline.  Of a *)
(* waiting client at most one line is under way.                            *)

AtLineStart(c) == base[c] = 0 \/ stream[c][base[c]] = Newline \/ tossed[c]

Framing(c) ==
    /\ base[c] + totalBytesRecvd[c] <= Len(stream[c])
    /\ pc[c] = "recv" => threadActive[c]
    /\ (threadActive[c] \/ pc[c] = "execute") => AtLineStart(c)
    /\ (threadActive[c] /\ pc[c] = "execute") =>
          totalBytesRecvd[c] > 0 /\ stream[c][base[c] + totalBytesRecvd[c]] = Newline
    /\ c \in Patient => \A p \in base[c] + 1 .. Len(stream[c]) - 1 : stream[c][p] # Newline

(* What was executed lies behind base; the rest are the two properties.     *)
Executed(c) ==
    /\ \A i \in DOMAIN done[c] :
          /\ done[c][i].at <= base[c]
          /\ done[c][i].at # 0 => StartsLine(c, done[c][i].at) \/ tossed[c]
          /\ \A q \in done[c][i].args : q <= base[c] /\ done[c][i].at # 0
          /\ c \in Patient =>
                \A q \in done[c][i].args : \/ SameLine(c, done[c][i].at, q)
                                           \/ q = 0 /\ Fills(c, done[c][i].at)
    /\ \A i, j \in DOMAIN done[c] :
          i < j /\ done[c][j].at # 0 => done[c][i].at < done[c][j].at

FInv == \A c \in Clients : Framing(c) /\ Executed(c)

LEMMA FInvInit == Init => FInv
<1> SUFFICES ASSUME Init, NEW c \in Clients PROVE Framing(c) /\ Executed(c)
  BY DEF FInv
<1>1. /\ stream[c] = <<>> /\ pc[c] = "loop" /\ base[c] = 0 /\ totalBytesRecvd[c] = 0
      /\ done[c] = <<>>
  BY DEF Init
<1>2. Len(stream[c]) = 0 /\ DOMAIN done[c] = {}
  BY <1>1
<1>3. Framing(c)
  BY <1>1, <1>2 DEF Framing, AtLineStart
<1>4. Executed(c)
  BY <1>2 DEF Executed
<1> QED  BY <1>3, <1>4

(* A stream only grows at its end.                                          *)
Grows(s, t) == Len(s) <= Len(t) /\ \A p \in 1 .. Len(s) : t[p] = s[p]

LEMMA ExecutedStays ==
    ASSUME TypeOK, TypeOK', NEW c \in Clients, Executed(c),
           done'[c] = done[c], base[c] <= base'[c], base[c] <= Len(stream[c]),
           Grows(stream[c], stream'[c]), tossed[c] => tossed'[c]
    PROVE  Executed(c)'
<1>1. PICK s, t, b, b2, ds : /\ s = stream[c] /\ t = stream'[c] /\ b = base[c] /\ b2 = base'[c]
                         /\ ds = done[c]
  OBVIOUS
<1>2. PICK l, l2 : l = Len(s) /\ l2 = Len(t)
  OBVIOUS
<1>3. b \in Nat /\ b2 \in Nat /\ l \in Nat /\ l2 \in Nat /\ ds \in Seq(Command)
  BY <1>1, <1>2, LenProperties DEF TypeOK
<1>4. b <= b2 /\ b <= l /\ l <= l2 /\ \A p \in 1 .. l : t[p] = s[p]
  BY <1>1, <1>2 DEF Grows
<1>5. ASSUME NEW i \in DOMAIN ds
      PROVE  /\ ds[i].at <= b2
             /\ ds[i].at # 0 => StartsLine(c, ds[i].at)' \/ tossed'[c]
             /\ \A q \in ds[i].args : q <= b2 /\ ds[i].at # 0
             /\ c \in Patient =>
                \A q \in ds[i].args : \/ SameLine(c, ds[i].at, q)'
                                      \/ q = 0 /\ Fills(c, ds[i].at)'
  <2>1. PICK a, r : a = ds[i].at /\ r = ds[i].args
    OBVIOUS
  <2>2. a \in Nat /\ \A q \in r : q \in Nat
    <3>1. ds[i] \in Command
      BY <1>3
    <3> QED  BY <2>1, <3>1 DEF Command
  <2>3. /\ a <= b
        /\ a # 0 => StartsLine(c, a) \/ tossed[c]
        /\ \A q \in r : q <= b /\ a # 0
        /\ c \in Patient => \A q \in r : SameLine(c, a, q) \/ (q = 0 /\ Fills(c, a))
    BY <1>1, <2>1 DEF Executed
  <2>4. a <= b2 /\ \A q \in r : q <= b2 /\ a # 0
    <3>1. \A x \in Nat : x <= b => x <= b2
      BY <1>3, <1>4
    <3> QED  BY <2>2, <2>3, <3>1, Zenon
  <2>5. ASSUME a # 0 PROVE StartsLine(c, a)' \/ tossed'[c]
    <3>1. CASE tossed[c]
      BY <3>1
    <3>2. CASE a = 1
      BY <3>2 DEF StartsLine
    <3>3. CASE a # 1 /\ s[a - 1] = Newline
      <4>1. a - 1 \in 1 .. l
        BY <1>3, <1>4, <2>2, <2>3, <2>5, <3>3
      <4>2. t[a - 1] = Newline
        BY <1>4, <3>3, <4>1
      <4> QED  BY <1>1, <4>2 DEF StartsLine
    <3> QED  BY <1>1, <2>3, <2>5, <3>1, <3>2, <3>3 DEF StartsLine
  <2>6. ASSUME c \in Patient, NEW q \in r
        PROVE  SameLine(c, a, q)' \/ (q = 0 /\ Fills(c, a)')
    <3>1. q <= b /\ a # 0 /\ q \in Nat
      BY <2>2, <2>3
    <3>2. CASE SameLine(c, a, q)
      <4>1. a < q /\ \A i2 \in a .. q - 1 : s[i2] # Newline
        BY <1>1, <3>2 DEF SameLine
      <4>2. \A i2 \in a .. q - 1 : i2 \in 1 .. l
        BY <1>3, <1>4, <2>2, <3>1
      <4>3. \A i2 \in a .. q - 1 : t[i2] # Newline
        BY <1>4, <4>1, <4>2
      <4> QED  BY <1>1, <4>1, <4>3 DEF SameLine
    <3>3. CASE q = 0 /\ Fills(c, a)
      <4>1. PICK m \in Int : m = a + RECV_BUFFER_LENGTH_BYTES - 1
        BY <2>2, SessionAssumption
      <4>2. m <= l /\ \A i2 \in a .. m - 1 : s[i2] # Newline
        BY <1>1, <1>2, <3>3, <4>1 DEF Fills
      <4>3. \A i2 \in a .. m - 1 : i2 \in 1 .. l
        BY <1>3, <2>2, <3>1, <4>2
      <4>4. m <= l2 /\ \A i2 \in a .. m - 1 : t[i2] # Newline
        BY <1>3, <1>4, <4>2, <4>3
      <4> QED  BY <1>1, <1>2, <3>3, <4>1, <4>4 DEF Fills
    <3> QED  BY <2>3, <2>6, <3>2, <3>3
  <2> QED  BY <2>1, <2>4, <2>5, <2>6
<1>6. \A i, j \in DOMAIN ds : i < j /\ ds[j].at # 0 => ds[i].at < ds[j].at
  BY <1>1 DEF Executed
<1>7. done'[c] = ds /\ base'[c] = b2
  BY <1>1
<1> QED  BY <1>5, <1>6, <1>7 DEF Executed

LEMMA GrowsStays ==
    ASSUME NEW S, NEW s \in Seq(S) PROVE Grows(s, s)
BY LenProperties DEF Grows

(* A client none of whose variables change.                                 *)
LEMMA FramingStays ==
    ASSUME TypeOK, TypeOK', NEW c \in Clients, Framing(c), Executed(c),
           stream'[c] = stream[c], pc'[c] = pc[c], threadActive'[c] = threadActive[c],
           base'[c] = base[c], totalBytesRecvd'[c] = totalBytesRecvd[c],
           tossed'[c] = tossed[c], done'[c] = done[c]
    PROVE  Framing(c)' /\ Executed(c)'
<1>1. Framing(c)'
  BY DEF Framing, AtLineStart
<1>2. stream[c] \in Seq(Words \cup {Newline}) /\ base[c] \in Nat /\ totalBytesRecvd[c] \in Nat
  BY DEF TypeOK
<1>3. base[c] <= Len(stream[c]) /\ base[c] <= base'[c]
  BY <1>2, LenProperties DEF Framing
<1>4. Grows(stream[c], stream'[c])
  BY <1>2, GrowsStays
<1>5. Executed(c)'
  BY <1>3, <1>4, ExecutedStays
<1> QED  BY <1>1, <1>5

LEMMA FramingSend ==
    ASSUME TypeOK, TypeOK', NEW c \in Clients, NEW line \in Lines, Send(c, line),
           Framing(c), Executed(c)
    PROVE  Framing(c)' /\ Executed(c)'
<1>1. PICK k \in 1 .. Len(line) : stream' = [stream EXCEPT ![c] = @ \o SubSeq(line, 1, k)]
  BY DEF Send
<1>2. PICK s, u, t : s = stream[c] /\ u = SubSeq(line, 1, k) /\ t = s \o u
  OBVIOUS
<1>3. line \in Seq(Symbols) /\ s \in Seq(Symbols) /\ t = stream'[c]
      /\ \A i \in 1 .. Len(line) - 1 : line[i] # Newline
  BY <1>1, <1>2, SessionAssumption DEF TypeOK, Symbols
<1>4. u \in Seq(Symbols) /\ Len(u) = k /\ \A i \in 1 .. k : u[i] = line[i]
  BY <1>2, <1>3, LenProperties, SubSeqProperties
<1>5. PICK l \in Nat : l = Len(s)
  BY <1>3, LenProperties
<1>6. t \in Seq(Symbols) /\ Len(t) = l + k /\ \A i \in 1 .. l + k :
          t[i] = IF i <= l THEN s[i] ELSE u[i - l]
  BY <1>2, <1>3, <1>4, <1>5, ConcatProperties, SMTT(30)
<1>7. \A i \in 1 .. l : i \in 1 .. l + k /\ i <= l
  OBVIOUS
<1>8. Len(t) = l + k /\ l <= l + k /\ \A i \in 1 .. l : t[i] = s[i]
  BY <1>6, <1>7
<1>9. /\ pc' = pc /\ threadActive' = threadActive /\ base' = base
      /\ totalBytesRecvd' = totalBytesRecvd /\ tossed' = tossed /\ done' = done
  BY DEF Send, frame
<1>10. PICK b \in Nat, n \in Nat : b = base[c] /\ n = totalBytesRecvd[c]
  BY DEF TypeOK
<1>11. b + n <= l
  BY <1>2, <1>5, <1>10 DEF Framing
<1>12. Executed(c)'
  <2>1. Grows(stream[c], stream'[c])
    BY <1>2, <1>3, <1>5, <1>8 DEF Grows
  <2>2. base[c] <= base'[c] /\ base[c] <= Len(stream[c])
    BY <1>2, <1>5, <1>9, <1>10, <1>11
  <2> QED  BY <1>9, <2>1, <2>2, ExecutedStays
<1>13. b + n <= Len(t)
  BY <1>8, <1>11
<1>14. ASSUME threadActive[c] \/ pc[c] = "execute"
       PROVE  b = 0 \/ t[b] = Newline \/ tossed[c]
  <2>1. b = 0 \/ s[b] = Newline \/ tossed[c]
    BY <1>2, <1>10, <1>14 DEF Framing, AtLineStart
  <2>2. b # 0 => b \in 1 .. l
    BY <1>11
  <2> QED  BY <1>8, <2>1, <2>2
<1>15. ASSUME threadActive[c] /\ pc[c] = "execute" PROVE n > 0 /\ t[b + n] = Newline
  <2>1. n > 0 /\ s[b + n] = Newline
    BY <1>2, <1>10, <1>15 DEF Framing
  <2>2. b + n \in 1 .. l
    BY <1>11, <2>1
  <2> QED  BY <1>8, <2>1, <2>2
<1>16. ASSUME c \in Patient, NEW p \in b + 1 .. Len(t) - 1 PROVE t[p] # Newline
  <2>1. b = l
    BY <1>2, <1>5, <1>10, <1>16 DEF Send
  <2>2. p \in 1 .. l + k /\ ~(p <= l) /\ p - l \in 1 .. k /\ p - l \in 1 .. Len(line) - 1
    BY <1>3, <1>8, <2>1, LenProperties
  <2>3. t[p] = line[p - l]
    BY <1>4, <1>6, <2>2
  <2> QED  BY <1>3, <2>2, <2>3
<1>17. pc[c] = "recv" => threadActive[c]
  BY DEF Framing
<1>18. Framing(c)'
  BY <1>3, <1>9, <1>10, <1>13, <1>14, <1>15, <1>16, <1>17 DEF Framing, AtLineStart
<1> QED  BY <1>12, <1>18

(* The steps of the thread that execute nothing.                            *)
LEMMA FramingRecv ==
    ASSUME TypeOK, TypeOK', NEW c \in Clients, Framing(c), Executed(c),
           SessionTest(c) \/ Grow(c) \/ Recv(c) \/ RecvEnd(c) \/ RecvFails(c)
    PROVE  Framing(c)' /\ Executed(c)'
<1>0. PICK s : s = stream[c]
  OBVIOUS
<1>1. PICK l \in Nat : s = stream[c] /\ l = Len(s)
  BY <1>0, LenProperties DEF TypeOK
<1>2. PICK b \in Nat, n \in Nat : b = base[c] /\ n = totalBytesRecvd[c]
  BY DEF TypeOK
<1>3. stream' = stream /\ done' = done
  BY DEF SessionTest, Grow, Recv, RecvEnd, RecvFails, input
<1>4. /\ b + n <= l
      /\ pc[c] = "recv" => threadActive[c]
      /\ (threadActive[c] \/ pc[c] = "execute") => b = 0 \/ s[b] = Newline \/ tossed[c]
      /\ c \in Patient => \A p \in b + 1 .. l - 1 : s[p] # Newline
  BY <1>1, <1>2 DEF Framing, AtLineStart
<1>5. s \in Seq(Words \cup {Newline}) /\ b <= l
  BY <1>1, <1>4, SMTT(30) DEF TypeOK
<1>6. Grows(stream[c], stream'[c])
  BY <1>1, <1>3, <1>5, GrowsStays
<1>7. CASE SessionTest(c)
  <2>1. base' = base /\ tossed' = tossed /\ threadActive' = threadActive
        /\ totalBytesRecvd'[c] = 0
    BY <1>7 DEF SessionTest, TypeOK
  <2>2. pc'[c] \in {"recv", "close"} /\ (pc'[c] = "recv" => threadActive[c]) /\ pc[c] = "loop"
    BY <1>7, PcMoves DEF SessionTest
  <2>3. base[c] <= base'[c] /\ b + 0 <= l
    BY <1>2, <1>5, <2>1
  <2>4. Executed(c)'
    BY <1>1, <1>2, <1>3, <1>5, <1>6, <2>1, <2>3, ExecutedStays
  <2>5. Framing(c)'
    BY <1>1, <1>2, <1>3, <1>4, <2>1, <2>2, <2>3 DEF Framing, AtLineStart
  <2> QED  BY <2>4, <2>5
<1>8. CASE Grow(c)
  <2>1. threadActive' = threadActive /\ pc[c] = "recv" /\ threadActive[c]
    BY <1>4, <1>8 DEF Grow
  <2>2. CASE pc' = pc /\ base' = base /\ tossed' = tossed /\ totalBytesRecvd' = totalBytesRecvd
    BY <1>3, <2>1, <2>2, FramingStays
  <2>3. CASE /\ base' = [base EXCEPT ![c] = @ + totalBytesRecvd[c]]
             /\ totalBytesRecvd' = [totalBytesRecvd EXCEPT ![c] = 0]
             /\ tossed' = [tossed EXCEPT ![c] = TRUE]
             /\ Goto(c, "loop")
    <3>1. base'[c] = b + n /\ totalBytesRecvd'[c] = 0 /\ tossed'[c] /\ pc'[c] = "loop"
      BY <1>2, <2>3, PcMoves DEF TypeOK
    <3>2. base[c] <= base'[c] /\ (b + n) + 0 <= l
      BY <1>2, <1>4, <3>1
    <3>3. Executed(c)'
      BY <1>1, <1>2, <1>3, <1>5, <1>6, <3>1, <3>2, ExecutedStays
    <3>4. c \in Patient => \A p \in (b + n) + 1 .. l - 1 : s[p] # Newline
      <4>1. \A p \in (b + n) + 1 .. l - 1 : p \in b + 1 .. l - 1
        OBVIOUS
      <4> QED  BY <1>4, <4>1
    <3>5. Framing(c)'
      BY <1>1, <1>3, <3>1, <3>2, <3>4 DEF Framing, AtLineStart
    <3> QED  BY <3>3, <3>5
  <2> QED  BY <1>8, <2>2, <2>3 DEF Grow
<1>9. CASE Recv(c)
  <2>1. PICK m \in 1 .. bufferCapacity[c] - totalBytesRecvd[c] :
          /\ m <= Available(c)
          /\ totalBytesRecvd' = [totalBytesRecvd EXCEPT ![c] = @ + m]
          /\ Goto(c, IF stream[c][base[c] + totalBytesRecvd[c] + m] = Newline
                       THEN "execute" ELSE "recv")
    BY <1>9 DEF Recv
  <2>2. base' = base /\ tossed' = tossed /\ threadActive' = threadActive /\ pc[c] = "recv"
        /\ threadActive[c]
    BY <1>4, <1>9 DEF Recv
  <2>3. totalBytesRecvd'[c] = n + m /\ m \in Int /\ m >= 1
    BY <1>2, <2>1 DEF TypeOK
  <2>4. b + (n + m) <= l /\ n + m > 0 /\ b + n + m = b + (n + m)
    BY <1>1, <1>2, <2>1, <2>3, SMTT(30) DEF Available
  <2>5. pc'[c] \in {"recv", "execute"} /\ (pc'[c] = "execute" => s[b + (n + m)] = Newline)
    BY <1>1, <1>2, <2>1, <2>4, PcMoves
  <2>6. base[c] <= base'[c]
    BY <1>2, <2>2
  <2>7. Executed(c)'
    BY <1>1, <1>2, <1>3, <1>5, <1>6, <2>2, <2>6, ExecutedStays
  <2>8. Framing(c)'
    BY <1>1, <1>2, <1>3, <1>4, <2>2, <2>3, <2>4, <2>5 DEF Framing, AtLineStart
  <2> QED  BY <2>7, <2>8
<1>10. CASE RecvEnd(c) \/ RecvFails(c)
  <2>1. base' = base /\ tossed' = tossed /\ totalBytesRecvd' = totalBytesRecvd /\ pc[c] = "recv"
        /\ threadActive[c]
    BY <1>4, <1>10 DEF RecvEnd, RecvFails, frame
  <2>2. base[c] <= base'[c]
    BY <1>2, <2>1
  <2>3. \/ pc'[c] = "execute" /\ ~threadActive'[c]
        \/ pc'[c] = "failed" /\ threadActive' = threadActive
    BY <1>10, PcMoves DEF RecvEnd, RecvFails, TypeOK
  <2>4. Executed(c)'
    BY <1>1, <1>2, <1>3, <1>5, <1>6, <2>1, <2>2, ExecutedStays
  <2>5. Framing(c)'
    BY <1>1, <1>2, <1>3, <1>4, <2>1, <2>3 DEF Framing, AtLineStart
  <2> QED  BY <2>4, <2>5
<1> QED  BY <1>7, <1>8, <1>9, <1>10

LEMMA FramingExecute ==
    ASSUME TypeOK, TypeOK', NEW c \in Clients, Framing(c), Execute(c)
    PROVE  Framing(c)'
<1>1. PICK s : s = stream[c]
  OBVIOUS
<1>2. PICK l \in Nat : l = Len(s)
  BY <1>1, LenProperties DEF TypeOK
<1>3. PICK b \in Nat, n \in Nat : b = base[c] /\ n = totalBytesRecvd[c]
  BY DEF TypeOK
<1>4. base'[c] = b + n /\ totalBytesRecvd'[c] = 0 /\ stream' = stream /\ tossed' = tossed
      /\ pc[c] = "execute"
  BY <1>3 DEF Execute, TypeOK, input
<1>5. pc'[c] \in {"loop", "work", "prepare"} /\ (threadActive'[c] => threadActive[c])
  BY ExecuteMoves, PcMoves
<1>6. /\ b + n <= l
      /\ threadActive[c] => n > 0 /\ s[b + n] = Newline
      /\ c \in Patient => \A p \in b + 1 .. l - 1 : s[p] # Newline
  BY <1>1, <1>2, <1>3, <1>4 DEF Framing
<1>7. c \in Patient => \A p \in (b + n) + 1 .. l - 1 : s[p] # Newline
  <2>1. \A p \in (b + n) + 1 .. l - 1 : p \in b + 1 .. l - 1
    OBVIOUS
  <2> QED  BY <1>6, <2>1
<1>8. (b + n) + 0 <= l
  BY <1>6
<1> QED  BY <1>1, <1>2, <1>4, <1>5, <1>6, <1>7, <1>8 DEF Framing, AtLineStart

Arguments(tokens) == {tokens[i] : i \in (2 .. 5) \cap DOMAIN tokens}

(* The command that a message yields: behind everything executed before, at *)
(* the start of a line, and for a waiting client with its own arguments.    *)
LEMMA NewCommand ==
    ASSUME TypeOK, NEW c \in Clients, Framing(c), pc[c] = "execute",
           NEW tokens \in Tokens(c), tokens # <<>>,
           NEW a, a = Head(tokens),
           NEW r, r = Arguments(tokens)
    PROVE  /\ a \in Nat /\ a <= base[c] + totalBytesRecvd[c]
           /\ a # 0 => base[c] < a /\ (StartsLine(c, a) \/ tossed[c])
           /\ \A q \in r : q \in Nat /\ q <= base[c] + totalBytesRecvd[c] /\ a # 0
           /\ c \in Patient => \A q \in r : SameLine(c, a, q) \/ (q = 0 /\ Fills(c, a))
<1>1. PICK s : s = stream[c]
  OBVIOUS
<1>2. PICK l \in Nat : l = Len(s)
  BY <1>1, LenProperties DEF TypeOK
<1>3. PICK b \in Nat, n \in Nat : b = base[c] /\ n = totalBytesRecvd[c]
  BY DEF TypeOK
<1>4. /\ a \in Nat
      /\ a # 0 => /\ a \in b + 1 .. b + n
                  /\ \A p \in b + 1 .. a - 1 : s[p] = Newline
      /\ \A q \in r : /\ q \in Nat /\ a # 0
                      /\ \/ q \in b + 1 .. b + n /\ a < q
                         \/ q = 0 /\ n >= RECV_BUFFER_LENGTH_BYTES
  BY <1>1, <1>3, TokenFacts DEF Arguments
<1>5. /\ b + n <= l /\ (b = 0 \/ s[b] = Newline \/ tossed[c])
      /\ c \in Patient => \A p \in b + 1 .. l - 1 : s[p] # Newline
  BY <1>1, <1>2, <1>3 DEF Framing, AtLineStart
<1>6. a <= b + n /\ (a # 0 => b < a)
  BY <1>4
<1>7. ASSUME a # 0 PROVE StartsLine(c, a) \/ tossed[c]
  <2>1. CASE a = b + 1
    <3>1. b = 0 => a = 1
      BY <2>1
    <3>2. a - 1 = b
      BY <2>1
    <3> QED  BY <1>1, <1>5, <3>1, <3>2 DEF StartsLine
  <2>2. CASE a # b + 1
    <3>1. a - 1 \in b + 1 .. a - 1
      BY <1>4, <1>7, <2>2
    <3>2. s[a - 1] = Newline
      BY <1>4, <1>7, <3>1
    <3> QED  BY <1>1, <3>2 DEF StartsLine
  <2> QED  BY <2>1, <2>2
<1>8. ASSUME NEW q \in r PROVE q \in Nat /\ q <= b + n /\ a # 0
  <2>1. q \in Nat /\ a # 0 /\ (q \in b + 1 .. b + n \/ q = 0)
    BY <1>4
  <2> QED  BY <2>1
<1>9. ASSUME c \in Patient, NEW q \in r PROVE SameLine(c, a, q) \/ (q = 0 /\ Fills(c, a))
  <2>1. a # 0 /\ a \in b + 1 .. b + n /\ \A p \in b + 1 .. l - 1 : s[p] # Newline
    BY <1>4, <1>5, <1>9
  <2>2. CASE q \in b + 1 .. b + n /\ a < q
    <3>1. \A i \in a .. q - 1 : i \in b + 1 .. l - 1
      BY <1>5, <2>1, <2>2
    <3>2. \A i \in a .. q - 1 : s[i] # Newline
      BY <2>1, <3>1
    <3> QED  BY <1>1, <2>2, <3>2 DEF SameLine
  <2>3. CASE q = 0 /\ n >= RECV_BUFFER_LENGTH_BYTES
    <3>1. a = b + 1
      <4>1. CASE a # b + 1
        <5>1. b + 1 \in b + 1 .. a - 1 /\ b + 1 \in b + 1 .. l - 1
          BY <1>5, <2>1, <4>1
        <5>2. s[b + 1] = Newline
          BY <1>4, <2>1, <5>1
        <5>3. s[b + 1] # Newline
          BY <2>1, <5>1
        <5> QED  BY <5>2, <5>3
      <4> QED  BY <4>1
    <3>2. PICK m \in Int : m = a + RECV_BUFFER_LENGTH_BYTES - 1
      BY <1>4, SessionAssumption
    <3>3. m <= l
      BY <1>5, <2>3, <3>1, <3>2, SessionAssumption
    <3>4. \A i \in a .. m - 1 : i \in b + 1 .. l - 1
      BY <3>1, <3>3
    <3>5. \A i \in a .. m - 1 : s[i] # Newline
      BY <2>1, <3>4
    <3> QED  BY <1>1, <1>2, <2>3, <3>2, <3>3, <3>5 DEF Fills
  <2>4. \/ q \in b + 1 .. b + n /\ a < q
        \/ q = 0 /\ n >= RECV_BUFFER_LENGTH_BYTES
    BY <1>4
  <2> QED  BY <2>2, <2>3, <2>4
<1> QED  BY <1>3, <1>4, <1>6, <1>7, <1>8, <1>9

LEMMA ExecutedExecute ==
    ASSUME TypeOK, TypeOK', NEW c \in Clients, Framing(c), Executed(c), Execute(c)
    PROVE  Executed(c)'
<1>1. stream[c] \in Seq(Words \cup {Newline}) /\ stream' = stream /\ tossed' = tossed
  BY DEF Execute, input, TypeOK
<1>2. PICK b \in Nat, n \in Nat : b = base[c] /\ n = totalBytesRecvd[c]
  BY DEF TypeOK
<1>3. base'[c] = b + n /\ b <= b + n /\ b <= Len(stream[c])
  BY <1>1, <1>2, LenProperties DEF Execute, TypeOK, Framing
<1>4. CASE done' = done
  <2>1. Grows(stream[c], stream'[c])
    BY <1>1, GrowsStays
  <2> QED  BY <1>1, <1>2, <1>3, <1>4, <2>1, ExecutedStays
<1>5. ASSUME NEW tokens \in Tokens(c), tokens # <<>>,
             done' = [done EXCEPT ![c] =
                Append(@, [at   |-> Head(tokens),
                           args |-> {tokens[i] : i \in (2 .. 5) \cap DOMAIN tokens}])]
      PROVE  Executed(c)'
  <2>1. PICK a, r : a = Head(tokens) /\ r = {tokens[i] : i \in (2 .. 5) \cap DOMAIN tokens}
    OBVIOUS
  <2>2. PICK e, ds : e = [at |-> a, args |-> r] /\ ds = done[c]
    OBVIOUS
  <2>3. done'[c] = Append(ds, e)
    BY <1>5, <2>1, <2>2 DEF TypeOK
  <2>4. e \in Command /\ ds \in Seq(Command) /\ e.at = a /\ e.args = r
    BY <1>5, <2>1, <2>2, CommandIsTyped DEF TypeOK
  <2>5. PICK ds2 : ds2 = done'[c]
    OBVIOUS
  <2>6. PICK m \in Nat : m = Len(ds)
    BY <2>4, LenProperties
  <2>7. /\ Len(ds2) = m + 1 /\ ds2[m + 1] = e /\ ds2 \in Seq(Command)
        /\ \A i \in 1 .. m : ds2[i] = ds[i]
    BY <2>3, <2>4, <2>5, <2>6, AppendProperties
  <2>8. DOMAIN ds = 1 .. m /\ DOMAIN ds2 = 1 .. m + 1
    BY <2>4, <2>6, <2>7, LenProperties
  <2>9. /\ a \in Nat /\ a <= b + n
        /\ a # 0 => b < a /\ (StartsLine(c, a) \/ tossed[c])
        /\ \A q \in r : q <= b + n /\ a # 0
        /\ c \in Patient => \A q \in r : SameLine(c, a, q) \/ (q = 0 /\ Fills(c, a))
    <3>1. pc[c] = "execute"
      BY DEF Execute
    <3>2. tokens \in Tokens(c) /\ tokens # <<>> /\ a = Head(tokens) /\ r = Arguments(tokens)
      BY <1>5, <2>1 DEF Arguments
    <3>3. /\ a \in Nat /\ a <= base[c] + totalBytesRecvd[c]
          /\ a # 0 => base[c] < a /\ (StartsLine(c, a) \/ tossed[c])
          /\ \A q \in r : q \in Nat /\ q <= base[c] + totalBytesRecvd[c] /\ a # 0
          /\ c \in Patient => \A q \in r : SameLine(c, a, q) \/ (q = 0 /\ Fills(c, a))
      BY <3>1, <3>2, NewCommand, Zenon
    <3> QED  BY <1>2, <3>3
  <2>10. ASSUME NEW i \in 1 .. m
         PROVE  /\ ds[i].at \in Nat /\ ds[i].at <= b /\ ds[i].at <= b + n
                /\ ds[i].at # 0 => StartsLine(c, ds[i].at) \/ tossed[c]
                /\ \A q \in ds[i].args : q <= b + n /\ ds[i].at # 0
                /\ c \in Patient =>
                      \A q \in ds[i].args : \/ SameLine(c, ds[i].at, q)
                                            \/ q = 0 /\ Fills(c, ds[i].at)
    <3>1. ds[i] \in Command
      BY <2>4, <2>8
    <3>2. ds[i].at \in Nat /\ \A q \in ds[i].args : q \in Nat
      BY <3>1 DEF Command
    <3>3. /\ ds[i].at <= b
          /\ ds[i].at # 0 => StartsLine(c, ds[i].at) \/ tossed[c]
          /\ \A q \in ds[i].args : q <= b /\ ds[i].at # 0
          /\ c \in Patient =>
                \A q \in ds[i].args : \/ SameLine(c, ds[i].at, q)
                                      \/ q = 0 /\ Fills(c, ds[i].at)
      BY <1>2, <2>2, <2>8 DEF Executed
    <3>4. \A x \in Nat : x <= b => x <= b + n
      OBVIOUS
    <3> QED  BY <3>2, <3>3, <3>4, Zenon
  <2>11. \A p, q : /\ StartsLine(c, p)' <=> StartsLine(c, p)
                   /\ SameLine(c, p, q)' <=> SameLine(c, p, q)
                   /\ Fills(c, p)' <=> Fills(c, p)
    BY <1>1 DEF StartsLine, SameLine, Fills
  <2>12. ASSUME NEW i \in DOMAIN ds2
         PROVE  /\ ds2[i].at <= b + n
                /\ ds2[i].at # 0 => StartsLine(c, ds2[i].at)' \/ tossed'[c]
                /\ \A q \in ds2[i].args : q <= b + n /\ ds2[i].at # 0
                /\ c \in Patient =>
                      \A q \in ds2[i].args : \/ SameLine(c, ds2[i].at, q)'
                                             \/ q = 0 /\ Fills(c, ds2[i].at)'
    <3>1. CASE i = m + 1
      <4>1. ds2[i].at = a /\ ds2[i].args = r
        BY <2>4, <2>7, <3>1
      <4> QED  BY <1>1, <2>9, <2>11, <4>1, Zenon
    <3>2. CASE i \in 1 .. m
      <4>1. ds2[i] = ds[i]
        BY <2>7, <3>2
      <4> QED  BY <1>1, <2>10, <2>11, <3>2, <4>1, Zenon
    <3>3. i = m + 1 \/ i \in 1 .. m
      BY <2>8
    <3> QED  BY <3>1, <3>2, <3>3
  <2>13. ASSUME NEW i \in DOMAIN ds2, NEW j \in DOMAIN ds2, i < j, ds2[j].at # 0
         PROVE  ds2[i].at < ds2[j].at
    <3>1. i \in 1 .. m /\ (j = m + 1 \/ j \in 1 .. m)
      BY <2>8, <2>13
    <3>2. ds2[i] = ds[i]
      BY <2>7, <3>1
    <3>3. CASE j = m + 1
      <4>1. ds2[j].at = a
        BY <2>4, <2>7, <3>3
      <4>2. ds[i].at \in Nat /\ ds[i].at <= b /\ b < a /\ a \in Nat
        BY <2>9, <2>10, <2>13, <3>1, <4>1
      <4> QED  BY <3>2, <4>1, <4>2
    <3>4. CASE j \in 1 .. m
      <4>1. ds2[j] = ds[j]
        BY <2>7, <3>4
      <4> QED  BY <2>2, <2>8, <2>13, <3>1, <3>2, <3>4, <4>1 DEF Executed
    <3> QED  BY <3>1, <3>3, <3>4
  <2> QED  BY <1>3, <2>5, <2>12, <2>13 DEF Executed
<1> QED  BY <1>4, <1>5, ExecuteMoves

LEMMA FInvStep == TInv /\ TInv' /\ FInv /\ [Next]_vars => FInv'
<1> SUFFICES ASSUME TypeOK, TypeOK', FInv, [Next]_vars, NEW d \in Clients
             PROVE  Framing(d)' /\ Executed(d)'
  BY DEF TInv, FInv
<1>1. Framing(d) /\ Executed(d)
  BY DEF FInv
<1>2. ASSUME NEW c \in Clients, c # d,
             repsondingThread(c) \/ Leave(c) \/ \E line \in Lines : Send(c, line)
      PROVE  Framing(d)' /\ Executed(d)'
  <2>1. stream'[d] = stream[d]
    BY <1>2 DEF repsondingThread, SessionTest, Grow, Recv, RecvEnd, RecvFails, Execute, Work,
                Dup, Aim, Output, Restore, Close, Leave, Send, input, TypeOK
  <2>2. pc'[d] = pc[d]
    <3>1. pc' = pc \/ \E l : Goto(c, l)
      <4>1. CASE Execute(c)
        BY <4>1, ExecuteMoves
      <4>2. CASE SessionTest(c) \/ Grow(c) \/ Recv(c)
        BY <4>2 DEF SessionTest, Grow, Recv
      <4>3. CASE \/ RecvEnd(c) \/ RecvFails(c) \/ Work(c) \/ Dup(c) \/ Aim(c) \/ Output(c)
                 \/ Restore(c) \/ Close(c)
        BY <4>3 DEF RecvEnd, RecvFails, Work, Dup, Aim, Output, Restore, Close
      <4>4. CASE Leave(c) \/ \E line \in Lines : Send(c, line)
        BY <4>4 DEF Leave, Send
      <4> QED  BY <1>2, <4>1, <4>2, <4>3, <4>4 DEF repsondingThread
    <3> QED  BY <1>2, <3>1, PcMoves
  <2>3. threadActive'[d] = threadActive[d]
    <3>1. CASE Execute(c)
      BY <1>2, <3>1, ExecuteMoves
    <3> QED  BY <1>2, <3>1 DEF repsondingThread, SessionTest, Grow, Recv, RecvEnd, RecvFails, Work,
                Dup, Aim, Output, Restore, Close, Leave, Send, TypeOK
  <2>4. base'[d] = base[d] /\ totalBytesRecvd'[d] = totalBytesRecvd[d] /\ tossed'[d] = tossed[d]
    <3>1. CASE SessionTest(c) \/ Recv(c) \/ Execute(c)
      <4>1. base' = base \/ base' = [base EXCEPT ![c] = @ + totalBytesRecvd[c]]
        BY <3>1 DEF SessionTest, Recv, Execute
      <4>2. tossed' = tossed /\ \E x : totalBytesRecvd' = [totalBytesRecvd EXCEPT ![c] = x]
        BY <3>1 DEF SessionTest, Recv, Execute
      <4> QED  BY <1>2, <4>1, <4>2 DEF TypeOK
    <3>2. CASE Grow(c)
      <4>1. CASE base' = base /\ tossed' = tossed /\ totalBytesRecvd' = totalBytesRecvd
        BY <4>1
      <4>2. CASE /\ base' = [base EXCEPT ![c] = @ + totalBytesRecvd[c]]
                 /\ totalBytesRecvd' = [totalBytesRecvd EXCEPT ![c] = 0]
                 /\ tossed' = [tossed EXCEPT ![c] = TRUE]
        BY <1>2, <4>2 DEF TypeOK
      <4> QED  BY <3>2, <4>1, <4>2 DEF Grow
    <3>3. CASE ~(SessionTest(c) \/ Recv(c) \/ Execute(c) \/ Grow(c))
      <4>1. frame' = frame
        BY <1>2, <3>3 DEF repsondingThread, RecvEnd, RecvFails, Work, Dup, Aim, Output, Restore,
                          Close, Leave, Send
      <4> QED  BY <4>1 DEF frame
    <3> QED  BY <3>1, <3>2, <3>3
  <2>5. done'[d] = done[d]
    BY <1>2 DEF repsondingThread, SessionTest, Grow, Recv, RecvEnd, RecvFails, Execute, Work,
                Dup, Aim, Output, Restore, Close, Leave, Send, TypeOK
  <2> QED  BY <1>1, <2>1, <2>2, <2>3, <2>4, <2>5, FramingStays
<1>3. ASSUME repsondingThread(d) PROVE Framing(d)' /\ Executed(d)'
  <2>1. CASE Work(d) \/ Dup(d) \/ Aim(d) \/ Output(d) \/ Restore(d) \/ Close(d)
    <3>1. /\ stream' = stream /\ threadActive' = threadActive /\ base' = base
          /\ totalBytesRecvd' = totalBytesRecvd /\ tossed' = tossed /\ done' = done
      BY <2>1 DEF Work, Dup, Aim, Output, Restore, Close, input, frame
    <3>2. pc[d] \notin {"recv", "execute"} /\ pc'[d] \notin {"recv", "execute"}
      BY <2>1, PcMoves DEF Work, Dup, Aim, Output, Restore, Close
    <3>3. Framing(d)'
      BY <1>1, <3>1, <3>2 DEF Framing, AtLineStart
    <3>4. stream[d] \in Seq(Words \cup {Newline}) /\ base[d] \in Nat /\ totalBytesRecvd[d] \in Nat
      BY DEF TypeOK
    <3>5. base[d] <= Len(stream[d]) /\ base[d] <= base'[d]
      BY <1>1, <3>1, <3>4, LenProperties DEF Framing
    <3>6. Executed(d)'
      BY <1>1, <3>1, <3>4, <3>5, GrowsStays, ExecutedStays
    <3> QED  BY <3>3, <3>6
  <2>2. CASE Execute(d)
    BY <1>1, <2>2, FramingExecute, ExecutedExecute
  <2> QED  BY <1>1, <1>3, <2>1, <2>2, FramingRecv DEF repsondingThread
<1>4. CASE UNCHANGED <<stream, pc, threadActive, frame, done>>
  BY <1>1, <1>4, FramingStays DEF frame
<1>5. Leave(d) \/ UNCHANGED vars => UNCHANGED <<stream, pc, threadActive, frame, done>>
  BY DEF Leave, vars, input
<1>6. ASSUME NEW line \in Lines, Send(d, line) PROVE Framing(d)' /\ Executed(d)'
  BY <1>1, <1>6, FramingSend
<1>7. CASE Signal
  <2>1. UNCHANGED <<stream, threadActive, frame, done>> /\ (pc' = pc \/ \E c \in Clients :
           pc[c] = "recv" /\ Goto(c, "failed"))
    BY <1>7 DEF Signal
  <2>2. pc'[d] = pc[d] \/ pc'[d] = "failed"
    BY <2>1, PcMoves
  <2>3. Framing(d)'
    BY <1>1, <2>1, <2>2 DEF Framing, AtLineStart, frame
  <2>4. stream[d] \in Seq(Words \cup {Newline}) /\ base[d] \in Nat /\ totalBytesRecvd[d] \in Nat
    BY DEF TypeOK
  <2>5. base[d] <= Len(stream[d]) /\ base[d] <= base'[d]
    BY <1>1, <2>1, <2>4, LenProperties DEF Framing, frame
  <2>6. Executed(d)'
    BY <1>1, <2>1, <2>4, <2>5, GrowsStays, ExecutedStays DEF frame
  <2> QED  BY <2>3, <2>6
<1> QED  BY <1>2, <1>3, <1>4, <1>5, <1>6, <1>7 DEF Next, Finished

LEMMA FInvariance == Spec => []FInv
BY TInvariance, FInvInit, FInvStep, PTL DEF Spec

(* However recv cuts a client's stream, repsondingThread executes commands  *)
(* in the order in which they were sent, none twice, and takes no argument  *)
(* for a command, unless a message was tossed for want of memory.           *)
THEOREM OrderIsKept == Spec => []CommandsInOrder
<1>1. ASSUME FInv, NEW c \in Clients
      PROVE  /\ \A i, j \in DOMAIN done[c] : i < j /\ done[c][j].at # 0 =>
                    done[c][i].at < done[c][j].at
             /\ \A i \in DOMAIN done[c] : done[c][i].at # 0 =>
                    StartsLine(c, done[c][i].at) \/ tossed[c]
  BY <1>1 DEF FInv, Executed
<1>2. FInv => CommandsInOrder
  BY <1>1 DEF CommandsInOrder
<1> QED  BY <1>2, FInvariance, PTL

(* strtok_r gives the command of a waiting client arguments of its own line *)
(* only, unless the line filled the first buffer to the last byte.          *)
THEOREM ArgumentsAreOwn == Spec => []OwnArguments
<1>1. ASSUME FInv, NEW c \in Patient, NEW i \in DOMAIN done[c], NEW q \in done[c][i].args
      PROVE  SameLine(c, done[c][i].at, q) \/ (q = 0 /\ Fills(c, done[c][i].at))
  <2>1. c \in Clients
    BY SessionAssumption
  <2> QED  BY <1>1, <2>1 DEF FInv, Executed
<1>2. FInv => OwnArguments
  BY <1>1 DEF OwnArguments
<1> QED  BY <1>2, FInvariance, PTL

-----------------------------------------------------------------------------
(* Who hears the text of others.  Whoever stdout, or a copy of it, refers   *)
(* to has run a redirecting command.                                        *)

Heard ==
    /\ \A c \in Clients : pc[c] \in {"prepare", "dup"} \cup Redirecting => HasRedirected(c)
    /\ \A c \in Clients : stdout = c => HasRedirected(c)
    /\ \A c, d \in Clients : savedfd[c] = d => HasRedirected(d)
    /\ OnlyRedirectorsHear

LEMMA HeardInit == Init => Heard
<1> SUFFICES ASSUME Init PROVE Heard
  OBVIOUS
<1>1. stdout \notin Clients /\ \A c \in Clients : savedfd[c] \notin Clients
  BY SessionAssumption DEF Init, Dest
<1>2. \A c \in Clients : pc[c] = "loop" /\ astray[c] = {}
  BY DEF Init, Dest
<1> QED  BY <1>1, <1>2 DEF Heard, OnlyRedirectorsHear, Redirecting

(* A command that was executed stays so, and the stream keeps its word.     *)
LEMMA RedirectedStays ==
    ASSUME TypeOK, TypeOK', FInv, [Next]_vars, NEW c \in Clients, HasRedirected(c)
    PROVE  HasRedirected(c)'
<1>1. PICK s, t, ds, ds2 : s = stream[c] /\ t = stream'[c] /\ ds = done[c] /\ ds2 = done'[c]
  OBVIOUS
<1>2. PICK i \in DOMAIN ds : "show" \in WordAt(c, ds[i].at)
  BY <1>1 DEF HasRedirected
<1>3. PICK a : a = ds[i].at
  OBVIOUS
<1>4. s \in Seq(Symbols) /\ t \in Seq(Symbols) /\ ds \in Seq(Command)
  BY <1>1 DEF TypeOK, Symbols
<1>5. PICK l \in Nat : l = Len(s)
  BY <1>4, LenProperties
<1>6. a \in Nat /\ a <= l
  <2>1. PICK b \in Nat, n \in Nat : b = base[c] /\ n = totalBytesRecvd[c]
    BY DEF TypeOK
  <2>2. ds[i] \in Command
    BY <1>4
  <2>3. a \in Nat
    BY <1>3, <2>2 DEF Command
  <2>4. Framing(c) /\ Executed(c)
    BY DEF FInv
  <2>5. a <= b
    BY <1>1, <1>3, <2>1, <2>4 DEF Executed
  <2>6. b + n <= l
    BY <1>1, <1>5, <2>1, <2>4 DEF Framing
  <2> QED  BY <2>3, <2>5, <2>6
<1>7. \A p \in 1 .. l : t[p] = s[p]
  <2>1. ASSUME NEW line \in Lines, Send(c, line) PROVE \A p \in 1 .. l : t[p] = s[p]
    <3>1. PICK k \in 1 .. Len(line) : stream' = [stream EXCEPT ![c] = @ \o SubSeq(line, 1, k)]
      BY <2>1 DEF Send
    <3>2. PICK u : u = SubSeq(line, 1, k)
      OBVIOUS
    <3>3. line \in Seq(Symbols)
      BY SessionAssumption DEF Symbols
    <3>4. u \in Seq(Symbols)
      BY <3>2, <3>3, SubSeqProperties
    <3>5. t = s \o u
      BY <1>1, <3>1, <3>2 DEF TypeOK
    <3>6. \A p \in 1 .. Len(s) + Len(u) : t[p] = IF p <= Len(s) THEN s[p] ELSE u[p - Len(s)]
      BY <1>4, <3>4, <3>5, ConcatProperties
    <3>7. Len(u) \in Nat
      BY <3>4, LenProperties
    <3>8. \A p \in 1 .. l : p \in 1 .. l + Len(u) /\ p <= l
      BY <3>7
    <3> QED  BY <1>5, <3>6, <3>8
  <2>2. ASSUME NEW d \in Clients, d # c, NEW line \in Lines, Send(d, line) PROVE t = s
    BY <1>1, <2>2 DEF Send, TypeOK
  <2>3. CASE stream' = stream
    BY <1>1, <2>3
  <2>4. ASSUME NEW d \in Clients, repsondingThread(d) \/ Leave(d) PROVE stream' = stream
    BY <2>4 DEF repsondingThread, SessionTest, Grow, Recv, RecvEnd, RecvFails, Execute, Work,
                Dup, Aim, Output, Restore, Close, Leave, input
  <2>5. Signal \/ UNCHANGED vars => stream' = stream
    BY DEF Signal, vars, input
  <2> QED  BY <2>1, <2>2, <2>3, <2>4, <2>5 DEF Next, Finished
<1>8. i \in DOMAIN ds2 /\ ds2[i] = ds[i]
  <2>1. CASE done' = done
    BY <1>1, <2>1
  <2>2. ASSUME NEW d \in Clients, NEW e, done' = [done EXCEPT ![d] = Append(@, e)],
               ds2 \in Seq(Command)
        PROVE  i \in DOMAIN ds2 /\ ds2[i] = ds[i]
    <3>1. CASE d # c
      BY <1>1, <2>2, <3>1 DEF TypeOK
    <3>2. CASE d = c
      <4>1. ds2 = Append(ds, e)
        BY <1>1, <2>2, <3>2 DEF TypeOK
      <4> QED  BY <1>4, <4>1
    <3> QED  BY <3>1, <3>2
  <2>3. ASSUME NEW d \in Clients, Execute(d)
        PROVE  done' = done \/ \E e : done' = [done EXCEPT ![d] = Append(@, e)]
    BY <2>3, ExecuteMoves
  <2>4. ASSUME NEW d \in Clients, ~Execute(d),
               repsondingThread(d) \/ Leave(d) \/ \E line \in Lines : Send(d, line)
        PROVE  done' = done
    BY <2>4 DEF repsondingThread, SessionTest, Grow, Recv, RecvEnd, RecvFails, Work,
                Dup, Aim, Output, Restore, Close, Leave, Send
  <2>5. Signal \/ UNCHANGED vars => done' = done
    BY DEF Signal, vars
  <2>6. ds2 \in Seq(Command)
    BY <1>1 DEF TypeOK
  <2> QED  BY <2>1, <2>2, <2>3, <2>4, <2>5, <2>6 DEF Next, Finished
<1>9. "show" \in WordAt(c, a)'
  <2>1. CASE a = 0
    BY <1>2, <1>3, <2>1 DEF WordAt
  <2>2. CASE a # 0
    <3>1. a \in 1 .. l
      BY <1>6, <2>2
    <3> QED  BY <1>1, <1>2, <1>3, <1>7, <2>2, <3>1 DEF WordAt
  <2> QED  BY <2>1, <2>2
<1> QED  BY <1>1, <1>3, <1>8, <1>9 DEF HasRedirected

(* A thread that goes on to redirect has just executed such a command.      *)
LEMMA ExecuteRedirects ==
    ASSUME TypeOK, NEW c \in Clients, Execute(c), pc'[c] \notin {"loop", "work"}
    PROVE  HasRedirected(c)'
<1>1. ~Goto(c, "loop") /\ ~Goto(c, "work")
  BY PcMoves
<1>2. PICK tokens \in Tokens(c) :
          /\ tokens # <<>>
          /\ done' = [done EXCEPT ![c] =
                Append(@, [at   |-> Head(tokens),
                           args |-> {tokens[i] : i \in (2 .. 5) \cap DOMAIN tokens}])]
          /\ "show" \in WordAt(c, Head(tokens))
  BY <1>1, ExecuteMoves
<1>3. PICK e, ds, ds2 : /\ e = [at   |-> Head(tokens),
                                args |-> {tokens[i] : i \in (2 .. 5) \cap DOMAIN tokens}]
                        /\ ds = done[c] /\ ds2 = done'[c]
  OBVIOUS
<1>4. ds \in Seq(Command) /\ ds2 = Append(ds, e) /\ e.at = Head(tokens)
  BY <1>2, <1>3 DEF TypeOK
<1>5. PICK m \in Nat : m = Len(ds)
  BY <1>4, LenProperties
<1>6. m + 1 \in DOMAIN ds2 /\ ds2[m + 1] = e
  BY <1>4, <1>5
<1>7. stream' = stream
  BY DEF Execute, input
<1>8. "show" \in WordAt(c, e.at)'
  BY <1>2, <1>4, <1>7 DEF WordAt
<1> QED  BY <1>3, <1>6, <1>8 DEF HasRedirected

LEMMA HeardStep == TInv /\ TInv' /\ FInv /\ Heard /\ [Next]_vars => Heard'
<1> SUFFICES ASSUME TypeOK, TypeOK', FInv, Heard, [Next]_vars PROVE Heard'
  BY DEF TInv
<1>1. \A c \in Clients : HasRedirected(c) => HasRedirected(c)'
  BY RedirectedStays
<1>2. /\ \A c \in Clients : pc[c] \in {"prepare", "dup"} \cup Redirecting => HasRedirected(c)
      /\ \A c \in Clients : stdout = c => HasRedirected(c)
      /\ \A c, d \in Clients : savedfd[c] = d => HasRedirected(d)
      /\ \A c \in Clients : astray[c] # {} => HasRedirected(c)
  BY DEF Heard, OnlyRedirectorsHear
<1>3. ASSUME NEW c \in Clients, pc'[c] \in {"prepare", "dup"} \cup Redirecting
      PROVE  HasRedirected(c)'
  <2>1. CASE pc[c] \in {"prepare", "dup"} \cup Redirecting
    BY <1>1, <1>2, <2>1
  <2>2. CASE pc[c] \notin {"prepare", "dup"} \cup Redirecting
    <3>1. Execute(c) /\ pc'[c] \notin {"loop", "work"}
      <4>1. pc' # pc /\ pc'[c] # pc[c]
        BY <1>3, <2>2
      <4>2. ASSUME NEW d \in Clients, NEW x, Goto(d, x) PROVE d = c /\ pc'[c] = x
        BY <4>1, <4>2, PcMoves
      <4>3. pc'[c] \notin {"loop", "recv", "execute", "work", "close", "closed", "failed"}
        BY <1>3 DEF Redirecting
      <4>4. ASSUME NEW d \in Clients, repsondingThread(d) PROVE d = c /\ Execute(c)
        <5>1. CASE Execute(d)
          BY <4>2, <5>1, ExecuteMoves
        <5>2. CASE SessionTest(d) \/ Grow(d) \/ Recv(d)
          BY <4>1, <4>2, <4>3, <5>2 DEF SessionTest, Grow, Recv
        <5>3. CASE RecvEnd(d) \/ RecvFails(d) \/ Restore(d) \/ Close(d)
          BY <4>2, <4>3, <5>3 DEF RecvEnd, RecvFails, Restore, Close
        <5>4. CASE Work(d) \/ Dup(d) \/ Aim(d) \/ Output(d)
          BY <2>2, <4>2, <4>3, <5>4 DEF Work, Dup, Aim, Output, Redirecting
        <5> QED  BY <4>4, <5>1, <5>2, <5>3, <5>4 DEF repsondingThread
      <4>5. ASSUME NEW d \in Clients, Leave(d) \/ \E line \in Lines : Send(d, line) PROVE FALSE
        BY <4>1, <4>5 DEF Leave, Send
      <4>6. ~Signal
        BY <4>1, <4>2, <4>3 DEF Signal
      <4>7. ~UNCHANGED vars
        BY <4>1 DEF vars
      <4> QED  BY <4>3, <4>4, <4>5, <4>6, <4>7 DEF Next, Finished
    <3> QED  BY <3>1, ExecuteRedirects
  <2> QED  BY <2>1, <2>2
<1>4. \/ output' = output
      \/ \E text : Prints(text)
      \/ \E c \in Clients : Dup(c) \/ Aim(c) \/ Restore(c) \/ Close(c)
  <2>1. ASSUME NEW c \in Clients, repsondingThread(c)
        PROVE  \/ output' = output
               \/ \E text : Prints(text)
               \/ Dup(c) \/ Aim(c) \/ Restore(c) \/ Close(c)
    <3>1. CASE Output(c)
      BY <3>1 DEF Output
    <3>2. CASE ~Output(c)
      BY <2>1, <3>2, OthersLog, Zenon DEF repsondingThread
    <3> QED  BY <3>1, <3>2
  <2>2. ASSUME NEW c \in Clients, Leave(c) \/ \E line \in Lines : Send(c, line)
        PROVE  output' = output
    BY <2>2 DEF Leave, Send
  <2>3. Signal \/ UNCHANGED vars => output' = output
    BY DEF Signal, vars
  <2> QED  BY <2>1, <2>2, <2>3 DEF Next, Finished
<1>5. /\ \A d \in Clients : stdout' = d => HasRedirected(d)'
      /\ \A d, e \in Clients : savedfd'[d] = e => HasRedirected(e)'
      /\ \A c \in Clients : astray'[c] # {} => HasRedirected(c)'
  <2>1. CASE UNCHANGED <<stdout, savedfd, astray>>
    BY <1>1, <1>2, <2>1
  <2>2. CASE output' = output
    BY <2>1, <2>2 DEF output
  <2>3. ASSUME NEW text, Prints(text)
        PROVE  /\ \A d \in Clients : stdout' = d => HasRedirected(d)'
               /\ \A d, e \in Clients : savedfd'[d] = e => HasRedirected(e)'
               /\ \A c \in Clients : astray'[c] # {} => HasRedirected(c)'
    <3>1. stdout' = stdout /\ savedfd' = savedfd
      BY <2>3 DEF Prints
    <3>2. ASSUME NEW c \in Clients, astray'[c] # {} PROVE HasRedirected(c)'
      <4>1. c \in Dest
        BY DEF Dest
      <4>2. c = stdout \/ astray'[c] = astray[c]
        BY <2>3, <4>1 DEF Prints, TypeOK
      <4> QED  BY <1>1, <1>2, <3>2, <4>2
    <3> QED  BY <1>1, <1>2, <3>1, <3>2
  <2>4. ASSUME NEW c \in Clients, Dup(c) \/ Aim(c) \/ Restore(c) \/ Close(c)
        PROVE  /\ \A d \in Clients : stdout' = d => HasRedirected(d)'
               /\ \A d, e \in Clients : savedfd'[d] = e => HasRedirected(e)'
               /\ \A d \in Clients : astray'[d] # {} => HasRedirected(d)'
    <3>1. astray' = astray
      BY <2>4 DEF Dup, Aim, Restore, Close
    <3>2. CASE Close(c)
      BY <2>1, <3>1, <3>2 DEF Close
    <3>3. CASE Aim(c)
      <4>1. HasRedirected(c) /\ stdout' = c /\ savedfd' = savedfd
        BY <1>2, <3>3 DEF Aim, Redirecting
      <4> QED  BY <1>1, <1>2, <3>1, <4>1
    <3>4. CASE Dup(c) \/ Restore(c)
      <4>1. None \notin Clients
        BY SessionAssumption DEF Dest
      <4>2. stdout' = stdout \/ stdout' = savedfd[c]
        BY <3>4 DEF Dup, Restore
      <4>3. \A d \in Clients : savedfd'[d] \in {savedfd[d], stdout, None}
        BY <3>4 DEF Dup, Restore, TypeOK
      <4> QED  BY <1>1, <1>2, <3>1, <4>1, <4>2, <4>3
    <3> QED  BY <2>4, <3>2, <3>3, <3>4
  <2> QED  BY <1>4, <2>2, <2>3, <2>4
<1> QED  BY <1>3, <1>5 DEF Heard, OnlyRedirectorsHear

(* Whatever goes through the stdout of the process, log lines, answers to   *)
(* other clients, text that stdio held back, comes only to clients that ran *)
(* a redirecting command themselves.  This needs no proviso: it holds when  *)
(* the redirections of repsondingThread overlap and when dup fails.         *)
THEOREM TextReachesRedirectors == Spec => []OnlyRedirectorsHear
<1>1. Spec => []Heard
  BY TInvariance, FInvariance, HeardInit, HeardStep, PTL DEF Spec
<1> QED  BY <1>1, PTL DEF Heard
=============================================================================
