------------------------- MODULE CommandQueueProofs -------------------------
(***************************************************************************)
(* Proofs about CommandQueue for every number of callers and every size of *)
(* the ring: the mutex discipline, the clearing of slots, and that the     *)
(* ring implements the bounded list of CommandFifo.                        *)
(***************************************************************************)
EXTENDS CommandQueue, SequenceTheorems, TLAPS

-----------------------------------------------------------------------------
(* Arithmetic of the ring                                                   *)

LEMMA ModSmall ==
    ASSUME NEW N \in Nat \ {0}, NEW a \in 0 .. 2 * N - 1
    PROVE  a % N = IF a < N THEN a ELSE a - N
  OBVIOUS

(* The ring without %: indexes wrap once at most.                           *)
LEMMA SlotValue ==
    ASSUME NEW d \in Indexes, NEW i \in 0 .. MAX_QUEUE_SIZE
    PROVE  /\ RingSlot(d, i) = IF d + i < MAX_QUEUE_SIZE THEN d + i ELSE d + i - MAX_QUEUE_SIZE
           /\ RingSlot(d, i) \in Indexes
<1> DEFINE a == d + i
<1>1. a \in 0 .. 2 * MAX_QUEUE_SIZE - 1
  BY SizeAssumption DEF Indexes
<1> HIDE DEF a
<1>2. a % MAX_QUEUE_SIZE = IF a < MAX_QUEUE_SIZE THEN a ELSE a - MAX_QUEUE_SIZE
  BY <1>1, ModSmall, SizeAssumption, Zenon
<1> DEFINE r == a % MAX_QUEUE_SIZE
<1>3. a = d + i /\ RingSlot(d, i) = r
  BY DEF RingSlot, a
<1> HIDE DEF r
<1>4. RingSlot(d, i) = IF d + i < MAX_QUEUE_SIZE THEN d + i ELSE d + i - MAX_QUEUE_SIZE
  <2>1. r = IF a < MAX_QUEUE_SIZE THEN a ELSE a - MAX_QUEUE_SIZE
    BY <1>2, Zenon DEF r
  <2> QED
    BY <1>3, <2>1, SizeAssumption DEF Indexes
<1> QED
  BY <1>4, SizeAssumption DEF Indexes

LEMMA NextValue ==
    ASSUME NEW d \in Indexes
    PROVE  /\ queue_next_index(d) = IF d + 1 < MAX_QUEUE_SIZE THEN d + 1 ELSE 0
           /\ queue_next_index(d) \in Indexes
<1>1. queue_next_index(d) = RingSlot(d, 1)
  BY DEF queue_next_index, RingSlot
<1>2. 1 \in 0 .. MAX_QUEUE_SIZE
  BY SizeAssumption
<1>3. /\ RingSlot(d, 1) = IF d + 1 < MAX_QUEUE_SIZE THEN d + 1 ELSE d + 1 - MAX_QUEUE_SIZE
      /\ RingSlot(d, 1) \in Indexes
  BY <1>2, SlotValue
<1> QED
  BY <1>1, <1>3, SizeAssumption DEF Indexes

LEMMA ListType ==
    ASSUME NEW q \in [Indexes -> Command], NEW d \in Indexes, NEW n \in 0 .. MAX_QUEUE_SIZE
    PROVE  /\ RingList(q, d, n) \in Seq(Command)
           /\ Len(RingList(q, d, n)) = n
           /\ \A i \in 1 .. n : RingList(q, d, n)[i] = q[RingSlot(d, i - 1)]
<1> DEFINE l == RingList(q, d, n)
<1>1. n \in Nat
  BY SizeAssumption
<1>2. ASSUME NEW i \in 1 .. n PROVE q[RingSlot(d, i - 1)] \in Command
  <2>1. i - 1 \in 0 .. MAX_QUEUE_SIZE
    BY SizeAssumption
  <2> QED
    BY <2>1, SlotValue
<1>3. l = [i \in 1 .. n |-> q[RingSlot(d, i - 1)]]
  BY DEF RingList
<1>4. l \in [1 .. n -> Command]
  BY <1>2, <1>3
<1>5. l \in Seq(Command) /\ Len(l) = n
  BY <1>1, <1>4, SeqDef, LenProperties
<1> QED
  BY <1>3, <1>5

(* Distinct distances from the front are distinct slots.                    *)
LEMMA SlotsDiffer ==
    ASSUME NEW d \in Indexes, NEW i \in Indexes, NEW j \in Indexes, i # j
    PROVE  RingSlot(d, i) # RingSlot(d, j)
<1>1. i \in 0 .. MAX_QUEUE_SIZE /\ j \in 0 .. MAX_QUEUE_SIZE
  BY SizeAssumption DEF Indexes
<1>2. /\ RingSlot(d, i) = IF d + i < MAX_QUEUE_SIZE THEN d + i ELSE d + i - MAX_QUEUE_SIZE
      /\ RingSlot(d, j) = IF d + j < MAX_QUEUE_SIZE THEN d + j ELSE d + j - MAX_QUEUE_SIZE
  BY <1>1, SlotValue
<1> QED
  BY <1>2, SizeAssumption DEF Indexes

(* Seen from the next front every slot is one nearer, and the old front is  *)
(* the farthest.                                                            *)
LEMMA SlotsShift ==
    ASSUME NEW d \in Indexes, NEW i \in Indexes
    PROVE  RingSlot(queue_next_index(d), i)
              = IF i = MAX_QUEUE_SIZE - 1 THEN d ELSE RingSlot(d, i + 1)
<1> DEFINE d2 == queue_next_index(d)
<1>1. d2 \in Indexes /\ d2 = IF d + 1 < MAX_QUEUE_SIZE THEN d + 1 ELSE 0
  BY NextValue
<1> HIDE DEF d2
<1>2. i \in 0 .. MAX_QUEUE_SIZE /\ i + 1 \in 0 .. MAX_QUEUE_SIZE
  BY SizeAssumption DEF Indexes
<1>3. RingSlot(d2, i) = IF d2 + i < MAX_QUEUE_SIZE THEN d2 + i ELSE d2 + i - MAX_QUEUE_SIZE
  BY <1>1, <1>2, SlotValue
<1>4. RingSlot(d, i + 1) = IF d + (i + 1) < MAX_QUEUE_SIZE THEN d + (i + 1)
                           ELSE d + (i + 1) - MAX_QUEUE_SIZE
  BY <1>2, SlotValue
<1>5. RingSlot(d2, i) = IF i = MAX_QUEUE_SIZE - 1 THEN d ELSE RingSlot(d, i + 1)
  BY <1>1, <1>2, <1>3, <1>4, SizeAssumption DEF Indexes
<1> QED
  BY <1>5 DEF d2

(* Storing a command behind the last one appends to the list.               *)
LEMMA PutAppends ==
    ASSUME NEW q \in [Indexes -> Command], NEW d \in Indexes, NEW n \in Indexes,
           NEW c \in Command
    PROVE  RingList([q EXCEPT ![RingSlot(d, n)] = c], d, n + 1) = Append(RingList(q, d, n), c)
<1> DEFINE e  == RingSlot(d, n)
<1> DEFINE q2 == [q EXCEPT ![e] = c]
<1> DEFINE l  == RingList(q, d, n)
<1> DEFINE l2 == RingList(q2, d, n + 1)
<1>1. n \in 0 .. MAX_QUEUE_SIZE /\ n + 1 \in 0 .. MAX_QUEUE_SIZE /\ n \in Nat
  BY SizeAssumption DEF Indexes
<1>2. e \in Indexes
  BY <1>1, SlotValue
<1>3. q2 \in [Indexes -> Command] /\ q2[e] = c
  BY <1>2
<1>4. l \in Seq(Command) /\ Len(l) = n /\ \A i \in 1 .. n : l[i] = q[RingSlot(d, i - 1)]
  BY <1>1, ListType
<1>5. /\ l2 \in Seq(Command) /\ Len(l2) = n + 1
      /\ \A i \in 1 .. n + 1 : l2[i] = q2[RingSlot(d, i - 1)]
  <2> HIDE DEF q2
  <2> QED
    BY <1>1, <1>3, ListType
<1> HIDE DEF l, l2
<1>6. /\ Append(l, c) \in Seq(Command) /\ Len(Append(l, c)) = n + 1
      /\ \A i \in 1 .. n : Append(l, c)[i] = l[i]
      /\ Append(l, c)[n + 1] = c
  BY <1>4, AppendProperties
<1>7. ASSUME NEW i \in 1 .. n + 1 PROVE l2[i] = Append(l, c)[i]
  <2>1. CASE i = n + 1
    <3>1. i - 1 = n
      BY <1>1, <2>1
    <3>2. l2[i] = q2[e]
      BY <1>5, <3>1
    <3> QED
      BY <1>3, <1>6, <2>1, <3>2
  <2>2. CASE i # n + 1
    <3>1. i \in 1 .. n /\ i - 1 \in Indexes /\ i - 1 # n /\ i - 1 \in 0 .. MAX_QUEUE_SIZE
      BY <1>1, <2>2, SizeAssumption DEF Indexes
    <3>2. RingSlot(d, i - 1) # e /\ RingSlot(d, i - 1) \in Indexes
      BY <3>1, SlotsDiffer, SlotValue
    <3>3. q2[RingSlot(d, i - 1)] = q[RingSlot(d, i - 1)]
      BY <3>2
    <3> QED
      BY <1>4, <1>5, <1>6, <3>1, <3>3
  <2> QED
    BY <2>1, <2>2
<1>8. l2 = Append(l, c)
  BY <1>5, <1>6, <1>7, SeqEqual
<1> QED
  BY <1>8 DEF l, l2

(* Clearing the front slot and moving the front on drops the first command. *)
LEMMA TakeDropsFirst ==
    ASSUME NEW q \in [Indexes -> Command], NEW d \in Indexes, NEW n \in Indexes,
           NEW z \in Command
    PROVE  /\ RingList(q, d, n + 1) # <<>>
           /\ Head(RingList(q, d, n + 1)) = q[d]
           /\ RingList([q EXCEPT ![d] = z], queue_next_index(d), n)
                 = Tail(RingList(q, d, n + 1))
<1> DEFINE d2 == queue_next_index(d)
<1> DEFINE q2 == [q EXCEPT ![d] = z]
<1> DEFINE l  == RingList(q, d, n + 1)
<1> DEFINE l2 == RingList(q2, d2, n)
<1>1. n \in 0 .. MAX_QUEUE_SIZE /\ n + 1 \in 0 .. MAX_QUEUE_SIZE /\ n \in Nat
  BY SizeAssumption DEF Indexes
<1>2. d2 \in Indexes /\ q2 \in [Indexes -> Command]
  BY NextValue
<1>3. /\ l \in Seq(Command) /\ Len(l) = n + 1
      /\ \A i \in 1 .. n + 1 : l[i] = q[RingSlot(d, i - 1)]
  BY <1>1, ListType
<1>4. l2 \in Seq(Command) /\ Len(l2) = n /\ \A i \in 1 .. n : l2[i] = q2[RingSlot(d2, i - 1)]
  <2> HIDE DEF q2, d2
  <2> QED
    BY <1>1, <1>2, ListType
<1> HIDE DEF l, l2
<1>5. l # <<>>
  BY <1>1, <1>3
<1>6. /\ Tail(l) \in Seq(Command) /\ Len(Tail(l)) = n
      /\ \A i \in 1 .. n : Tail(l)[i] = l[i + 1]
  BY <1>1, <1>3, <1>5, HeadTailProperties
<1>7. RingSlot(d, 0) = d
  <2>1. 0 \in 0 .. MAX_QUEUE_SIZE
    BY SizeAssumption
  <2>2. RingSlot(d, 0) = IF d + 0 < MAX_QUEUE_SIZE THEN d + 0 ELSE d + 0 - MAX_QUEUE_SIZE
    BY <2>1, SlotValue
  <2> QED
    BY <2>2, SizeAssumption DEF Indexes
<1>8. Head(l) = q[d]
  <2>1. l[1] = q[RingSlot(d, 1 - 1)]
    BY <1>1, <1>3
  <2>2. Head(l) = l[1]
    BY <1>3, <1>5
  <2> QED
    BY <1>7, <2>1, <2>2
<1>9. ASSUME NEW i \in 1 .. n PROVE l2[i] = Tail(l)[i]
  <2>1. /\ i \in Indexes /\ i - 1 \in Indexes /\ i + 1 \in 1 .. n + 1 /\ 0 \in Indexes
        /\ i - 1 # MAX_QUEUE_SIZE - 1 /\ i # 0 /\ i \in 0 .. MAX_QUEUE_SIZE
    BY <1>1, SizeAssumption DEF Indexes
  <2>2. RingSlot(d2, i - 1) = RingSlot(d, (i - 1) + 1) /\ (i - 1) + 1 = i
    BY <2>1, SlotsShift
  <2>3. RingSlot(d, i) # d /\ RingSlot(d, i) \in Indexes
    BY <1>7, <2>1, SlotsDiffer, SlotValue
  <2>4. q2[RingSlot(d, i)] = q[RingSlot(d, i)]
    BY <2>3
  <2>5. l[i + 1] = q[RingSlot(d, (i + 1) - 1)] /\ (i + 1) - 1 = i
    BY <1>3, <2>1
  <2> QED
    BY <1>4, <1>6, <2>2, <2>4, <2>5
<1>10. l2 = Tail(l)
  BY <1>4, <1>6, <1>9, SeqEqual
<1> QED
  BY <1>5, <1>8, <1>10 DEF l, l2

-----------------------------------------------------------------------------
(* The slots that hold no waiting command                                   *)

Cleared(q, d, n) == \A i \in n .. MAX_QUEUE_SIZE - 1 : q[RingSlot(d, i)] = ZeroCommand

LEMMA PutKeepsCleared ==
    ASSUME NEW q \in [Indexes -> Command], NEW d \in Indexes, NEW n \in Indexes,
           NEW e, e = RingSlot(d, n), NEW c \in Command, Cleared(q, d, n)
    PROVE  Cleared([q EXCEPT ![e] = c], d, n + 1)
<1> SUFFICES ASSUME NEW i \in n + 1 .. MAX_QUEUE_SIZE - 1
             PROVE  [q EXCEPT ![e] = c][RingSlot(d, i)] = ZeroCommand
  BY DEF Cleared
<1>1. /\ i \in n .. MAX_QUEUE_SIZE - 1 /\ i \in Indexes /\ i # n
      /\ i \in 0 .. MAX_QUEUE_SIZE
  BY SizeAssumption DEF Indexes
<1>2. RingSlot(d, i) # e /\ RingSlot(d, i) \in Indexes
  BY <1>1, SlotsDiffer, SlotValue
<1>3. q[RingSlot(d, i)] = ZeroCommand
  BY <1>1 DEF Cleared
<1> QED
  BY <1>2, <1>3

LEMMA TakeKeepsCleared ==
    ASSUME NEW q \in [Indexes -> Command], NEW d \in Indexes, NEW n \in Indexes,
           Cleared(q, d, n + 1)
    PROVE  Cleared([q EXCEPT ![d] = ZeroCommand], queue_next_index(d), n)
<1> DEFINE q2 == [q EXCEPT ![d] = ZeroCommand]
<1> SUFFICES ASSUME NEW i \in n .. MAX_QUEUE_SIZE - 1
             PROVE  q2[RingSlot(queue_next_index(d), i)] = ZeroCommand
  BY DEF Cleared
<1>1. i \in Indexes
  BY SizeAssumption DEF Indexes
<1>2. CASE i = MAX_QUEUE_SIZE - 1
  <2>1. RingSlot(queue_next_index(d), i) = d
    BY <1>1, <1>2, SlotsShift
  <2> QED
    BY <2>1
<1>3. CASE i # MAX_QUEUE_SIZE - 1
  <2>1. i + 1 \in n + 1 .. MAX_QUEUE_SIZE - 1 /\ i + 1 \in 0 .. MAX_QUEUE_SIZE
    BY <1>1, <1>3, SizeAssumption DEF Indexes
  <2>2. RingSlot(queue_next_index(d), i) = RingSlot(d, i + 1)
    BY <1>1, <1>3, SlotsShift
  <2>3. q[RingSlot(d, i + 1)] = ZeroCommand /\ RingSlot(d, i + 1) \in Indexes
    BY <2>1, SlotValue DEF Cleared
  <2> QED
    BY <2>2, <2>3
<1> QED
  BY <1>2, <1>3

-----------------------------------------------------------------------------
(* The inductive invariant                                                  *)

(* What a thread knows at each of its labels: what it tested under the      *)
(* mutex still holds when it acts on it.                                    *)
CallerOK(t) ==
    /\ pc[t] \in {"enq_lock", "enq_test", "enq_put"} => arg[t] \in Accepted
    /\ pc[t] = "enq_put" => ~queue_is_full_locked
    /\ pc[t] = "deq_take" => ~isQueueEmpty
    /\ pc[t] = "deq_run" => nextCommand[t] \in Command
    /\ pc[t] # "deq_run" => nextCommand[t] = NoCommand
    /\ ~isInitComplete => pc[t] = "out"

RingOK ==
    /\ isQueueEmpty => enqueueIndex = dequeueIndex
    /\ isInitComplete => Cleared(queue, dequeueIndex, Count)

IInv ==
    /\ TypeOK
    /\ MutexMatchesCode
    /\ RingOK
    /\ \A t \in Threads : CallerOK(t)

LEMMA InitIInv == Init => IInv
<1> SUFFICES ASSUME Init PROVE IInv
  OBVIOUS
<1>1. ZeroCommand \in Command
  BY DEF ZeroCommand, Command, CommandTypes, States, UserCommands
<1>2. TypeOK
  <2>1. 0 \in Indexes
    BY SizeAssumption DEF Indexes
  <2>2. ERROR_NONE \in Results
    BY DEF ERROR_NONE, Results
  <2> QED
    BY <1>1, <2>1, <2>2 DEF Init, TypeOK, States
<1>3. MutexMatchesCode
  BY ThreadAssumption DEF Init, MutexMatchesCode, InCriticalSection
<1>4. RingOK
  BY DEF Init, RingOK
<1>5. \A t \in Threads : CallerOK(t)
  BY DEF Init, CallerOK
<1> QED
  BY <1>2, <1>3, <1>4, <1>5 DEF IInv

(* A step of thread t: the others' locals and their claim to the mutex stay *)
(* as they are, and the ring changes only in the hands of the holder.       *)
StepOf(t) ==
    /\ \A u \in Threads \ {t} :
          /\ pc'[u] = pc[u] /\ arg'[u] = arg[u] /\ nextCommand'[u] = nextCommand[u]
          /\ (mutex' = u) <=> (mutex = u)
    /\ isInitComplete' = isInitComplete
    /\ \/ UNCHANGED <<queue, enqueueIndex, dequeueIndex, isQueueEmpty>>
       \/ mutex = t

LEMMA StepOfKeeps ==
    ASSUME IInv, NEW t \in Threads, StepOf(t), TypeOK', RingOK', CallerOK(t)',
           InCriticalSection(t)' <=> mutex' = t
    PROVE  IInv'
<1>1. ASSUME NEW u \in Threads, u # t
      PROVE  CallerOK(u)' /\ (InCriticalSection(u)' <=> mutex' = u)
  <2>1. /\ pc'[u] = pc[u] /\ arg'[u] = arg[u] /\ nextCommand'[u] = nextCommand[u]
        /\ (mutex' = u) <=> (mutex = u)
    BY <1>1 DEF StepOf
  <2>2. InCriticalSection(u) <=> mutex = u
    BY DEF IInv, MutexMatchesCode
  <2>3. CallerOK(u)
    BY DEF IInv
  <2>4. CASE UNCHANGED <<queue, enqueueIndex, dequeueIndex, isQueueEmpty>>
    BY <2>1, <2>2, <2>3, <2>4
       DEF CallerOK, StepOf, InCriticalSection, queue_is_full_locked, Accepted
  <2>5. CASE mutex = t
    <3>1. pc[u] \notin {"enq_put", "deq_take"}
      BY <1>1, <2>2, <2>5 DEF InCriticalSection
    <3> QED
      BY <2>1, <2>2, <2>3, <3>1 DEF CallerOK, StepOf, InCriticalSection, Accepted
  <2> QED
    BY <2>4, <2>5 DEF StepOf
<1>2. MutexMatchesCode'
  BY <1>1 DEF MutexMatchesCode
<1> QED
  BY <1>1, <1>2 DEF IInv

(* Steps that leave the ring alone keep what is known of it.                *)
LEMMA RingUntouched ==
    ASSUME IInv, UNCHANGED <<ring, isInitComplete>>
    PROVE  RingOK'
  BY DEF IInv, RingOK, Cleared, Count, ring

LEMMA ResultTypes ==
    /\ ERROR_NONE \in Results /\ ERROR_INPUT \in Results /\ ERROR_EMPTY_QUEUE \in Results
    /\ ERROR_STATE \in Results /\ ERROR_NOT_SUPPORTED \in Results
    /\ \A c \in Command : Outcomes(c) \subseteq Results
<1>1. /\ ERROR_NONE \in Results /\ ERROR_INPUT \in Results /\ ERROR_EMPTY_QUEUE \in Results
      /\ ERROR_STATE \in Results /\ ERROR_NOT_SUPPORTED \in Results
  BY DEF Results, ERROR_NONE, ERROR_INPUT, ERROR_EMPTY_QUEUE, ERROR_STATE,
         ERROR_NOT_SUPPORTED
<1>2. /\ NVME_STATUS_OK \in Results /\ NVME_STATUS_ERROR \in Results
      /\ NVME_STATUS_NOT_FOUND \in Results /\ NVME_STATUS_INPUT \in Results
      /\ NVME_STATUS_PART_DNE \in Results /\ NVME_STATUS_BAD_NAME \in Results
  BY DEF Results, NVME_STATUS_OK, NVME_STATUS_ERROR, NVME_STATUS_NOT_FOUND,
         NVME_STATUS_INPUT, NVME_STATUS_PART_DNE, NVME_STATUS_BAD_NAME
<1>3. ASSUME NEW c \in Command PROVE execute_user_command(c) \subseteq Results
  <2>1. c.user \in UserCommands /\ c.hasBuffer \in BOOLEAN
    BY DEF Command
  <2> QED
    BY <1>1, <1>2, <2>1 DEF execute_user_command, UserCommands
<1> QED
  BY <1>1, <1>3 DEF Outcomes

(* commandQueueInit: before it every thread is outside the queue.           *)
LEMMA InitStepKeeps == ASSUME IInv, commandQueueInit PROVE IInv'
<1>1. ZeroCommand \in Command
  BY DEF ZeroCommand, Command, CommandTypes, States, UserCommands
<1>2. 0 \in Indexes
  BY SizeAssumption DEF Indexes
<1>3. TypeOK'
  BY <1>1, <1>2 DEF IInv, TypeOK, commandQueueInit, States
<1>4. RingOK'
  <2>1. ASSUME NEW i \in 0 .. MAX_QUEUE_SIZE - 1
        PROVE  queue'[RingSlot(0, i)] = ZeroCommand
    <3>1. i \in 0 .. MAX_QUEUE_SIZE
      BY SizeAssumption
    <3>2. RingSlot(0, i) \in Indexes
      BY <1>2, <3>1, SlotValue
    <3> QED
      BY <3>2 DEF commandQueueInit
  <2>2. Cleared(queue', 0, 0)
    BY <2>1 DEF Cleared
  <2>3. dequeueIndex' = 0 /\ enqueueIndex' = 0 /\ Count' = 0
    BY DEF commandQueueInit, Count
  <2> QED
    BY <2>2, <2>3 DEF RingOK
<1>5. ASSUME NEW t \in Threads PROVE CallerOK(t)'
  BY DEF IInv, CallerOK, commandQueueInit
<1>6. MutexMatchesCode'
  BY DEF IInv, MutexMatchesCode, InCriticalSection, commandQueueInit
<1> QED
  BY <1>3, <1>4, <1>5, <1>6 DEF IInv

(* The steps before the lock and the one after the unlock.                  *)
LEMMA CallsKeep == ASSUME IInv, NEW t \in Threads, Calls(t) PROVE IInv'
<1>1. /\ pc[t] = "out" /\ UNCHANGED <<ring, isInitComplete, state, mutex, nextCommand>>
      /\ \/ /\ arg' = arg
            /\ \E code \in Results \cup {ERROR_NO_INIT} : Return(t, code)
         \/ /\ isInitComplete /\ ret' = ret
            /\ \E cmd \in Accepted : arg' = [arg EXCEPT ![t] = cmd]
            /\ Goto(t, "enq_lock")
         \/ /\ isInitComplete /\ ret' = ret /\ arg' = arg
            /\ \E label \in {"deq_lock", "get_lock"} : Goto(t, label)
  <2>1. CASE NotInitialised(t)
    BY <2>1 DEF NotInitialised
  <2>2. CASE enqueue_command(t)
    BY <2>2, ResultTypes DEF enqueue_command, validate_command, Accepted
  <2>3. CASE processNextCommandInQueue(t)
    BY <2>3 DEF processNextCommandInQueue
  <2>4. CASE get_queue_status(t)
    BY <2>4 DEF get_queue_status
  <2> QED
    BY <2>1, <2>2, <2>3, <2>4 DEF Calls
<1>2. Accepted \subseteq Command
  BY DEF Accepted, validate_command, ERROR_NONE, ERROR_INPUT
<1>3. TypeOK'
  BY <1>1, <1>2 DEF IInv, TypeOK, ring, Goto, Return
<1>4. RingOK'
  BY <1>1, RingUntouched
<1>5. pc'[t] \in {"out", "enq_lock", "deq_lock", "get_lock"}
  BY <1>1 DEF IInv, TypeOK, Goto, Return
<1>6. CallerOK(t)'
  BY <1>1, <1>5 DEF IInv, TypeOK, CallerOK, Goto, Return, Accepted
<1>7. StepOf(t)
  BY <1>1 DEF IInv, TypeOK, StepOf, ring, Goto, Return
<1>8. InCriticalSection(t)' <=> mutex' = t
  BY <1>1, <1>5 DEF IInv, MutexMatchesCode, InCriticalSection
<1> QED
  BY <1>3, <1>4, <1>6, <1>7, <1>8, StepOfKeeps

LEMMA LocksKeep == ASSUME IInv, NEW t \in Threads, Locks(t) PROVE IInv'
<1>1. PICK before \in {"enq_lock", "deq_lock", "get_lock"},
           after \in {"enq_test", "deq_test", "get_test"} :
        /\ pthread_mutex_lock(t, before, after)
        /\ before = "enq_lock" <=> after = "enq_test"
  BY DEF Locks
<1>2. TypeOK'
  BY <1>1 DEF IInv, TypeOK, pthread_mutex_lock, ring, Goto
<1>3. RingOK'
  BY <1>1, RingUntouched DEF pthread_mutex_lock
<1>4. pc[t] = before /\ pc'[t] = after /\ mutex = NoThread /\ mutex' = t
  BY <1>1 DEF IInv, TypeOK, pthread_mutex_lock, Goto
<1>5. CallerOK(t)'
  BY <1>1, <1>4 DEF IInv, CallerOK, pthread_mutex_lock, Accepted
<1>6. StepOf(t)
  <2>1. ASSUME NEW u \in Threads, u # t PROVE (mutex' = u) <=> (mutex = u)
    BY <1>4, <2>1, ThreadAssumption
  <2> QED
    BY <1>1, <2>1 DEF IInv, TypeOK, StepOf, ring, pthread_mutex_lock, Goto
<1>7. InCriticalSection(t)' <=> mutex' = t
  BY <1>4 DEF InCriticalSection
<1> QED
  BY <1>2, <1>3, <1>5, <1>6, <1>7, StepOfKeeps

(* Giving the mutex back without touching the ring.                         *)
LEMMA UnlockKeeps ==
    ASSUME IInv, NEW t \in Threads, InCriticalSection(t), mutex' = NoThread,
           pc' = [pc EXCEPT ![t] = "out"],
           UNCHANGED <<ring, isInitComplete, state, nextCommand>>,
           arg' = arg \/ arg' = [arg EXCEPT ![t] = NoCommand],
           \E code \in Results \cup {ERROR_FULL_QUEUE} : ret' = [ret EXCEPT ![t] = code]
    PROVE  IInv'
<1>1. TypeOK'
  BY DEF IInv, TypeOK, ring
<1>2. RingOK'
  BY RingUntouched
<1>3. mutex = t /\ pc'[t] = "out" /\ pc[t] # "deq_run"
  BY DEF IInv, TypeOK, MutexMatchesCode, InCriticalSection
<1>4. CallerOK(t)'
  BY <1>3 DEF IInv, CallerOK
<1>5. StepOf(t)
  <2>1. ASSUME NEW u \in Threads, u # t PROVE (mutex' = u) <=> (mutex = u)
    BY <1>3, <2>1, ThreadAssumption
  <2> QED
    BY <2>1 DEF IInv, TypeOK, StepOf, ring
<1>6. InCriticalSection(t)' <=> mutex' = t
  BY <1>3, ThreadAssumption DEF InCriticalSection
<1> QED
  BY <1>1, <1>2, <1>4, <1>5, <1>6, StepOfKeeps

(* A test that lets the thread go on: it still holds the mutex.             *)
LEMMA GoOnKeeps ==
    ASSUME IInv, NEW t \in Threads, InCriticalSection(t), NEW label \in {"enq_put", "deq_take"},
           pc' = [pc EXCEPT ![t] = label],
           UNCHANGED <<ring, isInitComplete, state, mutex, arg, nextCommand, ret>>,
           label = "enq_put" => pc[t] = "enq_test" /\ ~queue_is_full_locked,
           label = "deq_take" => ~isQueueEmpty
    PROVE  IInv'
<1>1. TypeOK'
  BY DEF IInv, TypeOK, ring
<1>2. RingOK'
  BY RingUntouched
<1>3. mutex = t /\ mutex' = t /\ pc'[t] = label /\ pc[t] # "out" /\ pc[t] # "deq_run"
  BY DEF IInv, TypeOK, MutexMatchesCode, InCriticalSection
<1>4. CallerOK(t)'
  <2>1. isInitComplete' /\ nextCommand'[t] = NoCommand
    BY <1>3 DEF IInv, CallerOK
  <2>2. CASE label = "enq_put"
    BY <1>3, <2>1, <2>2 DEF IInv, CallerOK, queue_is_full_locked, ring, Accepted
  <2>3. CASE label = "deq_take"
    BY <1>3, <2>1, <2>3 DEF IInv, CallerOK, ring
  <2> QED
    BY <2>2, <2>3
<1>5. StepOf(t)
  BY DEF IInv, TypeOK, StepOf, ring
<1>6. InCriticalSection(t)' <=> mutex' = t
  BY <1>3 DEF InCriticalSection
<1> QED
  BY <1>1, <1>2, <1>4, <1>5, <1>6, StepOfKeeps

LEMMA TestsKeep ==
    ASSUME IInv, NEW t \in Threads, EnqueueTest(t) \/ DequeueTest(t) \/ StatusTest(t)
    PROVE  IInv'
<1>1. CASE EnqueueTest(t)
  <2>1. InCriticalSection(t)
    BY <1>1 DEF EnqueueTest, InCriticalSection
  <2>2. CASE queue_is_full_locked
    BY <1>1, <2>1, <2>2, UnlockKeeps DEF EnqueueTest, Return, Goto
  <2>3. CASE ~queue_is_full_locked
    BY <1>1, <2>1, <2>3, GoOnKeeps DEF EnqueueTest, Goto
  <2> QED
    BY <2>2, <2>3
<1>2. CASE DequeueTest(t)
  <2>1. InCriticalSection(t)
    BY <1>2 DEF DequeueTest, InCriticalSection
  <2>2. CASE queue_is_empty_locked
    BY <1>2, <2>1, <2>2, UnlockKeeps, ResultTypes DEF DequeueTest, Return, Goto
  <2>3. CASE ~queue_is_empty_locked
    BY <1>2, <2>1, <2>3, GoOnKeeps DEF DequeueTest, Goto, queue_is_empty_locked
  <2> QED
    BY <2>2, <2>3
<1>3. CASE StatusTest(t)
  <2>1. InCriticalSection(t)
    BY <1>3 DEF StatusTest, InCriticalSection
  <2>2. \E code \in Results \cup {ERROR_FULL_QUEUE} : ret' = [ret EXCEPT ![t] = code]
    BY <1>3, ResultTypes DEF StatusTest, Return
  <2> QED
    BY <1>3, <2>1, <2>2, UnlockKeeps DEF StatusTest, Return, Goto
<1> QED
  BY <1>1, <1>2, <1>3

LEMMA RunKeeps == ASSUME IInv, NEW t \in Threads, RunCommand(t) PROVE IInv'
<1>1. pc[t] = "deq_run" /\ nextCommand[t] \in Command
  BY DEF IInv, CallerOK, RunCommand
<1>2. PICK code \in Results : Return(t, code)
  BY <1>1, ResultTypes DEF RunCommand
<1>3. /\ nextCommand' = [nextCommand EXCEPT ![t] = NoCommand]
      /\ UNCHANGED <<ring, isInitComplete, state, mutex, arg>>
  BY DEF RunCommand
<1>4. TypeOK'
  BY <1>2, <1>3 DEF IInv, TypeOK, ring, Return, Goto
<1>5. RingOK'
  BY <1>3, RingUntouched
<1>6. pc'[t] = "out" /\ nextCommand'[t] = NoCommand
  BY <1>2, <1>3 DEF IInv, TypeOK, Return, Goto
<1>7. CallerOK(t)'
  BY <1>6 DEF CallerOK
<1>8. StepOf(t)
  BY <1>2, <1>3 DEF IInv, TypeOK, StepOf, ring, Return, Goto
<1>9. InCriticalSection(t)' <=> mutex' = t
  BY <1>1, <1>3, <1>6 DEF IInv, MutexMatchesCode, InCriticalSection
<1> QED
  BY <1>4, <1>5, <1>7, <1>8, <1>9, StepOfKeeps

(* The count is right: the next free slot is that many slots from the front, *)
(* and the two indexes and isQueueEmpty together tell how many there are.    *)
LEMMA CountType ==
    ASSUME IInv
    PROVE  /\ Count \in 0 .. MAX_QUEUE_SIZE
           /\ Count = 0 <=> isQueueEmpty
           /\ Count = MAX_QUEUE_SIZE <=> queue_is_full_locked
<1>1. enqueueIndex \in Indexes /\ dequeueIndex \in Indexes
  BY DEF IInv, TypeOK
<1>2. CASE isQueueEmpty
  BY <1>1, <1>2, SizeAssumption DEF Count, queue_is_full_locked, Indexes
<1>3. CASE ~isQueueEmpty
  BY <1>1, <1>3, SizeAssumption DEF Count, queue_is_full_locked, Indexes
<1> QED
  BY <1>2, <1>3

LEMMA PutCounts ==
    ASSUME IInv, NEW t \in Threads, EnqueuePut(t)
    PROVE  /\ Count \in Indexes /\ enqueueIndex = RingSlot(dequeueIndex, Count)
           /\ Count' = Count + 1
<1>1. ~queue_is_full_locked
  BY DEF IInv, CallerOK, EnqueuePut
<1>2. /\ enqueueIndex \in Indexes /\ dequeueIndex \in Indexes
      /\ isQueueEmpty => enqueueIndex = dequeueIndex
      /\ enqueueIndex = dequeueIndex => isQueueEmpty
  BY <1>1 DEF IInv, TypeOK, RingOK, queue_is_full_locked
<1>3. Count \in 0 .. MAX_QUEUE_SIZE /\ Count \in Indexes
  BY <1>1, CountType, SizeAssumption DEF Indexes
<1>4. Count = IF dequeueIndex <= enqueueIndex THEN enqueueIndex - dequeueIndex
              ELSE MAX_QUEUE_SIZE - dequeueIndex + enqueueIndex
  <2>1. CASE isQueueEmpty
    BY <1>2, <2>1, SizeAssumption DEF Count, Indexes
  <2>2. CASE ~isQueueEmpty
    BY <1>2, <2>2, SizeAssumption DEF Count, Indexes
  <2> QED
    BY <2>1, <2>2
<1> DEFINE n == Count
<1> HIDE DEF n
<1>5. n = IF dequeueIndex <= enqueueIndex THEN enqueueIndex - dequeueIndex
          ELSE MAX_QUEUE_SIZE - dequeueIndex + enqueueIndex
  BY <1>4 DEF n
<1>6. enqueueIndex = RingSlot(dequeueIndex, n)
  <2>1. n \in 0 .. MAX_QUEUE_SIZE
    BY <1>3 DEF n
  <2>2. RingSlot(dequeueIndex, n)
          = IF dequeueIndex + n < MAX_QUEUE_SIZE THEN dequeueIndex + n
            ELSE dequeueIndex + n - MAX_QUEUE_SIZE
    BY <1>2, <2>1, SlotValue
  <2> QED
    BY <1>2, <1>5, <2>1, <2>2, SizeAssumption DEF Indexes
<1>7. Count' = n + 1
  <2>1. /\ enqueueIndex' = IF enqueueIndex + 1 < MAX_QUEUE_SIZE THEN enqueueIndex + 1 ELSE 0
        /\ dequeueIndex' = dequeueIndex /\ ~isQueueEmpty'
    BY <1>2, NextValue DEF EnqueuePut
  <2>2. Count' = IF dequeueIndex' < enqueueIndex' THEN enqueueIndex' - dequeueIndex'
                 ELSE MAX_QUEUE_SIZE - dequeueIndex' + enqueueIndex'
    BY <2>1 DEF Count
  <2> QED
    BY <1>2, <1>5, <2>1, <2>2, SizeAssumption DEF Indexes
<1> QED
  BY <1>3, <1>6, <1>7 DEF n

LEMMA TakeCounts ==
    ASSUME IInv, NEW t \in Threads, DequeueTake(t)
    PROVE  \E n \in Indexes : Count = n + 1 /\ Count' = n
<1>1. /\ enqueueIndex \in Indexes /\ dequeueIndex \in Indexes /\ ~isQueueEmpty
      /\ isQueueEmpty' \in BOOLEAN /\ (isQueueEmpty' <=> dequeueIndex' = enqueueIndex)
      /\ dequeueIndex' = queue_next_index(dequeueIndex) /\ enqueueIndex' = enqueueIndex
  BY DEF IInv, TypeOK, CallerOK, DequeueTake
<1>2. dequeueIndex' = IF dequeueIndex + 1 < MAX_QUEUE_SIZE THEN dequeueIndex + 1 ELSE 0
  BY <1>1, NextValue
<1> DEFINE n == IF dequeueIndex' = enqueueIndex THEN 0
                ELSE IF dequeueIndex' < enqueueIndex THEN enqueueIndex - dequeueIndex'
                ELSE MAX_QUEUE_SIZE - dequeueIndex' + enqueueIndex
<1>3. Count' = n
  <2>1. CASE isQueueEmpty'
    BY <1>1, <2>1 DEF Count
  <2>2. CASE ~isQueueEmpty'
    BY <1>1, <2>2 DEF Count
  <2> QED
    BY <2>1, <2>2
<1>4. Count = IF dequeueIndex < enqueueIndex THEN enqueueIndex - dequeueIndex
              ELSE MAX_QUEUE_SIZE - dequeueIndex + enqueueIndex
  BY <1>1 DEF Count
<1>5. n \in Indexes /\ Count = n + 1
  BY <1>1, <1>2, <1>4, SizeAssumption DEF Indexes
<1> QED
  BY <1>3, <1>5

LEMMA PutKeeps == ASSUME IInv, NEW t \in Threads, EnqueuePut(t) PROVE IInv'
<1>1. /\ pc[t] = "enq_put" /\ mutex = t /\ ~queue_is_full_locked /\ isInitComplete
      /\ arg[t] \in Command /\ nextCommand[t] = NoCommand
  BY DEF IInv, CallerOK, MutexMatchesCode, InCriticalSection, EnqueuePut, Accepted,
         validate_command, ERROR_NONE, ERROR_INPUT
<1>2. /\ queue \in [Indexes -> Command] /\ enqueueIndex \in Indexes
      /\ dequeueIndex \in Indexes /\ isQueueEmpty \in BOOLEAN
      /\ isQueueEmpty => enqueueIndex = dequeueIndex
      /\ enqueueIndex = dequeueIndex => isQueueEmpty
  BY <1>1 DEF IInv, TypeOK, RingOK, queue_is_full_locked
<1>3. queue_next_index(enqueueIndex) \in Indexes
  BY <1>2, NextValue
<1>4. TypeOK'
  BY <1>1, <1>3, ResultTypes DEF IInv, TypeOK, EnqueuePut, Return, Goto
<1>5. RingOK'
  <2>1. Cleared(queue, dequeueIndex, Count)
    BY <1>1 DEF IInv, RingOK
  <2>2. /\ Count \in Indexes /\ enqueueIndex = RingSlot(dequeueIndex, Count)
        /\ Count' = Count + 1
    BY PutCounts
  <2>3. Cleared([queue EXCEPT ![enqueueIndex] = arg[t]], dequeueIndex, Count + 1)
    BY <1>1, <1>2, <2>1, <2>2, PutKeepsCleared
  <2>4. /\ queue' = [queue EXCEPT ![enqueueIndex] = arg[t]] /\ dequeueIndex' = dequeueIndex
        /\ ~isQueueEmpty'
    BY DEF EnqueuePut
  <2> QED
    BY <2>2, <2>3, <2>4 DEF RingOK
<1>6. pc'[t] = "out" /\ mutex' = NoThread
  BY DEF IInv, TypeOK, EnqueuePut, Return, Goto
<1>7. CallerOK(t)'
  BY <1>1, <1>6 DEF CallerOK, EnqueuePut
<1>8. StepOf(t)
  <2>1. ASSUME NEW u \in Threads, u # t PROVE (mutex' = u) <=> (mutex = u)
    BY <1>1, <1>6, <2>1, ThreadAssumption
  <2> QED
    BY <1>1, <2>1 DEF IInv, TypeOK, StepOf, EnqueuePut, Return, Goto
<1>9. InCriticalSection(t)' <=> mutex' = t
  BY <1>6, ThreadAssumption DEF InCriticalSection
<1> QED
  BY <1>4, <1>5, <1>7, <1>8, <1>9, StepOfKeeps

LEMMA TakeKeeps == ASSUME IInv, NEW t \in Threads, DequeueTake(t) PROVE IInv'
<1>1. pc[t] = "deq_take" /\ mutex = t /\ isInitComplete
  BY DEF IInv, CallerOK, MutexMatchesCode, InCriticalSection, DequeueTake
<1>2. /\ queue \in [Indexes -> Command] /\ enqueueIndex \in Indexes
      /\ dequeueIndex \in Indexes /\ isQueueEmpty \in BOOLEAN /\ ~isQueueEmpty
  BY <1>1 DEF IInv, TypeOK, CallerOK
<1>3. queue_next_index(dequeueIndex) \in Indexes
  BY <1>2, NextValue
<1>4. ZeroCommand \in Command
  BY DEF ZeroCommand, Command, CommandTypes, States, UserCommands
<1>5. /\ dequeueIndex' = queue_next_index(dequeueIndex)
      /\ isQueueEmpty' \in BOOLEAN /\ (isQueueEmpty' <=> dequeueIndex' = enqueueIndex)
      /\ queue' = [queue EXCEPT ![dequeueIndex] = ZeroCommand]
      /\ enqueueIndex' = enqueueIndex /\ isInitComplete' = isInitComplete
  BY <1>2 DEF DequeueTake
<1>6. TypeOK'
  BY <1>2, <1>3, <1>4, <1>5 DEF IInv, TypeOK, DequeueTake, Goto
<1>7. RingOK'
  <2>1. PICK n \in Indexes : Count = n + 1 /\ Count' = n
    BY TakeCounts
  <2>2. Cleared(queue, dequeueIndex, n + 1)
    BY <1>1, <2>1 DEF IInv, RingOK
  <2>3. Cleared([queue EXCEPT ![dequeueIndex] = ZeroCommand], queue_next_index(dequeueIndex), n)
    BY <1>2, <2>2, TakeKeepsCleared
  <2>4. Cleared(queue', dequeueIndex', Count')
    BY <1>5, <2>1, <2>3
  <2> QED
    BY <1>5, <2>4 DEF RingOK
<1>8. pc'[t] = "deq_run" /\ mutex' = NoThread /\ nextCommand'[t] \in Command
  BY <1>2 DEF IInv, TypeOK, DequeueTake, Goto
<1>9. CallerOK(t)'
  BY <1>1, <1>5, <1>8 DEF CallerOK
<1>10. StepOf(t)
  <2>1. ASSUME NEW u \in Threads, u # t PROVE (mutex' = u) <=> (mutex = u)
    BY <1>1, <1>8, <2>1, ThreadAssumption
  <2> QED
    BY <1>1, <2>1 DEF IInv, TypeOK, StepOf, DequeueTake, Goto
<1>11. InCriticalSection(t)' <=> mutex' = t
  BY <1>8, ThreadAssumption DEF InCriticalSection
<1> QED
  BY <1>6, <1>7, <1>9, <1>10, <1>11, StepOfKeeps

LEMMA StepIInv == IInv /\ [Next]_vars => IInv'
<1> SUFFICES ASSUME IInv, [Next]_vars PROVE IInv'
  OBVIOUS
<1>1. CASE Next
  BY <1>1, InitStepKeeps, CallsKeep, LocksKeep, TestsKeep, RunKeeps, PutKeeps, TakeKeeps
     DEF Next, Works
<1>2. CASE UNCHANGED vars
  BY <1>2 DEF vars, ring, IInv, TypeOK, MutexMatchesCode, InCriticalSection, RingOK, Cleared, Count,
              CallerOK, queue_is_full_locked, Accepted
<1> QED
  BY <1>1, <1>2

LEMMA SpecIInv == Spec => []IInv
  BY InitIInv, StepIInv, PTL DEF Spec

-----------------------------------------------------------------------------
(* Refinement: each step is a step of the bounded list or a stutter         *)

LEMMA ContentsType ==
    ASSUME IInv, isInitComplete
    PROVE  /\ Contents \in Seq(Command) /\ Len(Contents) = Count
           /\ Contents = RingList(queue, dequeueIndex, Count)
<1>1. Count \in 0 .. MAX_QUEUE_SIZE
  BY CountType
<1>2. queue \in [Indexes -> Command] /\ dequeueIndex \in Indexes
  BY DEF IInv, TypeOK
<1>3. Contents = RingList(queue, dequeueIndex, Count)
  BY DEF Contents
<1> QED
  BY <1>1, <1>2, <1>3, ListType

(* What the tests of the ring say of the list.                              *)
LEMMA TestsAreRight ==
    ASSUME IInv, isInitComplete
    PROVE  /\ queue_is_empty_locked => Contents = <<>>
           /\ ~queue_is_empty_locked => Contents # <<>>
           /\ queue_is_full_locked => Len(Contents) = MAX_QUEUE_SIZE
           /\ ~queue_is_full_locked => Len(Contents) < MAX_QUEUE_SIZE
<1>1. Contents \in Seq(Command) /\ Len(Contents) = Count
  BY ContentsType
<1>2. /\ Count \in 0 .. MAX_QUEUE_SIZE
      /\ Count = 0 <=> queue_is_empty_locked
      /\ Count = MAX_QUEUE_SIZE <=> queue_is_full_locked
  BY CountType DEF queue_is_empty_locked
<1>3. Contents = <<>> <=> Count = 0
  BY <1>1, EmptySeq
<1> QED
  BY <1>1, <1>2, <1>3, SizeAssumption

LEMMA InitRefines == Init => Fifo!Init
  BY DEF Init, Fifo!Init, Contents

fifoVars == <<Contents, nextCommand, ret>>

LEMMA StepRefines == IInv /\ [Next]_vars => [Fifo!Next]_fifoVars
<1> SUFFICES ASSUME IInv, [Next]_vars PROVE [Fifo!Next]_fifoVars
  OBVIOUS
<1> USE DEF fifoVars
<1>1. ASSUME UNCHANGED <<ring, isInitComplete>> PROVE Contents' = Contents
  BY <1>1 DEF Contents, Count, ring, RingList
<1>2. CASE UNCHANGED vars
  BY <1>1, <1>2 DEF vars
<1>3. CASE commandQueueInit
  <2>1. Contents = <<>>
    BY <1>3 DEF commandQueueInit, Contents
  <2>2. Contents' = RingList(queue', 0, 0)
    BY <1>3 DEF commandQueueInit, Contents, Count
  <2>3. RingList(queue', 0, 0) = <<>>
    BY DEF RingList
  <2> QED
    BY <1>3, <2>1, <2>2, <2>3 DEF commandQueueInit
<1>4. ASSUME NEW t \in Threads, Calls(t) PROVE [Fifo!Next]_fifoVars
  <2>1. CASE NotInitialised(t)
    BY <1>1, <2>1 DEF NotInitialised, Return, Fifo!Next, Fifo!Answer
  <2>2. CASE enqueue_command(t)
    <3>1. Contents' = Contents /\ nextCommand' = nextCommand
      BY <1>1, <2>2 DEF enqueue_command
    <3>2. ret' = ret \/ ret' = [ret EXCEPT ![t] = ERROR_INPUT]
      BY <2>2 DEF enqueue_command, Return, validate_command
    <3> QED
      BY <3>1, <3>2 DEF Fifo!Next, Fifo!Answer
  <2>3. CASE processNextCommandInQueue(t) \/ get_queue_status(t)
    BY <1>1, <2>3 DEF processNextCommandInQueue, get_queue_status
  <2> QED
    BY <1>4, <2>1, <2>2, <2>3 DEF Calls
<1>5. ASSUME NEW t \in Threads, Locks(t) PROVE [Fifo!Next]_fifoVars
  BY <1>1, <1>5 DEF Locks, pthread_mutex_lock
<1>6. ASSUME NEW t \in Threads, Works(t) PROVE [Fifo!Next]_fifoVars
  <2>1. isInitComplete
    BY <1>6 DEF IInv, CallerOK, Works, EnqueueTest, EnqueuePut, DequeueTest, DequeueTake,
                RunCommand, StatusTest
  <2>2. CASE EnqueueTest(t)
    <3>1. Contents' = Contents /\ nextCommand' = nextCommand
      BY <1>1, <2>2 DEF EnqueueTest
    <3>2. \/ ret' = ret
          \/ queue_is_full_locked /\ ret' = [ret EXCEPT ![t] = ERROR_FULL_QUEUE]
      BY <2>2 DEF EnqueueTest, Return
    <3> QED
      BY <2>1, <3>1, <3>2, TestsAreRight DEF Fifo!Next, Fifo!Full, Fifo!Answer
  <2>3. CASE DequeueTest(t)
    <3>1. Contents' = Contents /\ nextCommand' = nextCommand
      BY <1>1, <2>3 DEF DequeueTest
    <3>2. \/ ret' = ret
          \/ queue_is_empty_locked /\ ret' = [ret EXCEPT ![t] = ERROR_EMPTY_QUEUE]
      BY <2>3 DEF DequeueTest, Return
    <3> QED
      BY <2>1, <3>1, <3>2, TestsAreRight DEF Fifo!Next, Fifo!Empty, Fifo!Answer
  <2>4. CASE StatusTest(t)
    <3>1. Contents' = Contents /\ nextCommand' = nextCommand
      BY <1>1, <2>4 DEF StatusTest
    <3>2. \/ queue_is_empty_locked /\ ret' = [ret EXCEPT ![t] = ERROR_EMPTY_QUEUE]
          \/ queue_is_full_locked /\ ret' = [ret EXCEPT ![t] = ERROR_FULL_QUEUE]
          \/ /\ ~queue_is_empty_locked /\ ~queue_is_full_locked
             /\ ret' = [ret EXCEPT ![t] = ERROR_NONE]
      <4>1. CASE queue_is_empty_locked
        <5>1. ~queue_is_full_locked
          BY <4>1 DEF queue_is_empty_locked, queue_is_full_locked
        <5> QED
          BY <2>4, <4>1, <5>1 DEF StatusTest, Return
      <4>2. CASE ~queue_is_empty_locked /\ queue_is_full_locked
        BY <2>4, <4>2 DEF StatusTest, Return
      <4>3. CASE ~queue_is_empty_locked /\ ~queue_is_full_locked
        BY <2>4, <4>3 DEF StatusTest, Return
      <4> QED
        BY <4>1, <4>2, <4>3
    <3> QED
      BY <2>1, <3>1, <3>2, TestsAreRight
         DEF Fifo!Next, Fifo!Empty, Fifo!Full, Fifo!Between, Fifo!Answer
  <2>5. CASE RunCommand(t)
    <3>1. Contents' = Contents
      BY <1>1, <2>5 DEF RunCommand
    <3>2. nextCommand[t] \in Command /\ nextCommand[t] # NoCommand
      BY <2>5, NullAssumption DEF IInv, CallerOK, RunCommand
    <3>3. PICK code \in Results : ret' = [ret EXCEPT ![t] = code]
      BY <2>5, <3>2, ResultTypes DEF RunCommand, Return
    <3>4. nextCommand' = [nextCommand EXCEPT ![t] = NoCommand]
      BY <2>5 DEF RunCommand
    <3>5. Fifo!Finish(t, code)
      BY <3>1, <3>2, <3>3, <3>4 DEF Fifo!Finish
    <3> QED
      BY <3>5 DEF Fifo!Next
  <2>6. CASE EnqueuePut(t)
    <3>1. arg[t] \in Accepted /\ arg[t] \in Command /\ ~queue_is_full_locked
      BY <2>6 DEF IInv, CallerOK, EnqueuePut, Accepted, validate_command, ERROR_NONE,
                  ERROR_INPUT
    <3>2. /\ Count \in Indexes /\ enqueueIndex = RingSlot(dequeueIndex, Count)
          /\ Count' = Count + 1
      BY <2>6, PutCounts
    <3>3. Contents' = RingList([queue EXCEPT ![enqueueIndex] = arg[t]], dequeueIndex, Count + 1)
      <4>1. /\ isInitComplete' /\ dequeueIndex' = dequeueIndex
            /\ queue' = [queue EXCEPT ![enqueueIndex] = arg[t]]
        BY <2>1, <2>6 DEF EnqueuePut
      <4>2. Contents' = RingList(queue', dequeueIndex', Count')
        BY <4>1 DEF Contents
      <4> QED
        BY <3>2, <4>1, <4>2
    <3>4. Contents' = Append(Contents, arg[t])
      <4>1. queue \in [Indexes -> Command] /\ dequeueIndex \in Indexes
        BY DEF IInv, TypeOK
      <4>2. RingList([queue EXCEPT ![RingSlot(dequeueIndex, Count)] = arg[t]], dequeueIndex,
                     Count + 1)
              = Append(RingList(queue, dequeueIndex, Count), arg[t])
        BY <3>1, <3>2, <4>1, PutAppends
      <4> QED
        BY <2>1, <3>2, <3>3, <4>2, ContentsType
    <3>5. Len(Contents) < MAX_QUEUE_SIZE
      BY <2>1, <3>1, TestsAreRight
    <3>6. Fifo!Put(t, arg[t])
      BY <2>6, <3>4, <3>5 DEF Fifo!Put, EnqueuePut, Return
    <3> QED
      BY <3>1, <3>6 DEF Fifo!Next
  <2>7. CASE DequeueTake(t)
    <3>1. /\ queue \in [Indexes -> Command] /\ enqueueIndex \in Indexes
          /\ dequeueIndex \in Indexes /\ isQueueEmpty \in BOOLEAN /\ ~isQueueEmpty
          /\ nextCommand[t] = NoCommand
      BY <2>7 DEF IInv, TypeOK, CallerOK, DequeueTake
    <3>2. ZeroCommand \in Command
      BY DEF ZeroCommand, Command, CommandTypes, States, UserCommands
    <3>3. PICK n \in Indexes : Count = n + 1 /\ Count' = n
      BY <2>7, TakeCounts
    <3>4. Contents' = RingList([queue EXCEPT ![dequeueIndex] = ZeroCommand],
                               queue_next_index(dequeueIndex), n)
      <4>1. /\ isInitComplete' /\ dequeueIndex' = queue_next_index(dequeueIndex)
            /\ queue' = [queue EXCEPT ![dequeueIndex] = ZeroCommand]
        BY <2>1, <2>7 DEF DequeueTake
      <4>2. Contents' = RingList(queue', dequeueIndex', Count')
        BY <4>1 DEF Contents
      <4> QED
        BY <3>3, <4>1, <4>2
    <3>5. Contents # <<>> /\ Head(Contents) = queue[dequeueIndex] /\ Contents' = Tail(Contents)
      <4>1. Contents = RingList(queue, dequeueIndex, n + 1)
        BY <2>1, <3>3, ContentsType
      <4>2. /\ RingList(queue, dequeueIndex, n + 1) # <<>>
            /\ Head(RingList(queue, dequeueIndex, n + 1)) = queue[dequeueIndex]
            /\ RingList([queue EXCEPT ![dequeueIndex] = ZeroCommand],
                        queue_next_index(dequeueIndex), n)
                  = Tail(RingList(queue, dequeueIndex, n + 1))
        BY <3>1, <3>2, TakeDropsFirst
      <4> QED
        BY <3>4, <4>1, <4>2, Zenon
    <3>6. Fifo!Take(t)
      BY <2>7, <3>1, <3>5 DEF Fifo!Take, DequeueTake
    <3> QED
      BY <3>6 DEF Fifo!Next
  <2> QED
    BY <1>6, <2>2, <2>3, <2>4, <2>5, <2>6, <2>7 DEF Works
<1> QED
  BY <1>2, <1>3, <1>4, <1>5, <1>6 DEF Next

-----------------------------------------------------------------------------
(* The fields of CommandQueue_t and the callers' locals keep their types:   *)
(* both indexes stay inside the array.                                      *)
THEOREM TypeCorrect == Spec => []TypeOK
<1>1. IInv => TypeOK
  BY DEF IInv
<1> QED
  BY SpecIInv, <1>1, PTL

(* The critical sections of the three functions exclude each other and are  *)
(* left on every path.                                                      *)
THEOREM MutexDiscipline == Spec => []MutexMatchesCode
<1>1. IInv => MutexMatchesCode
  BY DEF IInv
<1> QED
  BY SpecIInv, <1>1, PTL

(* No command that was taken out is left behind in the ring.                *)
THEOREM SlotsCleared == Spec => []TakenSlotsCleared
<1>1. IInv => TakenSlotsCleared
  BY DEF IInv, RingOK, Cleared, TakenSlotsCleared
<1> QED
  BY SpecIInv, <1>1, PTL

(* For every size of the ring and any number of callers, the ring of        *)
(* commandQueue.c implements the bounded first-in first-out list.           *)
THEOREM RingIsFifo == Spec => IsFifo
  BY InitRefines, StepRefines, SpecIInv, PTL DEF Spec, IsFifo, Fifo!Spec, fifoVars
=============================================================================
