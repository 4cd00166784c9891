---------------------------- MODULE CommandQueue ----------------------------
(***************************************************************************)
(* commandQueue.c: one ring buffer of commands, shared by the threads that *)
(* call enqueue_command, processNextCommandInQueue and get_queue_status.   *)
(*                                                                         *)
(* Every function reads isInitComplete outside the mutex, takes the mutex, *)
(* tests the ring, and then either gives up or changes the ring; the test  *)
(* and the change are separate steps here, so that it is the mutex and not *)
(* the model that keeps them together.  A command that was taken out is    *)
(* executed after the mutex was released.                                  *)
(***************************************************************************)
EXTENDS Integers, Sequences

CONSTANTS
    Threads,         \* the threads that call the queue
    NoThread,        \* the mutex is free
    MAX_QUEUE_SIZE,  \* slots of the ring
    Requests,        \* what callers pass to enqueue_command
    NULL,            \* a null command_t pointer
    NoCommand        \* nextCommand holds no command

ASSUME SizeAssumption == MAX_QUEUE_SIZE \in Nat \ {0}

(* error_t of interfaceCommon.h                                            *)
ERROR_NONE          == 0
ERROR_STATE         == -1
ERROR_INPUT         == -2
ERROR_EMPTY_QUEUE   == -4
ERROR_NO_INIT       == -6
ERROR_FULL_QUEUE    == -7
ERROR_NOT_SUPPORTED == -8

(* nvmeStatus_t of nvmeInterface.h; the numbers overlap with those above.   *)
NVME_STATUS_OK        == 0
NVME_STATUS_ERROR     == -1
NVME_STATUS_NOT_FOUND == -2
NVME_STATUS_INPUT     == -3
NVME_STATUS_PART_DNE  == -4
NVME_STATUS_BAD_NAME  == -5

(* command_t, with the user command reduced to what selects a branch of    *)
(* execute_user_command.  Callers may also pass NULL and values outside    *)
(* the enumerations ("bad").                                               *)
CommandTypes  == {"adminCommand", "userCommand", "perfCommand"}
States        == {"idle", "userMode", "perfMode", "error"}
UserCommands  == {"status", "read_to_buffer", "write_to_buffer", "file", "list_ns",
                  "create_ns", "remove_ns", "get_status", "bad"}
Command == [id : Nat, cmdType : CommandTypes, stateNeeded : States,
            user : UserCommands, hasBuffer : BOOLEAN]

(* What memset leaves in a slot: every enumeration at its value 0.          *)
ZeroCommand == [id |-> 0, cmdType |-> "adminCommand", stateNeeded |-> "idle",
                user |-> "file", hasBuffer |-> FALSE]

ASSUME NullAssumption == NULL \notin Command /\ NoCommand \notin Command
ASSUME ThreadAssumption == NoThread \notin Threads

VARIABLES
    queue, enqueueIndex, dequeueIndex,   \* the ring
    isQueueEmpty, isInitComplete, state, \* the other fields of CommandQueue_t
    mutex,         \* the thread that holds CommandQueue.mutex, or NoThread
    pc,            \* pc[t]: where thread t is, "out" between two calls
    arg,           \* arg[t]: the command t passes to enqueue_command
    nextCommand,   \* nextCommand[t]: the command t has taken out
    ret            \* ret[t]: what t's last call returned

ring == <<queue, enqueueIndex, dequeueIndex, isQueueEmpty>>
vars == <<ring, isInitComplete, state, mutex, pc, arg, nextCommand, ret>>

Indexes == 0 .. MAX_QUEUE_SIZE - 1
Results == {0, -1, -2, -3, -4, -5, -8}   \* of a command that was taken

TypeOK ==
    /\ queue \in [Indexes -> Command]
    /\ enqueueIndex \in Indexes /\ dequeueIndex \in Indexes
    /\ isQueueEmpty \in BOOLEAN /\ isInitComplete \in BOOLEAN /\ state \in States
    /\ mutex \in Threads \cup {NoThread}
    /\ pc \in [Threads -> {"out", "enq_lock", "enq_test", "enq_put", "deq_lock", "deq_test",
                           "deq_take", "deq_run", "get_lock", "get_test"}]
    /\ arg \in [Threads -> Command \cup {NoCommand}]
    /\ nextCommand \in [Threads -> Command \cup {NoCommand}]
    /\ ret \in [Threads -> Results \cup {ERROR_NO_INIT, ERROR_FULL_QUEUE}]

(* CommandQueue is a global: zero until commandQueueInit.                   *)
Init ==
    /\ queue = [i \in Indexes |-> ZeroCommand]
    /\ enqueueIndex = 0 /\ dequeueIndex = 0
    /\ isQueueEmpty = FALSE /\ isInitComplete = FALSE /\ state = "idle"
    /\ mutex = NoThread
    /\ pc = [t \in Threads |-> "out"]
    /\ arg = [t \in Threads |-> NoCommand]
    /\ nextCommand = [t \in Threads |-> NoCommand]
    /\ ret = [t \in Threads |-> ERROR_NONE]

-----------------------------------------------------------------------------
(* Mutant: the index is not wrapped.                                        *)
NextIndexUnwrapped(index) == index + 1

queue_next_index(index) == (index + 1) % MAX_QUEUE_SIZE

(* Mutant: equal indexes alone are taken to mean full.                      *)
FullWhenEqual == enqueueIndex = dequeueIndex

queue_is_empty_locked == isQueueEmpty
queue_is_full_locked  == ~isQueueEmpty /\ enqueueIndex = dequeueIndex

validate_command(cmd) ==
    IF cmd \in Command THEN ERROR_NONE ELSE ERROR_INPUT

(* commandQueueInit, called once by main.  When pthread_mutex_init fails    *)
(* the queue stays uninitialised; main ignores that.                        *)
commandQueueInit ==
    /\ ~isInitComplete
    /\ queue' = [i \in Indexes |-> ZeroCommand]
    /\ enqueueIndex' = 0 /\ dequeueIndex' = 0
    /\ isQueueEmpty' = TRUE
    /\ isInitComplete' = TRUE
    /\ state' = "idle"
    /\ UNCHANGED <<mutex, pc, arg, nextCommand, ret>>

Goto(t, label) == pc' = [pc EXCEPT ![t] = label]
Return(t, code) == Goto(t, "out") /\ ret' = [ret EXCEPT ![t] = code]

(* pthread_mutex_lock of any of the three functions.                        *)
pthread_mutex_lock(t, before, after) ==
    /\ pc[t] = before
    /\ mutex = NoThread
    /\ mutex' = t
    /\ Goto(t, after)
    /\ UNCHANGED <<ring, isInitComplete, state, arg, nextCommand, ret>>

(* A call that finds the queue uninitialised.                               *)
NotInitialised(t) ==
    /\ pc[t] = "out"
    /\ ~isInitComplete
    /\ Return(t, ERROR_NO_INIT)
    /\ UNCHANGED <<ring, isInitComplete, state, mutex, arg, nextCommand>>

-----------------------------------------------------------------------------
(* enqueue_command                                                          *)

enqueue_command(t) ==
    \E cmd \in Requests :
        /\ pc[t] = "out"
        /\ isInitComplete
        /\ \/ /\ validate_command(cmd) # ERROR_NONE
              /\ Return(t, validate_command(cmd))
              /\ UNCHANGED arg
           \/ /\ validate_command(cmd) = ERROR_NONE
              /\ arg' = [arg EXCEPT ![t] = cmd]
              /\ Goto(t, "enq_lock")
              /\ UNCHANGED ret
        /\ UNCHANGED <<ring, isInitComplete, state, mutex, nextCommand>>

(* Mutant: the mutex is kept when the queue is full.                        *)
EnqueueTestKeepsMutex(t) ==
    /\ pc[t] = "enq_test"
    /\ \/ /\ queue_is_full_locked
          /\ arg' = [arg EXCEPT ![t] = NoCommand]
          /\ Return(t, ERROR_FULL_QUEUE)
       \/ /\ ~queue_is_full_locked
          /\ Goto(t, "enq_put")
          /\ UNCHANGED <<arg, ret>>
    /\ UNCHANGED <<ring, isInitComplete, state, mutex, nextCommand>>

EnqueueTest(t) ==
    /\ pc[t] = "enq_test"
    /\ \/ /\ queue_is_full_locked
          /\ mutex' = NoThread
          /\ arg' = [arg EXCEPT ![t] = NoCommand]
          /\ Return(t, ERROR_FULL_QUEUE)
       \/ /\ ~queue_is_full_locked
          /\ Goto(t, "enq_put")
          /\ UNCHANGED <<mutex, arg, ret>>
    /\ UNCHANGED <<ring, isInitComplete, state, nextCommand>>

EnqueuePut(t) ==
    /\ pc[t] = "enq_put"
    /\ queue' = [queue EXCEPT ![enqueueIndex] = arg[t]]
    /\ enqueueIndex' = queue_next_index(enqueueIndex)
    /\ isQueueEmpty' = FALSE
    /\ mutex' = NoThread
    /\ arg' = [arg EXCEPT ![t] = NoCommand]
    /\ Return(t, ERROR_NONE)
    /\ UNCHANGED <<dequeueIndex, isInitComplete, state, nextCommand>>

-----------------------------------------------------------------------------
(* processNextCommandInQueue                                                *)

processNextCommandInQueue(t) ==
    /\ pc[t] = "out"
    /\ isInitComplete
    /\ Goto(t, "deq_lock")
    /\ UNCHANGED <<ring, isInitComplete, state, mutex, arg, nextCommand, ret>>

(* Mutant: the mutex is kept when the queue is empty.                       *)
DequeueTestKeepsMutex(t) ==
    /\ pc[t] = "deq_test"
    /\ \/ queue_is_empty_locked /\ Return(t, ERROR_EMPTY_QUEUE)
       \/ ~queue_is_empty_locked /\ Goto(t, "deq_take") /\ UNCHANGED ret
    /\ UNCHANGED <<ring, isInitComplete, state, mutex, arg, nextCommand>>

DequeueTest(t) ==
    /\ pc[t] = "deq_test"
    /\ \/ /\ queue_is_empty_locked
          /\ mutex' = NoThread
          /\ Return(t, ERROR_EMPTY_QUEUE)
       \/ /\ ~queue_is_empty_locked
          /\ Goto(t, "deq_take")
          /\ UNCHANGED <<mutex, ret>>
    /\ UNCHANGED <<ring, isInitComplete, state, arg, nextCommand>>

(* Mutant: the slot is not cleared.                                         *)
DequeueTakeNoClear(t) ==
    /\ pc[t] = "deq_take"
    /\ nextCommand' = [nextCommand EXCEPT ![t] = queue[dequeueIndex]]
    /\ dequeueIndex' = queue_next_index(dequeueIndex)
    /\ isQueueEmpty' = (isQueueEmpty \/ dequeueIndex' = enqueueIndex)
    /\ mutex' = NoThread
    /\ Goto(t, "deq_run")
    /\ UNCHANGED <<queue, enqueueIndex, isInitComplete, state, arg, ret>>

DequeueTake(t) ==
    /\ pc[t] = "deq_take"
    /\ nextCommand' = [nextCommand EXCEPT ![t] = queue[dequeueIndex]]
    /\ queue' = [queue EXCEPT ![dequeueIndex] = ZeroCommand]
    /\ dequeueIndex' = queue_next_index(dequeueIndex)
    /\ isQueueEmpty' = (isQueueEmpty \/ dequeueIndex' = enqueueIndex)
    /\ mutex' = NoThread
    /\ Goto(t, "deq_run")
    /\ UNCHANGED <<enqueueIndex, isInitComplete, state, arg, ret>>

(* The codes execute_user_command can return, by the nvmeInterface.c call   *)
(* each branch makes.                                                       *)
execute_user_command(c) ==
    CASE c.user \in {"status", "get_status"} ->
            {NVME_STATUS_OK, NVME_STATUS_ERROR, NVME_STATUS_NOT_FOUND}
      [] c.user \in {"read_to_buffer", "write_to_buffer"} /\ ~c.hasBuffer -> {ERROR_INPUT}
      [] c.user = "read_to_buffer" /\ c.hasBuffer ->
            {NVME_STATUS_OK, NVME_STATUS_ERROR, NVME_STATUS_NOT_FOUND, NVME_STATUS_PART_DNE}
      [] c.user = "write_to_buffer" /\ c.hasBuffer ->
            {NVME_STATUS_OK, NVME_STATUS_ERROR, NVME_STATUS_NOT_FOUND, NVME_STATUS_INPUT,
             NVME_STATUS_BAD_NAME}
      [] c.user = "file" -> {ERROR_NOT_SUPPORTED}
      [] c.user = "list_ns" -> {NVME_STATUS_ERROR, NVME_STATUS_NOT_FOUND}
      [] c.user = "create_ns" ->
            {NVME_STATUS_OK, NVME_STATUS_ERROR, NVME_STATUS_NOT_FOUND, NVME_STATUS_INPUT}
      [] c.user = "remove_ns" ->
            {NVME_STATUS_OK, NVME_STATUS_ERROR, NVME_STATUS_NOT_FOUND, NVME_STATUS_INPUT,
             NVME_STATUS_BAD_NAME}
      [] OTHER -> {ERROR_INPUT}

(* execute_perf_command and execute_admin_command support nothing.          *)
Outcomes(c) ==
    IF c.stateNeeded # state /\ c.stateNeeded # "idle" THEN {ERROR_STATE}
    ELSE IF c.cmdType = "userCommand" THEN execute_user_command(c)
    ELSE {ERROR_NOT_SUPPORTED}

(* The state check and the execution, after the mutex was released.         *)
RunCommand(t) ==
    /\ pc[t] = "deq_run"
    /\ \E code \in Outcomes(nextCommand[t]) : Return(t, code)
    /\ nextCommand' = [nextCommand EXCEPT ![t] = NoCommand]
    /\ UNCHANGED <<ring, isInitComplete, state, mutex, arg>>

-----------------------------------------------------------------------------
(* get_queue_status                                                         *)

get_queue_status(t) ==
    /\ pc[t] = "out"
    /\ isInitComplete
    /\ Goto(t, "get_lock")
    /\ UNCHANGED <<ring, isInitComplete, state, mutex, arg, nextCommand, ret>>

StatusTest(t) ==
    /\ pc[t] = "get_test"
    /\ Return(t, CASE queue_is_empty_locked -> ERROR_EMPTY_QUEUE
                   [] queue_is_full_locked -> ERROR_FULL_QUEUE
                   [] OTHER -> ERROR_NONE)
    /\ mutex' = NoThread
    /\ UNCHANGED <<ring, isInitComplete, state, arg, nextCommand>>

-----------------------------------------------------------------------------
Locks(t) ==
    \/ pthread_mutex_lock(t, "enq_lock", "enq_test")
    \/ pthread_mutex_lock(t, "deq_lock", "deq_test")
    \/ pthread_mutex_lock(t, "get_lock", "get_test")

Calls(t) ==
    \/ NotInitialised(t)
    \/ enqueue_command(t) \/ processNextCommandInQueue(t) \/ get_queue_status(t)

(* The steps of a call from the lock to its end.                            *)
Works(t) ==
    \/ EnqueueTest(t) \/ EnqueuePut(t)
    \/ DequeueTest(t) \/ DequeueTake(t) \/ RunCommand(t)
    \/ StatusTest(t)

Next == commandQueueInit \/ \E t \in Threads : Calls(t) \/ Locks(t) \/ Works(t)

Spec == Init /\ [][Next]_vars

(* A thread that runs keeps running.  Nothing is assumed of who gets the    *)
(* mutex: a default pthread mutex is not fair.                              *)
Fairness == \A t \in Threads : WF_vars(Works(t))
FairSpec == Spec /\ Fairness

-----------------------------------------------------------------------------
(* The list the ring stands for                                             *)

(* The i-th slot from the front, and the n commands from there on.          *)
RingSlot(d, i)    == (d + i) % MAX_QUEUE_SIZE
RingList(q, d, n) == [i \in 1 .. n |-> q[RingSlot(d, i - 1)]]

(* The number of waiting commands, and the waiting commands, oldest first.  *)
Count ==
    IF isQueueEmpty THEN 0
    ELSE IF dequeueIndex < enqueueIndex THEN enqueueIndex - dequeueIndex
    ELSE MAX_QUEUE_SIZE - dequeueIndex + enqueueIndex
Contents == IF isInitComplete THEN RingList(queue, dequeueIndex, Count) ELSE <<>>

Accepted == {cmd \in Requests : validate_command(cmd) = ERROR_NONE}

Fifo == INSTANCE CommandFifo WITH
    Capacity <- MAX_QUEUE_SIZE, Command <- Accepted,
    OkCode <- ERROR_NONE, FullCode <- ERROR_FULL_QUEUE, EmptyCode <- ERROR_EMPTY_QUEUE,
    Refusals <- {ERROR_NO_INIT, ERROR_INPUT},
    fifo <- Contents, got <- nextCommand

-----------------------------------------------------------------------------
(* Properties                                                               *)

(* The ring behaves as a bounded list: commands come out once, in the order *)
(* they went in, none is lost or made up, and FULL and EMPTY are answered   *)
(* only when they are true, whatever the callers do at the same time.       *)
IsFifo == Fifo!Spec

InCriticalSection(t) == pc[t] \in {"enq_test", "enq_put", "deq_test", "deq_take", "get_test"}

(* A thread is between lock and unlock exactly when it holds the mutex: no  *)
(* early return keeps it, and no test of the ring is acted on without it.   *)
MutexMatchesCode == \A t \in Threads : InCriticalSection(t) <=> mutex = t

(* A slot that holds no waiting command is zero: a command that was taken   *)
(* out leaves nothing behind that a later call could run again.             *)
TakenSlotsCleared ==
    isInitComplete =>
        \A i \in Count .. MAX_QUEUE_SIZE - 1 : queue[RingSlot(dequeueIndex, i)] = ZeroCommand

(* Whoever takes the mutex gives it back, on every path of every function.  *)
MutexReleased == \A t \in Threads : mutex = t ~> mutex # t
=============================================================================
