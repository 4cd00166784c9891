---------------------------- MODULE CommandFifo ----------------------------
(***************************************************************************)
(* What the command queue promises: a bounded first-in first-out list of   *)
(* commands.  A caller either puts a command at the end, or takes the one  *)
(* at the front and answers for it, or looks; each happens at one instant, *)
(* and FULL and EMPTY are answered only when the list is full or empty.    *)
(***************************************************************************)
EXTENDS Sequences, Integers

CONSTANTS
    Threads,      \* the callers
    Capacity,     \* the most commands the list holds
    Command,      \* the commands that can be put
    NoCommand,    \* what got[t] is when t has no command in hand
    OkCode, FullCode, EmptyCode,   \* the answers of the list itself
    Refusals,     \* the answers to a call that does not reach the list
    Results       \* the answers for a command that was taken

VARIABLES
    fifo,   \* the commands put and not yet taken, oldest first
    got,    \* got[t]: the command t has taken and not yet answered for
    ret     \* ret[t]: what t's last call returned

Init ==
    /\ fifo = <<>>
    /\ got = [t \in Threads |-> NoCommand]
    /\ ret = [t \in Threads |-> OkCode]

Answer(t, code) == ret' = [ret EXCEPT ![t] = code] /\ UNCHANGED <<fifo, got>>

Put(t, c) ==
    /\ Len(fifo) < Capacity
    /\ fifo' = Append(fifo, c)
    /\ ret' = [ret EXCEPT ![t] = OkCode]
    /\ UNCHANGED got

Take(t) ==
    /\ fifo # <<>>
    /\ got[t] = NoCommand
    /\ got' = [got EXCEPT ![t] = Head(fifo)]
    /\ fifo' = Tail(fifo)
    /\ UNCHANGED ret

(* The caller answers for the command it took.                              *)
Finish(t, code) ==
    /\ got[t] # NoCommand
    /\ got' = [got EXCEPT ![t] = NoCommand]
    /\ ret' = [ret EXCEPT ![t] = code]
    /\ UNCHANGED fifo

Full(t)    == Len(fifo) = Capacity /\ Answer(t, FullCode)
Empty(t)   == fifo = <<>> /\ Answer(t, EmptyCode)
Between(t) == fifo # <<>> /\ Len(fifo) < Capacity /\ Answer(t, OkCode)

Next ==
    \E t \in Threads :
        \/ \E c \in Command : Put(t, c)
        \/ Take(t)
        \/ \E code \in Results : Finish(t, code)
        \/ \E code \in Refusals : Answer(t, code)
        \/ Full(t) \/ Empty(t) \/ Between(t)

Spec == Init /\ [][Next]_<<fifo, got, ret>>
=============================================================================
