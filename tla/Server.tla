------------------------------- MODULE Server -------------------------------
(***************************************************************************)
(* aesdsocket.c: the life of the server process.  main opens the socket,   *)
(* accepts clients and gives each a thread, keeps a list of their nodes,   *)
(* joins the threads that say they are complete, and on a signal joins     *)
(* them all and cleans up.  What a client's command does is the subject of *)
(* NvmePartitions; here it is one step.                                    *)
(*                                                                         *)
(* The signal handler runs in any thread.  The handlers are installed      *)
(* without SA_RESTART, so a blocked accept or recv of that thread fails    *)
(* with EINTR.                                                             *)
(***************************************************************************)
EXTENDS Integers, FiniteSets, FiniteSetsExt

CONSTANTS
    Nodes,       \* the addresses malloc can give to list nodes
    NoNode,      \* a null slist_data_t pointer
    MaxFds,      \* how many client descriptors the process may have open
    MaxPending,  \* bound: connections that wait to be accepted
    Faults       \* what may go wrong: "socket", "bind", "accept", "pthread_create", "recv",
                 \* "EINTR", "SIGPIPE"

ASSUME ServerAssumption ==
    /\ NoNode \notin Nodes /\ IsFiniteSet(Nodes)
    /\ MaxFds \in Nat /\ MaxPending \in Nat
    /\ Faults \subseteq {"socket", "bind", "accept", "pthread_create", "recv", "EINTR",
                          "SIGPIPE"}

VARIABLES
    sockfd,            \* "none", "unbound" or "bound" to port 9000
    pending,           \* connections that wait to be accepted
    endProgram,
    head, next,        \* the list: slh_first, and sle_next of each node
    alloc,             \* the nodes that are allocated
    isThreadComplete, clientfd,   \* the other fields of each node
    pc,                \* where main is
    dataptr, tmp,      \* main's loop variables
    thread,            \* thread[n]: where the thread of node n is, or "none"
    threadActive,      \* threadActive[n]: its flag of that name
    gone,              \* gone[n]: its client has closed the connection
    openFds            \* the client descriptors that are open

list  == <<head, next, alloc>>
main  == <<pc, dataptr, tmp>>
local == <<thread, threadActive>>
vars  == <<sockfd, pending, endProgram, list, isThreadComplete, clientfd, main, local, gone,
           openFds>>

Fds   == 1 .. MaxFds
BadFd == -1
Over  == pc \in {"ended", "killed", "nomemory"}

(* The places where a thread still uses its node or its client.             *)
Running == {"welcome", "loop", "recv", "work", "close", "mark"}

InSession(n) == thread[n] \in Running \ {"mark"} /\ clientfd[n] # BadFd

TypeOK ==
    /\ sockfd \in {"none", "unbound", "bound"} /\ pending \in 0 .. MaxPending
    /\ endProgram \in BOOLEAN
    /\ head \in Nodes \cup {NoNode} /\ next \in [Nodes -> Nodes \cup {NoNode}]
    /\ alloc \subseteq Nodes
    /\ isThreadComplete \in [Nodes -> BOOLEAN] /\ clientfd \in [Nodes -> Fds \cup {BadFd}]
    /\ pc \in {"boot", "loop", "accept", "interrupted", "create", "reap", "reap_join", "drain",
               "drain_join", "cleanup", "ended", "killed", "nomemory"}
    /\ dataptr \in Nodes \cup {NoNode} /\ tmp \in Nodes \cup {NoNode}
    /\ thread \in [Nodes -> Running \cup {"none", "returned"}]
    /\ threadActive \in [Nodes -> BOOLEAN] /\ gone \in [Nodes -> BOOLEAN]
    /\ openFds \subseteq Fds

Init ==
    /\ sockfd = "none" /\ pending = 0 /\ endProgram = FALSE
    /\ head = NoNode /\ next = [n \in Nodes |-> NoNode] /\ alloc = {}
    /\ isThreadComplete = [n \in Nodes |-> FALSE] /\ clientfd = [n \in Nodes |-> BadFd]
    /\ pc = "boot" /\ dataptr = NoNode /\ tmp = NoNode
    /\ thread = [n \in Nodes |-> "none"] /\ threadActive = [n \in Nodes |-> FALSE]
    /\ gone = [n \in Nodes |-> FALSE]
    /\ openFds = {}

(* The process ends at once: a signal nobody handles, a null pointer.       *)
Crash(how) == pc' = how /\ UNCHANGED <<dataptr, tmp>>

-----------------------------------------------------------------------------
(* queue.h                                                                  *)

(* The nodes on the list, found by following sle_next from the head.        *)
Walk ==
    LET at[k \in 0 .. Cardinality(Nodes)] ==
            IF k = 0 THEN head ELSE IF at[k - 1] = NoNode THEN NoNode ELSE next[at[k - 1]]
    IN  at
Listed == {Walk[k] : k \in DOMAIN Walk} \ {NoNode}

SLIST_INSERT_HEAD(n) == head' = n /\ next' = [next EXCEPT ![n] = head]

(* Mutant: the first element goes, whichever was meant.                     *)
RemoveFirst(n) == head' = next[head] /\ UNCHANGED next

SLIST_REMOVE(n) ==
    \/ /\ head = n
       /\ head' = next[n]
       /\ UNCHANGED next
    \/ /\ head # n
       /\ \E curelm \in Listed : /\ next[curelm] = n
                                 /\ next' = [next EXCEPT ![curelm] = next[n]]
       /\ UNCHANGED head

-----------------------------------------------------------------------------
(* main                                                                     *)

(* openSocket and the start of listenLoop.  The result of openSocket is     *)
(* overwritten, so that the loop starts whatever it was.                    *)
openSocket ==
    /\ pc = "boot"
    /\ \/ sockfd' = "bound"
       \/ sockfd' = "unbound" /\ "bind" \in Faults
       \/ sockfd' = "none" /\ "socket" \in Faults
    /\ head' = NoNode
    /\ pc' = "loop"
    /\ UNCHANGED <<pending, endProgram, next, alloc, isThreadComplete, clientfd, dataptr, tmp,
                   local, gone, openFds>>

(* accept is called: from here on a signal to main interrupts it.           *)
CallAccept ==
    /\ pc = "loop"
    /\ pc' = "accept"
    /\ UNCHANGED <<dataptr, tmp, sockfd, pending, endProgram, list, isThreadComplete, clientfd,
                   local, gone, openFds>>

(* accept returned fd; a node is made for it.  Without memory for one, the  *)
(* write to the null pointer ends the process.                              *)
NewNode(fd) ==
    \/ /\ alloc # Nodes
       /\ LET n == CHOOSE m \in Nodes : m \notin alloc
          IN  /\ alloc' = alloc \cup {n}
              /\ isThreadComplete' = [isThreadComplete EXCEPT ![n] = FALSE]
              /\ clientfd' = [clientfd EXCEPT ![n] = fd]
              /\ SLIST_INSERT_HEAD(n)
              /\ gone' = [gone EXCEPT ![n] = FALSE]
              /\ pc' = "create" /\ dataptr' = n /\ UNCHANGED tmp
    \/ /\ alloc = Nodes
       /\ Crash("nomemory")
       /\ UNCHANGED <<list, isThreadComplete, clientfd, gone>>

(* The descriptor accept gives out.                                         *)
LowestFd == Min(Fds \ openFds)

AcceptClient ==
    /\ pc = "accept" /\ sockfd = "bound" /\ pending > 0 /\ openFds # Fds
    /\ pending' = pending - 1
    /\ openFds' = openFds \cup {LowestFd}
    /\ NewNode(LowestFd)
    /\ UNCHANGED <<sockfd, endProgram, local>>

(* Mutant: the failure is taken for descriptor 0.                           *)
AcceptFailsZero ==
    /\ pc = "accept"
    /\ sockfd = "none" \/ openFds = Fds
    /\ NewNode(0)
    /\ UNCHANGED <<sockfd, pending, endProgram, local, openFds>>

(* accept fails and was not interrupted: there is no socket, no descriptor  *)
(* is left, or the client aborted its connection.  The loop goes on with    *)
(* descriptor -1.                                                           *)
AcceptFails ==
    /\ pc = "accept"
    /\ \/ (sockfd = "none" \/ openFds = Fds) /\ UNCHANGED pending
       \/ "accept" \in Faults /\ sockfd = "bound" /\ pending > 0 /\ pending' = pending - 1
    /\ NewNode(BadFd)
    /\ UNCHANGED <<sockfd, endProgram, local, openFds>>

(* accept was interrupted; the handler has set endProgram.                  *)
AcceptInterrupted ==
    /\ pc = "interrupted"
    /\ pc' = "drain" /\ dataptr' = head /\ tmp' = NoNode
    /\ UNCHANGED <<sockfd, pending, endProgram, list, isThreadComplete, clientfd, local, gone,
                   openFds>>

(* pthread_create; its result is not looked at.                             *)
CreateThread ==
    /\ pc = "create"
    /\ \/ /\ thread' = [thread EXCEPT ![dataptr] = "welcome"]
          /\ threadActive' = [threadActive EXCEPT ![dataptr] = TRUE]
       \/ "pthread_create" \in Faults /\ UNCHANGED local
    /\ pc' = "reap" /\ dataptr' = head /\ tmp' = NoNode
    /\ UNCHANGED <<sockfd, pending, endProgram, list, isThreadComplete, clientfd, gone, openFds>>

(* Mutant: the first thread that is not complete ends the loop.             *)
ReapStops ==
    /\ pc = "reap" /\ dataptr # NoNode /\ ~isThreadComplete[dataptr]
    /\ tmp' = NoNode /\ dataptr' = NoNode
    /\ UNCHANGED <<pc, sockfd, pending, endProgram, list, isThreadComplete, clientfd, local,
                   gone, openFds>>

(* One round of SLIST_FOREACH_SAFE in the loop that reaps complete threads. *)
ReapSkip ==
    /\ pc = "reap" /\ dataptr # NoNode /\ ~isThreadComplete[dataptr]
    /\ tmp' = next[dataptr] /\ dataptr' = next[dataptr]
    /\ UNCHANGED <<pc, sockfd, pending, endProgram, list, isThreadComplete, clientfd, local,
                   gone, openFds>>

ReapRemove ==
    /\ pc = "reap" /\ dataptr # NoNode /\ isThreadComplete[dataptr]
    /\ tmp' = next[dataptr]
    /\ SLIST_REMOVE(dataptr)
    /\ pc' = "reap_join"
    /\ UNCHANGED <<dataptr, sockfd, pending, endProgram, alloc, isThreadComplete, clientfd,
                   local, gone, openFds>>

(* Mutant: the loop never looks at endProgram.                              *)
LoopForEver ==
    /\ pc = "reap" /\ dataptr = NoNode
    /\ pc' = "loop"
    /\ UNCHANGED <<dataptr, tmp, sockfd, pending, endProgram, list, isThreadComplete, clientfd,
                   local, gone, openFds>>

(* while (!endProgram)                                                      *)
LoopTest ==
    /\ pc = "reap" /\ dataptr = NoNode
    /\ \/ ~endProgram /\ pc' = "loop" /\ UNCHANGED <<dataptr, tmp>>
       \/ endProgram /\ pc' = "drain" /\ dataptr' = head /\ tmp' = NoNode
    /\ UNCHANGED <<sockfd, pending, endProgram, list, isThreadComplete, clientfd, local,
                   gone, openFds>>

(* The loop that ends every thread.                                         *)
DrainRemove ==
    /\ pc = "drain" /\ dataptr # NoNode
    /\ tmp' = next[dataptr]
    /\ SLIST_REMOVE(dataptr)
    /\ pc' = "drain_join"
    /\ UNCHANGED <<dataptr, sockfd, pending, endProgram, alloc, isThreadComplete, clientfd,
                   local, gone, openFds>>

(* free(dataptr): what the node and its thread's stack held is forgotten.   *)
Free ==
    /\ alloc' = alloc \ {dataptr}
    /\ next' = [next EXCEPT ![dataptr] = NoNode]
    /\ isThreadComplete' = [isThreadComplete EXCEPT ![dataptr] = FALSE]
    /\ clientfd' = [clientfd EXCEPT ![dataptr] = BadFd]
    /\ threadActive' = [threadActive EXCEPT ![dataptr] = FALSE]
    /\ gone' = [gone EXCEPT ![dataptr] = FALSE]

(* Mutant: the node is freed without waiting for its thread.                *)
FreeNoJoin(from, to) ==
    /\ pc = from
    /\ thread' = [thread EXCEPT ![dataptr] = IF @ = "returned" THEN "none" ELSE @]
    /\ Free
    /\ pc' = to /\ dataptr' = tmp /\ UNCHANGED tmp
    /\ UNCHANGED <<sockfd, pending, endProgram, head, openFds>>

(* pthread_join and free, in either loop.  Joining a thread that was never  *)
(* created fails or ends the process.                                       *)
JoinAndFree(from, to) ==
    /\ pc = from
    /\ \/ /\ thread[dataptr] \in {"returned", "none"}
          /\ thread' = [thread EXCEPT ![dataptr] = "none"]
          /\ Free
          /\ pc' = to /\ dataptr' = tmp /\ UNCHANGED tmp
       \/ /\ thread[dataptr] = "none"
          /\ Crash("killed")
          /\ UNCHANGED <<thread, alloc, next, isThreadComplete, clientfd, threadActive, gone>>
    /\ UNCHANGED <<sockfd, pending, endProgram, head, openFds>>

DrainDone ==
    /\ pc = "drain" /\ dataptr = NoNode
    /\ pc' = "cleanup"
    /\ UNCHANGED <<dataptr, tmp, sockfd, pending, endProgram, list, isThreadComplete, clientfd,
                   local, gone, openFds>>

cleanupProgram ==
    /\ pc = "cleanup"
    /\ sockfd' = "none"
    /\ pc' = "ended"
    /\ UNCHANGED <<dataptr, tmp, pending, endProgram, list, isThreadComplete, clientfd, local,
                   gone, openFds>>

-----------------------------------------------------------------------------
(* repsondingThread of node n                                               *)

Goto(n, label) == thread' = [thread EXCEPT ![n] = label]

shared == <<sockfd, pending, endProgram, list, clientfd, gone>>

(* A send to a client that is gone may raise SIGPIPE, which nothing handles. *)
MaySend(n) ==
    \/ UNCHANGED main
    \/ "SIGPIPE" \in Faults /\ gone[n] /\ clientfd[n] # BadFd /\ Crash("killed")

Welcome(n) ==
    /\ thread[n] = "welcome" /\ ~Over
    /\ MaySend(n)
    /\ Goto(n, "loop")
    /\ UNCHANGED <<shared, isThreadComplete, threadActive, openFds>>

(* while (threadActive && !endProgram)                                      *)
SessionTest(n) ==
    /\ thread[n] = "loop" /\ ~Over
    /\ Goto(n, IF threadActive[n] /\ ~endProgram THEN "recv" ELSE "close")
    /\ UNCHANGED <<shared, isThreadComplete, main, threadActive, openFds>>

(* The client sent a line.                                                  *)
RecvLine(n) ==
    /\ thread[n] = "recv" /\ ~Over /\ ~gone[n] /\ clientfd[n] # BadFd
    /\ Goto(n, "work")
    /\ UNCHANGED <<shared, isThreadComplete, main, threadActive, openFds>>

(* The client closed its side.  What was received is executed once more.    *)
RecvEnd(n) ==
    /\ thread[n] = "recv" /\ ~Over /\ gone[n] /\ clientfd[n] # BadFd
    /\ threadActive' = [threadActive EXCEPT ![n] = FALSE]
    /\ Goto(n, "work")
    /\ UNCHANGED <<shared, isThreadComplete, main, openFds>>

(* recv fails: the thread returns at once.  Its descriptor stays open and   *)
(* it does not say that it is complete.                                     *)
RecvFails(n) ==
    /\ thread[n] = "recv" /\ ~Over
    /\ clientfd[n] = BadFd \/ ("recv" \in Faults /\ gone[n])
    /\ Goto(n, "returned")
    /\ UNCHANGED <<shared, isThreadComplete, main, threadActive, openFds>>

(* The command is executed and answered; quit ends the session.             *)
Work(n) ==
    /\ thread[n] = "work" /\ ~Over
    /\ MaySend(n)
    /\ \E quit \in BOOLEAN :
          threadActive' = [threadActive EXCEPT ![n] = @ /\ ~quit]
    /\ Goto(n, "loop")
    /\ UNCHANGED <<shared, isThreadComplete, openFds>>

(* Mutant: the session ends without closing its descriptor.                 *)
CloseNothing(n) ==
    /\ thread[n] = "close" /\ ~Over
    /\ Goto(n, "mark")
    /\ UNCHANGED <<shared, isThreadComplete, main, threadActive, openFds>>

CloseClient(n) ==
    /\ thread[n] = "close" /\ ~Over
    /\ openFds' = openFds \ {clientfd[n]}
    /\ Goto(n, "mark")
    /\ UNCHANGED <<shared, isThreadComplete, main, threadActive>>

(* Mutant: the descriptor is closed once more.                              *)
CloseAgain(n) ==
    /\ thread[n] = "mark" /\ ~Over
    /\ openFds' = openFds \ {clientfd[n]}
    /\ isThreadComplete' = [isThreadComplete EXCEPT ![n] = TRUE]
    /\ Goto(n, "returned")
    /\ UNCHANGED <<shared, main, threadActive>>

MarkComplete(n) ==
    /\ thread[n] = "mark" /\ ~Over
    /\ isThreadComplete' = [isThreadComplete EXCEPT ![n] = TRUE]
    /\ Goto(n, "returned")
    /\ UNCHANGED <<shared, main, threadActive, openFds>>

-----------------------------------------------------------------------------
(* The outside                                                              *)

Connect ==
    /\ ~Over /\ sockfd = "bound" /\ pending < MaxPending
    /\ pending' = pending + 1
    /\ UNCHANGED <<sockfd, endProgram, list, isThreadComplete, clientfd, main, local, gone,
                   openFds>>

HangUp(n) ==
    /\ ~Over /\ InSession(n) /\ ~gone[n]
    /\ gone' = [gone EXCEPT ![n] = TRUE]
    /\ UNCHANGED <<sockfd, pending, endProgram, list, isThreadComplete, clientfd, main, local,
                   openFds>>

(* SIGINT or SIGTERM, in main: a blocked accept is interrupted.             *)
SignalMain ==
    /\ ~Over
    /\ endProgram' = TRUE
    /\ pc' = IF pc = "accept" THEN "interrupted" ELSE pc
    /\ UNCHANGED <<dataptr, tmp, sockfd, pending, list, isThreadComplete, clientfd, local, gone,
                   openFds>>

(* The same in a client's thread, which the kernel may choose but seldom    *)
(* does: a blocked recv fails.                                              *)
SignalThread(n) ==
    /\ "EINTR" \in Faults /\ ~Over /\ thread[n] \in Running
    /\ endProgram' = TRUE
    /\ Goto(n, IF thread[n] = "recv" THEN "returned" ELSE thread[n])
    /\ UNCHANGED <<sockfd, pending, list, isThreadComplete, clientfd, main, threadActive, gone,
                   openFds>>

Terminated == Over /\ UNCHANGED vars

-----------------------------------------------------------------------------
listenLoop ==
    \/ CallAccept \/ AcceptClient \/ AcceptFails \/ AcceptInterrupted \/ CreateThread
    \/ ReapSkip \/ ReapRemove \/ JoinAndFree("reap_join", "reap") \/ LoopTest
    \/ DrainRemove \/ JoinAndFree("drain_join", "drain") \/ DrainDone

Main == openSocket \/ listenLoop \/ cleanupProgram

(* The steps of a client's thread that wait for nobody.                     *)
repsondingThread(n) ==
    \/ Welcome(n) \/ SessionTest(n) \/ RecvEnd(n) \/ RecvFails(n)
    \/ Work(n) \/ CloseClient(n) \/ MarkComplete(n)

handle_sigint == SignalMain \/ \E n \in Nodes : SignalThread(n)

Next ==
    \/ Main
    \/ \E n \in Nodes : repsondingThread(n) \/ RecvLine(n) \/ HangUp(n)
    \/ Connect \/ handle_sigint \/ Terminated

Spec == Init /\ [][Next]_vars

(* Every thread of the process keeps running.                               *)
Fairness == WF_vars(Main) /\ \A n \in Nodes : WF_vars(repsondingThread(n))
FairSpec == Spec /\ Fairness

(* Besides, clients keep coming and every client leaves in the end.         *)
Helped == WF_vars(Connect) /\ \A n \in Nodes : WF_vars(HangUp(n))
HelpedSpec == FairSpec /\ Helped

-----------------------------------------------------------------------------
(* Properties                                                               *)

Joining == IF pc \in {"reap_join", "drain_join"} THEN {dataptr} ELSE {}

(* The list holds exactly the nodes that are allocated, each once, but for  *)
(* the one that is being joined: no node is lost and none is freed while it *)
(* can still be reached.                                                    *)
ListHoldsNodes ==
    pc # "killed" => /\ Walk[Cardinality(Nodes)] = NoNode
                     /\ Listed = alloc \ Joining

(* A thread that still uses its node finds it allocated.                    *)
NodesOutliveThreads == \A n \in Nodes : thread[n] \in Running => n \in alloc

(* "Only returns via upon receiving SIGINT or SIGTERM": cleanup follows a   *)
(* signal, with every thread joined and every node freed.                   *)
CleanEnd ==
    pc \in {"cleanup", "ended"} =>
        endProgram /\ alloc = {} /\ \A n \in Nodes : thread[n] = "none"

(* No two sessions share a descriptor, and a session's descriptor is open   *)
(* until the session itself closes it.                                      *)
DescriptorsApart ==
    \A n \in Nodes : InSession(n) =>
        /\ clientfd[n] \in openFds
        /\ \A m \in Nodes : InSession(m) /\ m # n => clientfd[m] # clientfd[n]

(* A descriptor is left open for good only where the code returns from a    *)
(* failed recv, or has no thread for the client.                            *)
Held == {clientfd[n] : n \in {m \in Nodes : InSession(m) \/ (pc = "create" /\ m = dataptr)}}
Leaked == openFds \ Held
Failure(fd) ==
    \/ \E n \in Nodes : /\ thread[n] = "recv" /\ thread'[n] = "returned"
                        /\ clientfd[n] = fd
    \/ pc = "create" /\ clientfd[dataptr] = fd
    \/ Over'
OnlyFailuresLeak == [][\A fd \in Leaked' \ Leaked : Failure(fd)]_vars

(* A thread that says it is complete when the next client comes is joined   *)
(* and its node freed, before memory is taken for another: the process only *)
(* runs out of memory with nodes that were not complete.                    *)
CompleteIsReaped ==
    \A n \in Nodes :
        (pc = "create" /\ n \in alloc /\ isThreadComplete[n])
            ~> (n \notin alloc \/ pc \in {"ended", "killed"})

(* A signal ends the program, provided that clients leave and, for a signal *)
(* that came between the test of endProgram and accept, that another one    *)
(* connects.  On a port nobody knows of (bind has failed), none does.       *)
EndsWithHelp == endProgram ~> (Over \/ sockfd = "unbound")

(* "Expects SIGINT and SIGTERM to end program."                             *)
SignalEnds == endProgram ~> Over
=============================================================================
