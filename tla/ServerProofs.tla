---------------------------- MODULE ServerProofs ----------------------------
(***************************************************************************)
(* Proofs about Server for any number of nodes and descriptors and every   *)
(* set of faults: threads find their nodes allocated, sessions do not      *)
(* share or lose their descriptors, and only failures leak one.            *)
(***************************************************************************)
EXTENDS Server, NatFacts

LEMMA LowestFdIsFree ==
    ASSUME openFds \subseteq Fds, openFds # Fds
    PROVE  LowestFd \in Fds /\ LowestFd \notin openFds
<1>1. PICK free : free = Fds \ openFds
  OBVIOUS
<1>2. free \subseteq Nat /\ free # {}
  <2>1. Fds \subseteq Nat
    BY ServerAssumption DEF Fds
  <2> QED  BY <1>1, <2>1, Zenon
<1>3. Min(free) \in free
  BY <1>2, MinIsLeast
<1> QED  BY <1>1, <1>3 DEF LowestFd

LEMMA NewNodeIsFree ==
    ASSUME alloc \subseteq Nodes, alloc # Nodes
    PROVE  (CHOOSE m \in Nodes : m \notin alloc) \in Nodes \ alloc
  OBVIOUS

-----------------------------------------------------------------------------
(* The type invariant                                                       *)

LEMMA TypeInit == Init => TypeOK
<1> SUFFICES ASSUME Init PROVE TypeOK
  OBVIOUS
<1>1. pending \in 0 .. MaxPending
  BY ServerAssumption DEF Init
<1> QED  BY <1>1 DEF Init, TypeOK

LEMMA NewNodeType ==
    ASSUME TypeOK, NEW fd \in Fds \cup {BadFd}, NewNode(fd)
    PROVE  /\ head' \in Nodes \cup {NoNode} /\ next' \in [Nodes -> Nodes \cup {NoNode}]
           /\ alloc' \subseteq Nodes
           /\ isThreadComplete' \in [Nodes -> BOOLEAN]
           /\ clientfd' \in [Nodes -> Fds \cup {BadFd}]
           /\ gone' \in [Nodes -> BOOLEAN]
           /\ pc' \in {"create", "nomemory"}
           /\ dataptr' \in Nodes \cup {NoNode} /\ tmp' \in Nodes \cup {NoNode}
<1>1. CASE alloc # Nodes
  <2> DEFINE n == CHOOSE m \in Nodes : m \notin alloc
  <2>1. n \in Nodes
    BY <1>1, NewNodeIsFree DEF TypeOK
  <2> HIDE DEF n
  <2>2. /\ alloc' = alloc \cup {n}
        /\ isThreadComplete' = [isThreadComplete EXCEPT ![n] = FALSE]
        /\ clientfd' = [clientfd EXCEPT ![n] = fd]
        /\ SLIST_INSERT_HEAD(n)
        /\ gone' = [gone EXCEPT ![n] = FALSE]
        /\ pc' = "create" /\ dataptr' = n /\ UNCHANGED tmp
    BY <1>1 DEF NewNode, n
  <2> QED  BY <2>1, <2>2 DEF TypeOK, SLIST_INSERT_HEAD
<1>2. CASE alloc = Nodes
  BY <1>2 DEF TypeOK, NewNode, Crash, list
<1> QED  BY <1>1, <1>2

LEMMA RemoveType ==
    ASSUME TypeOK, NEW n \in Nodes, SLIST_REMOVE(n)
    PROVE  head' \in Nodes \cup {NoNode} /\ next' \in [Nodes -> Nodes \cup {NoNode}]
  BY DEF TypeOK, SLIST_REMOVE

LEMMA MainType == TypeOK /\ Main => TypeOK'
<1> SUFFICES ASSUME TypeOK, Main PROVE TypeOK'
  OBVIOUS
<1>1. CASE openSocket
  BY <1>1 DEF TypeOK, openSocket, local
<1>2. CASE CallAccept
  BY <1>2 DEF TypeOK, CallAccept, list, local
<1>3. CASE AcceptClient
  <2>1. LowestFd \in Fds
    BY <1>3, LowestFdIsFree DEF TypeOK, AcceptClient
  <2>2. pending' \in 0 .. MaxPending /\ openFds' \subseteq Fds
    BY <1>3, <2>1, ServerAssumption DEF TypeOK, AcceptClient
  <2> QED  BY <1>3, <2>1, <2>2, NewNodeType DEF TypeOK, AcceptClient, local
<1>4. CASE AcceptFails
  <2>1. pending' \in 0 .. MaxPending
    BY <1>4, ServerAssumption DEF TypeOK, AcceptFails
  <2> QED  BY <1>4, <2>1, NewNodeType DEF TypeOK, AcceptFails, local
<1>5. CASE AcceptInterrupted
  BY <1>5 DEF TypeOK, AcceptInterrupted, list, local
<1>6. CASE CreateThread
  BY <1>6 DEF TypeOK, CreateThread, list, local, Running
<1>7. CASE ReapSkip
  BY <1>7 DEF TypeOK, ReapSkip, list, local
<1>8. CASE ReapRemove
  BY <1>8, RemoveType DEF TypeOK, ReapRemove, local
<1>9. ASSUME NEW from \in {"reap_join", "drain_join"}, NEW to \in {"reap", "drain"},
             JoinAndFree(from, to)
      PROVE  TypeOK'
  BY <1>9 DEF TypeOK, JoinAndFree, Free, Crash
<1>10. CASE LoopTest
  BY <1>10 DEF TypeOK, LoopTest, list, local
<1>11. CASE DrainRemove
  BY <1>11, RemoveType DEF TypeOK, DrainRemove, local
<1>12. CASE DrainDone
  BY <1>12 DEF TypeOK, DrainDone, list, local
<1>13. CASE cleanupProgram
  BY <1>13 DEF TypeOK, cleanupProgram, list, local
<1> QED
  BY <1>1, <1>2, <1>3, <1>4, <1>5, <1>6, <1>7, <1>8, <1>9, <1>10, <1>11, <1>12, <1>13
  DEF Main, listenLoop

LEMMA ThreadType ==
    ASSUME TypeOK, NEW n \in Nodes,
           repsondingThread(n) \/ RecvLine(n) \/ HangUp(n) \/ SignalThread(n)
    PROVE  TypeOK'
<1>1. CASE Welcome(n)
  BY <1>1 DEF TypeOK, Welcome, MaySend, Crash, Goto, shared, list, main, Running
<1>2. CASE SessionTest(n)
  BY <1>2 DEF TypeOK, SessionTest, Goto, shared, list, main, Running
<1>3. CASE RecvLine(n)
  BY <1>3 DEF TypeOK, RecvLine, Goto, shared, list, main, Running
<1>4. CASE RecvEnd(n)
  BY <1>4 DEF TypeOK, RecvEnd, Goto, shared, list, main, Running
<1>5. CASE RecvFails(n)
  BY <1>5 DEF TypeOK, RecvFails, Goto, shared, list, main, Running
<1>6. CASE Work(n)
  <2>1. threadActive' \in [Nodes -> BOOLEAN]
    BY <1>6 DEF TypeOK, Work
  <2> QED  BY <1>6, <2>1 DEF TypeOK, Work, MaySend, Crash, Goto, shared, list, main, Running
<1>7. CASE CloseClient(n)
  BY <1>7 DEF TypeOK, CloseClient, Goto, shared, list, main, Running
<1>8. CASE MarkComplete(n)
  BY <1>8 DEF TypeOK, MarkComplete, Goto, shared, list, main, Running
<1>9. CASE HangUp(n)
  BY <1>9 DEF TypeOK, HangUp, local, list, main
<1>10. CASE SignalThread(n)
  BY <1>10 DEF TypeOK, SignalThread, Goto, list, main, Running
<1> QED
  BY <1>1, <1>2, <1>3, <1>4, <1>5, <1>6, <1>7, <1>8, <1>9, <1>10 DEF repsondingThread

LEMMA TypeStep == TypeOK /\ [Next]_vars => TypeOK'
<1> SUFFICES ASSUME TypeOK, [Next]_vars PROVE TypeOK'
  OBVIOUS
<1>1. CASE Connect
  <2>1. pending' \in 0 .. MaxPending
    BY <1>1, ServerAssumption DEF TypeOK, Connect
  <2> QED  BY <1>1, <2>1 DEF TypeOK, Connect, list, main, local
<1>2. CASE SignalMain
  BY <1>2 DEF TypeOK, SignalMain, list, local
<1>3. CASE UNCHANGED vars
  BY <1>3 DEF TypeOK, vars, list, main, local
<1> QED
  BY <1>1, <1>2, <1>3, MainType, ThreadType DEF Next, handle_sigint, Terminated

(* aesdsocket.c: every variable of the server keeps its type.               *)
THEOREM TypeCorrect == Spec => []TypeOK
<1>1. Init => TypeOK
  BY TypeInit
<1>2. TypeOK /\ [Next]_vars => TypeOK'
  BY TypeStep
<1> QED  BY <1>1, <1>2, PTL DEF Spec

-----------------------------------------------------------------------------
(* Nodes and descriptors                                                    *)

(* Between accept and pthread_create, the new node and its descriptor       *)
(* belong to no thread.                                                     *)
AtCreate ==
    pc = "create" =>
        /\ dataptr \in alloc
        /\ thread[dataptr] \notin Running
        /\ clientfd[dataptr] # BadFd =>
              /\ clientfd[dataptr] \in openFds
              /\ \A m \in Nodes : InSession(m) => clientfd[m] # clientfd[dataptr]

IInv == TypeOK /\ NodesOutliveThreads /\ AtCreate /\ DescriptorsApart

LEMMA IInvInit == Init => IInv
<1> SUFFICES ASSUME Init PROVE IInv
  OBVIOUS
<1>1. TypeOK
  BY TypeInit
<1>2. \A n \in Nodes : thread[n] = "none"
  BY DEF Init
<1> QED
  BY <1>1, <1>2 DEF Init, IInv, NodesOutliveThreads, AtCreate, DescriptorsApart, InSession, Running

(* A step that leaves threads, nodes and descriptors alone and does not     *)
(* enter "create" keeps the invariant.                                      *)
LEMMA IdleStep ==
    ASSUME IInv, TypeOK', UNCHANGED <<thread, alloc, clientfd, openFds>>,
           pc' = "create" => pc = "create" /\ dataptr' = dataptr
    PROVE  IInv'
<1>1. NodesOutliveThreads'
  BY DEF IInv, NodesOutliveThreads
<1>2. \A m \in Nodes : InSession(m)' = InSession(m)
  BY DEF InSession
<1>3. DescriptorsApart'
  BY <1>2 DEF IInv, DescriptorsApart
<1>4. AtCreate'
  BY <1>2 DEF IInv, AtCreate
<1> QED  BY <1>1, <1>3, <1>4 DEF IInv

LEMMA NewNodeStep ==
    ASSUME IInv, TypeOK', NEW fd, NewNode(fd), UNCHANGED thread, openFds \subseteq openFds',
           fd # BadFd => fd \in openFds' /\ fd \notin openFds
    PROVE  IInv'
<1>1. CASE alloc # Nodes
  <2>1. PICK n \in Nodes \ alloc : n = CHOOSE m \in Nodes : m \notin alloc
    BY <1>1, NewNodeIsFree DEF IInv, TypeOK
  <2>2. /\ alloc' = alloc \cup {n}
        /\ clientfd' = [clientfd EXCEPT ![n] = fd]
        /\ dataptr' = n
    BY <1>1, <2>1 DEF NewNode
  <2>3. thread[n] \notin Running
    BY <2>1 DEF IInv, NodesOutliveThreads
  <2>4. clientfd'[n] = fd /\ \A m \in Nodes \ {n} : clientfd'[m] = clientfd[m]
    BY <2>1, <2>2 DEF IInv, TypeOK
  <2>5. ~InSession(n)' /\ \A m \in Nodes \ {n} : InSession(m)' = InSession(m)
    BY <2>3, <2>4 DEF InSession
  <2>6. NodesOutliveThreads'
    BY <2>2 DEF IInv, NodesOutliveThreads
  <2>7. DescriptorsApart'
    BY <2>4, <2>5 DEF IInv, DescriptorsApart
  <2>8. AtCreate'
    <3>1. fd # BadFd => \A m \in Nodes : InSession(m)' => clientfd'[m] # fd
      BY <2>4, <2>5 DEF IInv, DescriptorsApart
    <3>2. dataptr' \in alloc' /\ thread'[dataptr'] \notin Running /\ clientfd'[dataptr'] = fd
      BY <2>1, <2>2, <2>3, <2>4
    <3> QED  BY <3>1, <3>2 DEF AtCreate
  <2> QED  BY <2>6, <2>7, <2>8 DEF IInv
<1>2. CASE alloc = Nodes
  <2>1. UNCHANGED <<alloc, clientfd>> /\ pc' = "nomemory"
    BY <1>2 DEF NewNode, Crash, list
  <2>2. \A m \in Nodes : InSession(m)' = InSession(m)
    BY <2>1 DEF InSession
  <2> QED
    BY <2>1, <2>2 DEF IInv, NodesOutliveThreads, AtCreate, DescriptorsApart
<1> QED  BY <1>1, <1>2

LEMMA CreateStep ==
    ASSUME IInv, TypeOK', CreateThread
    PROVE  IInv'
<1>1. /\ pc = "create" /\ pc' = "reap"
      /\ UNCHANGED <<alloc, clientfd, openFds>>
      /\ dataptr \in alloc /\ dataptr \in Nodes
  BY DEF CreateThread, list, IInv, AtCreate, TypeOK
<1> PICK d \in Nodes : d = dataptr
  BY <1>1
<1>2. CASE UNCHANGED thread
  BY <1>1, <1>2, IdleStep
<1>3. CASE thread' = [thread EXCEPT ![dataptr] = "welcome"]
  <2>1. thread'[d] = "welcome" /\ \A m \in Nodes \ {d} : thread'[m] = thread[m]
    BY <1>1, <1>3 DEF IInv, TypeOK
  <2>2. \A m \in Nodes \ {d} : InSession(m)' = InSession(m)
    BY <1>1, <2>1 DEF InSession
  <2>3. InSession(d)' => clientfd[d] # BadFd
    BY <1>1, <2>1 DEF InSession
  <2>4. NodesOutliveThreads'
    BY <1>1, <2>1 DEF IInv, NodesOutliveThreads
  <2>5. DescriptorsApart'
    BY <1>1, <2>2, <2>3 DEF IInv, DescriptorsApart, AtCreate
  <2>6. AtCreate'
    BY <1>1 DEF AtCreate
  <2> QED  BY <2>4, <2>5, <2>6 DEF IInv
<1> QED  BY <1>2, <1>3 DEF CreateThread, local

LEMMA JoinStep ==
    ASSUME IInv, TypeOK', NEW from \in {"reap_join", "drain_join"}, NEW to \in {"reap", "drain"},
           JoinAndFree(from, to)
    PROVE  IInv'
<1> PICK d : d = dataptr
  OBVIOUS
<1>1. CASE UNCHANGED <<thread, alloc, clientfd>>
  BY <1>1, IdleStep DEF JoinAndFree, Crash
<1>2. CASE /\ thread[dataptr] \in {"returned", "none"}
           /\ thread' = [thread EXCEPT ![dataptr] = "none"]
           /\ Free
           /\ pc' = to
  <2>1. /\ \A m \in Nodes : m # d => thread'[m] = thread[m] /\ clientfd'[m] = clientfd[m]
        /\ d \in Nodes => thread'[d] = "none"
        /\ alloc' = alloc \ {d}
        /\ openFds' = openFds /\ pc' # "create"
    BY <1>2 DEF IInv, TypeOK, Free, JoinAndFree
  <2>2. \A m \in Nodes : m # d => InSession(m)' = InSession(m)
    BY <2>1 DEF InSession
  <2>3. d \in Nodes => ~InSession(d)'
    BY <2>1 DEF InSession, Running
  <2>4. NodesOutliveThreads'
    BY <2>1 DEF IInv, NodesOutliveThreads, Running
  <2>5. DescriptorsApart'
    BY <2>1, <2>2, <2>3 DEF IInv, DescriptorsApart
  <2> QED  BY <2>1, <2>4, <2>5 DEF IInv, AtCreate
<1> QED  BY <1>1, <1>2 DEF JoinAndFree

(* A thread moves from one place to another and keeps its descriptor.       *)
LEMMA MoveStep ==
    ASSUME IInv, TypeOK', NEW n \in Nodes, NEW label, thread[n] \in Running,
           thread[n] = "mark" => label \notin Running,
           Goto(n, label), UNCHANGED <<alloc, clientfd, openFds>>,
           pc' = "create" => pc = "create" /\ dataptr' = dataptr
    PROVE  IInv'
<1>1. thread'[n] = label /\ \A m \in Nodes \ {n} : thread'[m] = thread[m]
  BY DEF Goto, IInv, TypeOK
<1>2. \A m \in Nodes : InSession(m)' => InSession(m)
  BY <1>1 DEF InSession, Running
<1>3. NodesOutliveThreads'
  BY <1>1 DEF IInv, NodesOutliveThreads
<1>4. DescriptorsApart'
  BY <1>2 DEF IInv, DescriptorsApart
<1>5. AtCreate'
  <2> SUFFICES ASSUME pc' = "create" PROVE AtCreate'
    BY DEF AtCreate
  <2>1. pc = "create" /\ dataptr' = dataptr /\ dataptr \in Nodes /\ dataptr # n
    BY DEF IInv, AtCreate, TypeOK
  <2> QED  BY <1>1, <1>2, <2>1 DEF IInv, AtCreate
<1> QED  BY <1>3, <1>4, <1>5 DEF IInv

LEMMA CloseStep ==
    ASSUME IInv, TypeOK', NEW n \in Nodes, CloseClient(n)
    PROVE  IInv'
<1>1. /\ thread[n] = "close" /\ UNCHANGED <<alloc, clientfd, pc, dataptr>>
      /\ openFds' = openFds \ {clientfd[n]}
      /\ thread'[n] = "mark" /\ \A m \in Nodes \ {n} : thread'[m] = thread[m]
  BY DEF CloseClient, Goto, IInv, TypeOK, shared, list, main
<1>2. ~InSession(n)' /\ \A m \in Nodes \ {n} : InSession(m)' = InSession(m)
  BY <1>1 DEF InSession
<1>3. clientfd[n] # BadFd => InSession(n)
  BY <1>1 DEF InSession, Running
<1>4. NodesOutliveThreads'
  BY <1>1 DEF IInv, NodesOutliveThreads, Running
<1>5. DescriptorsApart'
  <2> SUFFICES ASSUME NEW m \in Nodes, InSession(m)'
               PROVE  /\ clientfd'[m] \in openFds'
                      /\ \A k \in Nodes : InSession(k)' /\ k # m => clientfd'[k] # clientfd'[m]
    BY DEF DescriptorsApart
  <2>1. m # n /\ InSession(m) /\ clientfd[m] # BadFd
    BY <1>2 DEF InSession
  <2>2. clientfd[m] \in openFds /\ clientfd[m] # clientfd[n]
    BY <1>3, <2>1 DEF IInv, DescriptorsApart
  <2> QED  BY <1>1, <1>2, <2>1, <2>2 DEF IInv, DescriptorsApart
<1>6. AtCreate'
  <2> SUFFICES ASSUME pc' = "create" PROVE AtCreate'
    BY DEF AtCreate
  <2>1. pc = "create" /\ dataptr \in Nodes /\ dataptr # n
    BY <1>1 DEF IInv, AtCreate, TypeOK, Running
  <2> QED  BY <1>1, <1>2, <1>3, <2>1 DEF IInv, AtCreate
<1> QED  BY <1>4, <1>5, <1>6 DEF IInv

LEMMA IInvStep == IInv /\ [Next]_vars => IInv'
<1> SUFFICES ASSUME IInv, [Next]_vars PROVE IInv'
  OBVIOUS
<1> TypeOK'
  BY TypeStep DEF IInv
<1>1. CASE AcceptClient
  <2>1. LowestFd \in openFds' /\ LowestFd \notin openFds /\ openFds \subseteq openFds'
    BY <1>1, LowestFdIsFree DEF AcceptClient, IInv, TypeOK
  <2>2. PICK fd : fd = LowestFd
    OBVIOUS
  <2>3. NewNode(fd) /\ UNCHANGED thread
    BY <1>1, <2>2 DEF AcceptClient, local
  <2> QED  BY <2>1, <2>2, <2>3, NewNodeStep
<1>2. CASE AcceptFails
  <2>1. NewNode(BadFd) /\ UNCHANGED <<thread, openFds>>
    BY <1>2 DEF AcceptFails, local
  <2> QED  BY <2>1, NewNodeStep
<1>3. CASE CreateThread
  BY <1>3, CreateStep
<1>4. CASE JoinAndFree("reap_join", "reap") \/ JoinAndFree("drain_join", "drain")
  BY <1>4, JoinStep
<1>5. CASE openSocket \/ CallAccept \/ AcceptInterrupted
  BY <1>5, IdleStep DEF openSocket, CallAccept, AcceptInterrupted, list, local
<1>6. CASE ReapSkip \/ ReapRemove \/ LoopTest
  BY <1>6, IdleStep DEF ReapSkip, ReapRemove, LoopTest, list, local
<1>7. CASE DrainRemove \/ DrainDone \/ cleanupProgram
  BY <1>7, IdleStep DEF DrainRemove, DrainDone, cleanupProgram, list, local
<1>8. ASSUME NEW n \in Nodes, repsondingThread(n) \/ RecvLine(n) \/ HangUp(n) \/ SignalThread(n)
      PROVE  IInv'
  <2>1. CASE Welcome(n)
    <3>1. /\ thread[n] \in Running /\ thread[n] # "mark" /\ Goto(n, "loop")
          /\ UNCHANGED <<alloc, clientfd, openFds>>
          /\ pc' = "create" => pc = "create" /\ dataptr' = dataptr
      BY <2>1 DEF Welcome, MaySend, Crash, shared, list, main, Running
    <3> QED  BY <3>1, MoveStep
  <2>2. CASE SessionTest(n)
    <3>1. PICK label : /\ thread[n] \in Running /\ thread[n] # "mark" /\ Goto(n, label)
                       /\ UNCHANGED <<alloc, clientfd, openFds, pc, dataptr>>
      BY <2>2 DEF SessionTest, shared, list, main, Running
    <3> QED  BY <3>1, MoveStep
  <2>3. CASE RecvLine(n) \/ RecvEnd(n)
    <3>1. /\ thread[n] \in Running /\ thread[n] # "mark" /\ Goto(n, "work")
          /\ UNCHANGED <<alloc, clientfd, openFds, pc, dataptr>>
      BY <2>3 DEF RecvLine, RecvEnd, shared, list, main, Running
    <3> QED  BY <3>1, MoveStep
  <2>4. CASE RecvFails(n)
    <3>1. /\ thread[n] \in Running /\ thread[n] # "mark" /\ Goto(n, "returned")
          /\ UNCHANGED <<alloc, clientfd, openFds, pc, dataptr>>
      BY <2>4 DEF RecvFails, shared, list, main, Running
    <3> QED  BY <3>1, MoveStep
  <2>5. CASE Work(n)
    <3>1. /\ thread[n] \in Running /\ thread[n] # "mark" /\ Goto(n, "loop")
          /\ UNCHANGED <<alloc, clientfd, openFds>>
          /\ pc' = "create" => pc = "create" /\ dataptr' = dataptr
      BY <2>5 DEF Work, MaySend, Crash, shared, list, main, Running
    <3> QED  BY <3>1, MoveStep
  <2>6. CASE CloseClient(n)
    BY <2>6, CloseStep
  <2>7. CASE MarkComplete(n)
    <3>1. /\ thread[n] \in Running /\ Goto(n, "returned")
          /\ UNCHANGED <<alloc, clientfd, openFds, pc, dataptr>>
      BY <2>7 DEF MarkComplete, shared, list, main, Running
    <3>2. "returned" \notin Running
      BY DEF Running
    <3> QED  BY <3>1, <3>2, MoveStep
  <2>8. CASE HangUp(n)
    BY <2>8, IdleStep DEF HangUp, list, main, local
  <2>9. CASE SignalThread(n)
    <3>1. /\ thread[n] \in Running
          /\ Goto(n, IF thread[n] = "recv" THEN "returned" ELSE thread[n])
          /\ UNCHANGED <<alloc, clientfd, openFds, pc, dataptr>>
      BY <2>9 DEF SignalThread, list, main
    <3>2. CASE thread[n] = "recv"
      <4>1. Goto(n, "returned") /\ thread[n] # "mark"
        BY <3>1, <3>2
      <4> QED  BY <3>1, <4>1, MoveStep
    <3>3. CASE thread[n] # "recv"
      <4>1. thread' = thread
        BY <3>1, <3>3 DEF Goto, IInv, TypeOK
      <4> QED  BY <3>1, <4>1, IdleStep
    <3> QED  BY <3>2, <3>3
  <2> QED
    BY <1>8, <2>1, <2>2, <2>3, <2>4, <2>5, <2>6, <2>7, <2>8, <2>9 DEF repsondingThread
<1>9. CASE Connect \/ SignalMain \/ UNCHANGED vars
  BY <1>9, IdleStep DEF Connect, SignalMain, vars, list, main, local
<1> QED
  BY <1>1, <1>2, <1>3, <1>4, <1>5, <1>6, <1>7, <1>8, <1>9
  DEF Next, Main, listenLoop, handle_sigint, Terminated

(* aesdsocket.c: the inductive invariant.                                   *)
THEOREM Invariance == Spec => []IInv
<1>1. Init => IInv
  BY IInvInit
<1>2. IInv /\ [Next]_vars => IInv'
  BY IInvStep
<1> QED  BY <1>1, <1>2, PTL DEF Spec

(* listenLoop frees no node whose thread still uses it.                     *)
THEOREM ThreadsFindTheirNodes == Spec => []NodesOutliveThreads
<1>1. IInv => NodesOutliveThreads
  BY DEF IInv
<1> QED  BY <1>1, Invariance, PTL

(* No session's descriptor is closed or given to another before the session *)
(* closes it.                                                               *)
THEOREM SessionsKeepDescriptors == Spec => []DescriptorsApart
<1>1. IInv => DescriptorsApart
  BY DEF IInv
<1> QED  BY <1>1, Invariance, PTL

-----------------------------------------------------------------------------
(* Lost descriptors                                                         *)

LEMMA NothingLeaks ==
    ASSUME openFds' \subseteq openFds \cup Held',
           \A fd \in Held : fd \in openFds' => fd \in Held'
    PROVE  Leaked' \ Leaked = {}
  BY DEF Leaked

(* A step after which every session and the new node still hold what they   *)
(* held.                                                                    *)
LEMMA SessionsGoOn ==
    ASSUME openFds' \subseteq openFds,
           \A m \in Nodes : InSession(m) => InSession(m)' /\ clientfd'[m] = clientfd[m],
           pc = "create" => /\ pc' = "create" /\ dataptr' = dataptr
                            /\ clientfd'[dataptr] = clientfd[dataptr]
    PROVE  Leaked' \ Leaked = {}
<1>1. Held \subseteq Held'
  BY DEF Held
<1> QED  BY <1>1, NothingLeaks

(* A thread that moves inside its session.                                  *)
LEMMA MoveKeepsSession ==
    ASSUME TypeOK, NEW n \in Nodes, NEW label \in Running \ {"mark"}, Goto(n, label),
           UNCHANGED <<clientfd, openFds, pc, dataptr>>
    PROVE  Leaked' \ Leaked = {}
<1>1. \A m \in Nodes : InSession(m) => InSession(m)' /\ clientfd'[m] = clientfd[m]
  BY DEF InSession, Goto, TypeOK
<1> QED  BY <1>1, SessionsGoOn

(* A step that leaves threads and descriptors alone.                        *)
LEMMA IdleLeaksNothing ==
    ASSUME UNCHANGED <<thread, clientfd, openFds>>,
           pc = "create" => pc' = "create" /\ dataptr' = dataptr
    PROVE  Leaked' \ Leaked = {}
<1>1. \A m \in Nodes : InSession(m) => InSession(m)' /\ clientfd'[m] = clientfd[m]
  BY DEF InSession
<1> QED  BY <1>1, SessionsGoOn

LEMMA AcceptLeaksNothing ==
    ASSUME IInv, NEW fd, NewNode(fd), UNCHANGED thread, pc # "create", ~Over',
           openFds' \subseteq openFds \cup {fd}, fd \in openFds' => fd # BadFd
    PROVE  Leaked' \ Leaked = {}
<1>1. alloc # Nodes
  BY DEF NewNode, Crash, Over
<1>2. PICK n \in Nodes \ alloc : n = CHOOSE m \in Nodes : m \notin alloc
  BY <1>1, NewNodeIsFree DEF IInv, TypeOK
<1>3. clientfd' = [clientfd EXCEPT ![n] = fd] /\ dataptr' = n /\ pc' = "create"
  BY <1>1, <1>2 DEF NewNode
<1>4. clientfd'[n] = fd /\ \A m \in Nodes \ {n} : clientfd'[m] = clientfd[m]
  BY <1>3 DEF IInv, TypeOK
<1>5. \A m \in Nodes : InSession(m) => m # n
  BY DEF InSession, IInv, NodesOutliveThreads
<1>6. \A m \in Nodes : InSession(m) => InSession(m)' /\ clientfd'[m] = clientfd[m]
  BY <1>4, <1>5 DEF InSession
<1>7. Held \subseteq Held' /\ fd \in Held'
  BY <1>3, <1>4, <1>6 DEF Held
<1> QED  BY <1>7, NothingLeaks

LEMMA CreateLeaks ==
    ASSUME IInv, CreateThread, NEW fd \in Leaked' \ Leaked
    PROVE  clientfd[dataptr] = fd
<1>1. pc = "create" /\ UNCHANGED <<clientfd, openFds>> /\ dataptr \in Nodes
  BY DEF CreateThread, IInv, AtCreate, TypeOK
<1>2. \A m \in Nodes : InSession(m) => InSession(m)'
  BY <1>1 DEF InSession, CreateThread, local, IInv, AtCreate, TypeOK
<1>3. fd \in Held /\ fd \notin Held'
  BY <1>1 DEF Leaked
<1>4. PICK m \in Nodes : clientfd[m] = fd /\ (InSession(m) \/ m = dataptr)
  BY <1>3 DEF Held
<1>5. ~InSession(m)
  BY <1>1, <1>2, <1>3, <1>4 DEF Held
<1> QED  BY <1>4, <1>5

LEMMA JoinLeaksNothing ==
    ASSUME IInv, NEW from \in {"reap_join", "drain_join"}, NEW to \in {"reap", "drain"},
           JoinAndFree(from, to), ~Over'
    PROVE  Leaked' \ Leaked = {}
<1>1. /\ thread[dataptr] \in {"returned", "none"}
      /\ \A m \in Nodes : m # dataptr => thread'[m] = thread[m] /\ clientfd'[m] = clientfd[m]
      /\ openFds' = openFds /\ pc # "create"
  BY DEF JoinAndFree, Free, Crash, Over, IInv, TypeOK
<1>2. \A m \in Nodes : InSession(m) => m # dataptr
  BY <1>1 DEF InSession, Running
<1>3. \A m \in Nodes : InSession(m) => InSession(m)' /\ clientfd'[m] = clientfd[m]
  BY <1>1, <1>2 DEF InSession
<1> QED  BY <1>1, <1>3, SessionsGoOn

LEMMA CloseLeaksNothing ==
    ASSUME IInv, NEW n \in Nodes, CloseClient(n)
    PROVE  Leaked' \ Leaked = {}
<1>1. /\ UNCHANGED <<clientfd, pc, dataptr>> /\ openFds' = openFds \ {clientfd[n]}
      /\ \A m \in Nodes \ {n} : thread'[m] = thread[m]
  BY DEF CloseClient, Goto, IInv, TypeOK, shared, main
<1>2. \A m \in Nodes \ {n} : InSession(m) => InSession(m)'
  BY <1>1 DEF InSession
<1>3. \A fd \in Held : fd # clientfd[n] => fd \in Held'
  BY <1>1, <1>2 DEF Held
<1> QED  BY <1>1, <1>3, NothingLeaks
LEMMA ThreadLeaks ==
    ASSUME IInv, NEW n \in Nodes, ~Over',
           repsondingThread(n) \/ RecvLine(n) \/ HangUp(n) \/ SignalThread(n),
           NEW fd \in Leaked' \ Leaked
    PROVE  Failure(fd)
<1> USE DEF IInv
<1>1. CASE Welcome(n)
  BY <1>1, MoveKeepsSession DEF Welcome, MaySend, Crash, Over, shared, main, Running
<1>2. CASE SessionTest(n)
  <2>1. PICK label \in {"recv", "close"} : Goto(n, label)
    BY <1>2 DEF SessionTest
  <2> QED  BY <1>2, <2>1, MoveKeepsSession DEF SessionTest, shared, main, Running
<1>3. CASE RecvLine(n) \/ RecvEnd(n)
  BY <1>3, MoveKeepsSession DEF RecvLine, RecvEnd, shared, main, Running
<1>4. CASE Work(n)
  BY <1>4, MoveKeepsSession DEF Work, MaySend, Crash, Over, shared, main, Running
<1>5. CASE CloseClient(n)
  BY <1>5, CloseLeaksNothing
<1>6. CASE MarkComplete(n)
  <2>1. \A m \in Nodes : InSession(m) => InSession(m)' /\ clientfd'[m] = clientfd[m]
    BY <1>6 DEF MarkComplete, Goto, InSession, TypeOK, shared
  <2> QED  BY <1>6, <2>1, SessionsGoOn DEF MarkComplete, main, shared
<1>7. CASE HangUp(n)
  BY <1>7, IdleLeaksNothing DEF HangUp, main, local
<1>8. CASE /\ RecvFails(n) \/ SignalThread(n)
           /\ thread[n] = "recv"
  <2>1. /\ UNCHANGED <<clientfd, openFds, pc, dataptr>> /\ thread'[n] = "returned"
        /\ \A m \in Nodes \ {n} : thread'[m] = thread[m]
    BY <1>8 DEF RecvFails, SignalThread, Goto, TypeOK, shared, main
  <2>2. \A m \in Nodes \ {n} : InSession(m) => InSession(m)'
    BY <2>1 DEF InSession
  <2>3. fd \in Held /\ fd \notin Held'
    BY <2>1 DEF Leaked
  <2>4. PICK m \in Nodes : /\ clientfd[m] = fd
                           /\ InSession(m) \/ (pc = "create" /\ m = dataptr)
    BY <2>3 DEF Held
  <2>5. m = n
    BY <2>1, <2>2, <2>3, <2>4 DEF Held
  <2> QED  BY <1>8, <2>1, <2>4, <2>5 DEF Failure
<1>9. CASE SignalThread(n) /\ thread[n] # "recv"
  <2>1. UNCHANGED <<thread, clientfd, openFds, pc, dataptr>>
    BY <1>9 DEF SignalThread, Goto, TypeOK, main
  <2> QED  BY <2>1, IdleLeaksNothing
<1> QED
  BY <1>1, <1>2, <1>3, <1>4, <1>5, <1>6, <1>7, <1>8, <1>9 DEF repsondingThread, RecvFails

LEMMA MainLeaks ==
    ASSUME IInv, ~Over', Main, NEW fd \in Leaked' \ Leaked
    PROVE  Failure(fd)
<1>1. CASE AcceptClient
  <2>1. PICK new : new = LowestFd
    OBVIOUS
  <2>2. new \in Fds /\ new # BadFd
    BY <1>1, <2>1, LowestFdIsFree DEF AcceptClient, IInv, TypeOK, BadFd, Fds
  <2> QED  BY <1>1, <2>1, <2>2, AcceptLeaksNothing DEF AcceptClient, local
<1>2. CASE AcceptFails
  <2>1. BadFd \notin openFds'
    BY <1>2 DEF AcceptFails, IInv, TypeOK, BadFd, Fds
  <2> QED  BY <1>2, <2>1, AcceptLeaksNothing DEF AcceptFails, local
<1>3. CASE CreateThread
  BY <1>3, CreateLeaks DEF CreateThread, Failure
<1>4. CASE JoinAndFree("reap_join", "reap") \/ JoinAndFree("drain_join", "drain")
  BY <1>4, JoinLeaksNothing
<1>5. CASE openSocket \/ CallAccept \/ AcceptInterrupted \/ ReapSkip \/ ReapRemove \/ LoopTest
           \/ DrainRemove \/ DrainDone \/ cleanupProgram
  BY <1>5, IdleLeaksNothing DEF openSocket, CallAccept, AcceptInterrupted, ReapSkip, ReapRemove,
     LoopTest, DrainRemove, DrainDone, cleanupProgram, local
<1> QED  BY <1>1, <1>2, <1>3, <1>4, <1>5 DEF Main, listenLoop

LEMMA LeakStep ==
    ASSUME IInv, [Next]_vars, NEW fd \in Leaked' \ Leaked
    PROVE  Failure(fd)
<1>1. CASE Over'
  BY <1>1 DEF Failure
<1>2. CASE ~Over' /\ (Connect \/ SignalMain \/ UNCHANGED vars)
  BY <1>2, IdleLeaksNothing DEF Connect, SignalMain, vars, main, local
<1>3. CASE ~Over' /\ Main
  BY <1>3, MainLeaks
<1>4. CASE ~Over' /\ \E n \in Nodes : \/ repsondingThread(n) \/ RecvLine(n)
                                      \/ HangUp(n) \/ SignalThread(n)
  BY <1>4, ThreadLeaks
<1> QED  BY <1>1, <1>2, <1>3, <1>4 DEF Next, handle_sigint, Terminated

(* Whatever fails and whenever clients come and go, a descriptor is left    *)
(* open for good only by a failed recv, by a thread that was not created,   *)
(* or by the end of the process.                                            *)
THEOREM DescriptorLeaks == Spec => OnlyFailuresLeak
<1>1. IInv /\ [Next]_vars => [\A fd \in Leaked' \ Leaked : Failure(fd)]_vars
  BY LeakStep
<1> QED  BY <1>1, Invariance, PTL DEF Spec, OnlyFailuresLeak
=============================================================================
