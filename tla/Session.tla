------------------------------ MODULE Session ------------------------------
(***************************************************************************)
(* aesdsocket.c, repsondingThread: how a client's byte stream is cut into  *)
(* commands, and how a command's output is sent to its client by pointing  *)
(* the stdout of the whole process at the client's socket.                 *)
(*                                                                         *)
(* A byte of the stream stands for a whole word or is a newline; blanks    *)
(* and the wording are left out.  Of a command it matters whether it       *)
(* redirects stdout ("show": status, ls, read and the four performance     *)
(* commands), ends the session ("quit") or neither ("plain").  What is     *)
(* printed is an answer, for the client, between the two dup2 calls of its *)
(* command, and a log line, meant for the server's console, anywhere else. *)
(* Replies sent on the socket itself are left out.  What a command does to *)
(* the drive is the subject of NvmePartitions, how threads begin and end   *)
(* that of Server.                                                         *)
(***************************************************************************)
EXTENDS Integers, Sequences, FiniteSets, SequencesExt

CONSTANTS
    Clients,
    Patient,    \* the clients that wait until a line was taken before they send the next
    Console,    \* what stdout is when the server starts
    Lines,      \* the lines a client may send
    Newline,
    RECV_BUFFER_LENGTH_BYTES,
    MaxBytes,   \* bound: bytes sent by all clients
    MaxFds      \* how many descriptors the process may have open

Words == {"show", "plain", "quit", "arg"}
None  == "none"    \* dup failed, or was not called yet
Dest  == Clients \cup {Console}
Log   == "log"     \* a log line, whoever prints it
Text  == Clients \cup {Log}    \* the answer to a client, or a log line

ASSUME SessionAssumption ==
    /\ Patient \subseteq Clients /\ IsFiniteSet(Clients)
    /\ Console \notin Clients /\ None \notin Dest /\ Log \notin Dest
    /\ Lines \subseteq Seq(Words \cup {Newline}) /\ Newline \notin Words
    /\ \A l \in Lines : /\ l # <<>> /\ Last(l) = Newline
                        /\ \A i \in 1 .. Len(l) - 1 : l[i] # Newline
    /\ RECV_BUFFER_LENGTH_BYTES \in Nat \ {0}
    /\ MaxBytes \in Nat /\ MaxFds \in Nat /\ MaxFds >= Cardinality(Clients)

VARIABLES
    stream,         \* stream[c]: all that c has sent
    gone,           \* gone[c]: c has closed the connection
    endProgram,     \* a signal was caught
    pc,             \* where the thread of c is
    threadActive,
    base,           \* base[c]: how much of the stream earlier messages took
    totalBytesRecvd, bufferCapacity,
    done,           \* done[c]: the commands executed, by their places in the stream
    stdout,         \* what the descriptor STDOUT_FILENO refers to
    savedfd,        \* savedfd[c]: what the copy made by dup refers to
    fds,            \* the number of descriptors open for clients and copies
    fullyBuffered,  \* stdio holds text back, because stdout was no terminal
    held,           \* the text stdio holds back
    astray,         \* astray[d]: the text that has come to d and was meant for another
    tossed,         \* tossed[c]: a message of c was dropped for want of memory
    disturbed       \* two redirections have overlapped, or dup has failed

input  == <<stream, gone, endProgram>>
frame  == <<base, totalBytesRecvd, bufferCapacity, tossed>>
output == <<stdout, savedfd, fds, held, astray, disturbed, fullyBuffered>>
vars   == <<input, pc, threadActive, frame, done, output>>

Redirecting == {"aim", "print", "restore"}

(* The place 0 stands for what lies behind the message in memory.           *)
Command == [at : Nat, args : SUBSET Nat]

TypeOK ==
    /\ stream \in [Clients -> Seq(Words \cup {Newline})] /\ gone \in [Clients -> BOOLEAN]
    /\ endProgram \in BOOLEAN
    /\ pc \in [Clients -> {"loop", "recv", "execute", "work", "prepare", "dup", "close",
                           "closed", "failed"} \cup Redirecting]
    /\ threadActive \in [Clients -> BOOLEAN]
    /\ base \in [Clients -> Nat]
    /\ bufferCapacity \in [Clients -> Nat] /\ totalBytesRecvd \in [Clients -> Nat]
    /\ \A c \in Clients : totalBytesRecvd[c] <= bufferCapacity[c]
    /\ done \in [Clients -> Seq(Command)]
    /\ stdout \in Dest /\ savedfd \in [Clients -> Dest \cup {None}] /\ fds \in 0 .. MaxFds
    /\ fullyBuffered \in BOOLEAN /\ held \subseteq Text /\ astray \in [Dest -> SUBSET Text]
    /\ tossed \in [Clients -> BOOLEAN] /\ disturbed \in BOOLEAN

Init ==
    /\ stream = [c \in Clients |-> <<>>] /\ gone = [c \in Clients |-> FALSE]
    /\ endProgram = FALSE
    /\ pc = [c \in Clients |-> "loop"] /\ threadActive = [c \in Clients |-> TRUE]
    /\ base = [c \in Clients |-> 0] /\ totalBytesRecvd = [c \in Clients |-> 0]
    /\ bufferCapacity = [c \in Clients |-> RECV_BUFFER_LENGTH_BYTES]
    /\ done = [c \in Clients |-> <<>>]
    /\ stdout = Console /\ savedfd = [c \in Clients |-> None] /\ fds = Cardinality(Clients)
    /\ fullyBuffered \in BOOLEAN /\ held = {} /\ astray = [d \in Dest |-> {}]
    /\ tossed = [c \in Clients |-> FALSE] /\ disturbed = FALSE

Goto(c, label) == pc' = [pc EXCEPT ![c] = label]

-----------------------------------------------------------------------------
(* The clients                                                              *)

BytesSent == FoldFunctionOnSet(LAMBDA s, n : Len(s) + n, 0, stream, Clients)

(* A line is sent; the connection may break in the middle of it.            *)
Send(c, line) ==
    /\ ~gone[c] /\ pc[c] \notin {"closed", "failed"}
    /\ c \in Patient => pc[c] = "recv" /\ base[c] = Len(stream[c])
    /\ \E k \in 1 .. Len(line) :
          /\ BytesSent + k <= MaxBytes
          /\ stream' = [stream EXCEPT ![c] = @ \o SubSeq(line, 1, k)]
          /\ gone' = [gone EXCEPT ![c] = k < Len(line)]
    /\ UNCHANGED <<endProgram, pc, threadActive, frame, done, output>>

Leave(c) ==
    /\ ~gone[c]
    /\ gone' = [gone EXCEPT ![c] = TRUE]
    /\ UNCHANGED <<stream, endProgram, pc, threadActive, frame, done, output>>

-----------------------------------------------------------------------------
(* Whom a text is meant for.                                                *)
MeantFor(text) == IF text = Log THEN Console ELSE text

(* printf: to stdout at once, or into stdio's buffer, which is written when *)
(* it is full, to what stdout is then.                                      *)
Prints(text) ==
    /\ \/ /\ astray' = [astray EXCEPT ![stdout] =
                           @ \cup {t \in held \cup {text} : MeantFor(t) # stdout}]
          /\ held' = {}
       \/ fullyBuffered /\ held' = held \cup {text} /\ UNCHANGED astray
    /\ UNCHANGED <<stdout, savedfd, fds, disturbed, fullyBuffered>>

-----------------------------------------------------------------------------
(* Receiving a message                                                      *)

(* while (threadActive && !endProgram): a new buffer, or the end of the     *)
(* session.                                                                 *)
SessionTest(c) ==
    /\ pc[c] = "loop"
    /\ Goto(c, IF threadActive[c] /\ ~endProgram THEN "recv" ELSE "close")
    /\ totalBytesRecvd' = [totalBytesRecvd EXCEPT ![c] = 0]
    /\ bufferCapacity' = [bufferCapacity EXCEPT ![c] = RECV_BUFFER_LENGTH_BYTES]
    /\ UNCHANGED <<input, threadActive, base, tossed, done, output>>

(* The buffer is full: it is doubled, or the message is tossed.             *)
Grow(c) ==
    /\ pc[c] = "recv" /\ totalBytesRecvd[c] = bufferCapacity[c]
    /\ \/ /\ bufferCapacity' = [bufferCapacity EXCEPT ![c] = @ * 2]
          /\ UNCHANGED <<pc, base, tossed, totalBytesRecvd, output>>
       \/ /\ base' = [base EXCEPT ![c] = @ + totalBytesRecvd[c]]
          /\ totalBytesRecvd' = [totalBytesRecvd EXCEPT ![c] = 0]
          /\ tossed' = [tossed EXCEPT ![c] = TRUE]
          /\ Prints(Log)
          /\ Goto(c, "loop")
          /\ UNCHANGED bufferCapacity
    /\ UNCHANGED <<input, threadActive, done>>

Available(c) == Len(stream[c]) - base[c] - totalBytesRecvd[c]

(* handle_sigint.  It may run in a thread that is blocked in recv, which    *)
(* then fails as below.                                                     *)
Signal ==
    /\ endProgram' = TRUE
    /\ \/ UNCHANGED pc
       \/ \E c \in Clients :
             /\ pc[c] = "recv" /\ totalBytesRecvd[c] < bufferCapacity[c]
             /\ Available(c) = 0 /\ ~gone[c]
             /\ Goto(c, "failed")
    /\ UNCHANGED <<stream, gone, threadActive, frame, done, output>>

(* Mutant: a message ends with the read, whatever its last byte is.         *)
RecvAny(c) ==
    /\ pc[c] = "recv"
    /\ \E n \in 1 .. bufferCapacity[c] - totalBytesRecvd[c] :
          /\ n <= Available(c)
          /\ totalBytesRecvd' = [totalBytesRecvd EXCEPT ![c] = @ + n]
    /\ Goto(c, "execute")
    /\ UNCHANGED <<input, threadActive, base, bufferCapacity, tossed, done, output>>


(* Mutant: the whole capacity is offered although part of it is used.       *)
RecvOverruns(c) ==
    /\ pc[c] = "recv"
    /\ \E n \in 1 .. bufferCapacity[c] :
          /\ n <= Available(c)
          /\ totalBytesRecvd' = [totalBytesRecvd EXCEPT ![c] = @ + n]
    /\ Goto(c, "recv")
    /\ UNCHANGED <<input, threadActive, base, bufferCapacity, tossed, done, output>>

(* recv gives any number of the bytes that are there and that fit.  The     *)
(* message is complete if the last of them is a newline.                    *)
Recv(c) ==
    /\ pc[c] = "recv"
    /\ \E n \in 1 .. bufferCapacity[c] - totalBytesRecvd[c] :
          /\ n <= Available(c)
          /\ totalBytesRecvd' = [totalBytesRecvd EXCEPT ![c] = @ + n]
          /\ Goto(c, IF stream[c][base[c] + totalBytesRecvd[c] + n] = Newline
                       THEN "execute" ELSE "recv")
    /\ UNCHANGED <<input, threadActive, base, bufferCapacity, tossed, done, output>>

(* recv returns 0.  What was received so far is still executed.             *)
RecvEnd(c) ==
    /\ pc[c] = "recv" /\ totalBytesRecvd[c] < bufferCapacity[c]
    /\ gone[c] /\ Available(c) = 0
    /\ threadActive' = [threadActive EXCEPT ![c] = FALSE]
    /\ Goto(c, "execute")
    /\ UNCHANGED <<input, frame, done, output>>

(* recv fails: the thread returns, and the descriptor stays open.           *)
RecvFails(c) ==
    /\ pc[c] = "recv" /\ totalBytesRecvd[c] < bufferCapacity[c] /\ gone[c]
    /\ Goto(c, "failed")
    /\ UNCHANGED <<input, threadActive, frame, done, output>>

-----------------------------------------------------------------------------
(* Executing a message                                                      *)

(* The places of the words of the message, in order.                        *)
WordPlaces(c) ==
    LET found[i \in 0 .. totalBytesRecvd[c]] ==
            IF i = 0 THEN <<>>
            ELSE IF stream[c][base[c] + i] = Newline THEN found[i - 1]
            ELSE Append(found[i - 1], base[c] + i)
    IN  found[totalBytesRecvd[c]]

(* Mutant: the buffer was not cleared.                                      *)
TokensUncleared(c) == {WordPlaces(c), Append(WordPlaces(c), 0)}

(* What strtok_r finds: the words of the message.  The first buffer was     *)
(* cleared, a longer one was not, and a full one has no end: a word that    *)
(* happens to lie behind the message may follow.                            *)
Tokens(c) ==
    {WordPlaces(c)} \cup IF totalBytesRecvd[c] >= RECV_BUFFER_LENGTH_BYTES
                           THEN {Append(WordPlaces(c), 0)} ELSE {}

WordAt(c, p) == IF p = 0 THEN Words ELSE {stream[c][p]}

(* Mutant: every command redirects stdout.                                  *)
RedirectsAny(word) == TRUE

(* The commands that redirect stdout, if they do not refuse their arguments.*)
Redirects(word) == word = "show"

(* cmd, and arg1, arg2, arg3 and extra; nothing for a message without one.  *)
(* Every command is logged.                                                 *)
Execute(c) ==
    /\ pc[c] = "execute"
    /\ \E tokens \in Tokens(c) :
          \/ /\ tokens = <<>>
             /\ Goto(c, "loop")
             /\ UNCHANGED <<threadActive, done, output>>
          \/ /\ tokens # <<>>
             /\ done' = [done EXCEPT ![c] =
                   Append(@, [at   |-> Head(tokens),
                              args |-> {tokens[i] : i \in (2 .. 5) \cap DOMAIN tokens}])]
             /\ \E word \in WordAt(c, Head(tokens)) :
                   /\ \E label \in {"work"} \cup IF Redirects(word) THEN {"prepare"} ELSE {} :
                         Goto(c, label)
                   /\ threadActive' = [threadActive EXCEPT ![c] = @ /\ word # "quit"]
             /\ Prints(Log)
    /\ base' = [base EXCEPT ![c] = @ + totalBytesRecvd[c]]
    /\ totalBytesRecvd' = [totalBytesRecvd EXCEPT ![c] = 0]
    /\ UNCHANGED <<input, bufferCapacity, tossed>>

(* What a command logs further outside a redirection, before it or without  *)
(* one.                                                                     *)
Work(c) ==
    /\ pc[c] \in {"work", "prepare"}
    /\ Prints(Log) \/ UNCHANGED output
    /\ Goto(c, IF pc[c] = "prepare" THEN "dup" ELSE "loop")
    /\ UNCHANGED <<input, threadActive, frame, done>>

(* savedfd = dup(STDOUT_FILENO), which fails when no descriptor is left.    *)
Dup(c) ==
    /\ pc[c] = "dup"
    /\ \/ /\ fds < MaxFds
          /\ fds' = fds + 1
          /\ savedfd' = [savedfd EXCEPT ![c] = stdout]
          /\ disturbed' = (disturbed \/ \E d \in Clients \ {c} : pc[d] \in Redirecting)
       \/ /\ fds = MaxFds
          /\ savedfd' = [savedfd EXCEPT ![c] = None]
          /\ disturbed' = TRUE
          /\ UNCHANGED fds
    /\ Goto(c, "aim")
    /\ UNCHANGED <<input, threadActive, frame, done, stdout, held, astray, fullyBuffered>>

(* Mutant: the arguments of dup2 are swapped, and stdout stays as it is.    *)
AimNowhere(c) ==
    /\ pc[c] = "aim"
    /\ Goto(c, "print")
    /\ UNCHANGED <<input, threadActive, frame, done, output>>

(* dup2(clientFD, STDOUT_FILENO)                                            *)
Aim(c) ==
    /\ pc[c] = "aim"
    /\ stdout' = c
    /\ Goto(c, "print")
    /\ UNCHANGED <<input, threadActive, frame, done, savedfd, fds, held, astray, disturbed,
                   fullyBuffered>>

(* The command prints its answer.                                           *)
Output(c) ==
    /\ pc[c] = "print"
    /\ Prints(c)
    /\ Goto(c, "restore")
    /\ UNCHANGED <<input, threadActive, frame, done>>

(* Mutant: the redirection is not undone.                                   *)
StayRedirected(c) ==
    /\ pc[c] = "restore"
    /\ Goto(c, "loop")
    /\ UNCHANGED <<input, threadActive, frame, done, output>>

(* dup2(savedfd, STDOUT_FILENO); the copy is not closed.  rand_read logs    *)
(* once more.                                                               *)
Restore(c) ==
    /\ pc[c] = "restore"
    /\ stdout' = IF savedfd[c] = None THEN stdout ELSE savedfd[c]
    /\ savedfd' = [savedfd EXCEPT ![c] = None]
    /\ Goto(c, "loop") \/ Goto(c, "work")
    /\ UNCHANGED <<input, threadActive, frame, done, fds, held, astray, disturbed, fullyBuffered>>

Close(c) ==
    /\ pc[c] = "close"
    /\ fds' = fds - 1
    /\ Goto(c, "closed")
    /\ UNCHANGED <<input, threadActive, frame, done, stdout, savedfd, held, astray, disturbed,
                   fullyBuffered>>

Finished ==
    /\ \A c \in Clients : pc[c] \in {"closed", "failed"}
    /\ UNCHANGED vars

-----------------------------------------------------------------------------
repsondingThread(c) ==
    \/ SessionTest(c) \/ Grow(c) \/ Recv(c) \/ RecvEnd(c) \/ RecvFails(c)
    \/ Execute(c) \/ Work(c) \/ Dup(c) \/ Aim(c) \/ Output(c) \/ Restore(c) \/ Close(c)

Next ==
    \/ \E c \in Clients : repsondingThread(c) \/ Leave(c) \/ \E line \in Lines : Send(c, line)
    \/ Signal \/ Finished

Spec == Init /\ [][Next]_vars

(* The threads keep running, and the network delivers what was sent.        *)
FairSpec == Spec /\ \A c \in Clients : WF_vars(repsondingThread(c))

-----------------------------------------------------------------------------
(* Properties                                                               *)

StartsLine(c, p) == p = 1 \/ stream[c][p - 1] = Newline
SameLine(c, p, q) == p < q /\ \A i \in p .. q - 1 : stream[c][i] # Newline

(* However the stream is cut into reads, commands are executed in the order *)
(* they were sent, none twice, and no argument is taken for a command,      *)
(* unless a message was tossed half-way.                                    *)
CommandsInOrder ==
    \A c \in Clients :
        LET at(i) == done[c][i].at
        IN  /\ \A i, j \in DOMAIN done[c] : i < j /\ at(j) # 0 => at(i) < at(j)
            /\ \A i \in DOMAIN done[c] : at(i) # 0 => StartsLine(c, at(i)) \/ tossed[c]

(* A client that waits for each line has its commands run with arguments    *)
(* from their own lines, unless the line fills the first buffer and leaves  *)
(* no room for a terminator.                                                *)
Fills(c, p) ==
    LET last == p + RECV_BUFFER_LENGTH_BYTES - 1
    IN  last <= Len(stream[c]) /\ \A i \in p .. last - 1 : stream[c][i] # Newline
OwnArguments ==
    \A c \in Patient :
        \A i \in DOMAIN done[c] : \A q \in done[c][i].args :
            \/ SameLine(c, done[c][i].at, q)
            \/ q = 0 /\ Fills(c, done[c][i].at)


(* stdout is back where it was when no command redirects it, unless two     *)
(* commands redirected it at once or dup failed.                            *)
StdoutComesBack ==
    ~disturbed /\ (\A c \in Clients : pc[c] \notin Redirecting) => stdout = Console

(* The answer of a command comes to the client that asked for it and to     *)
(* nobody else, under the same proviso and if stdout is a terminal; what    *)
(* others log goes to the same stdout, and may reach the client as well.    *)
OutputToItsClient ==
    ~disturbed /\ ~fullyBuffered =>
        \A d \in Dest : astray[d] \subseteq {Log}

(* Log lines, answers to others and whatever else goes through stdout come  *)
(* only to clients that ran a redirecting command themselves, even if       *)
(* redirections overlap, dup fails or stdio holds text back.                *)
HasRedirected(c) == \E i \in DOMAIN done[c] : "show" \in WordAt(c, done[c][i].at)
OnlyRedirectorsHear == \A c \in Clients : astray[c] # {} => HasRedirected(c)
=============================================================================
