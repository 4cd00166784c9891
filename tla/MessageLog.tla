----------------------------- MODULE MessageLog -----------------------------
(***************************************************************************)
(* What the character driver promises its writers: the newest Keep         *)
(* messages, whole and in the order in which their last piece arrived, and *)
(* one unfinished message.  Bytes are given up only together with the      *)
(* whole unfinished message, and only by a write that is answered with an  *)
(* error.                                                                  *)
(***************************************************************************)
EXTENDS Integers, Sequences

CONSTANTS
    Keep,       \* how many messages are kept
    Pieces,     \* what writers may pass in one call
    Newline     \* the byte that ends a message

VARIABLES
    loaded,     \* the driver is there
    log,        \* the messages kept, oldest first
    partial,    \* the pieces accepted since the last message was finished
    answer      \* what the last write was told: "ok" or an error

vars == <<loaded, log, partial, answer>>

Init == loaded = FALSE /\ log = <<>> /\ partial = <<>> /\ answer = "ok"

Newest(s) == IF Len(s) > Keep THEN Tail(s) ELSE s

Ends(s) == s # <<>> /\ s[Len(s)] = Newline

(* A piece that does not end the message.                                   *)
Accept(piece) ==
    /\ loaded
    /\ ~Ends(partial \o piece)
    /\ partial' = partial \o piece
    /\ answer' = "ok"
    /\ UNCHANGED <<loaded, log>>

(* A piece that does: the oldest message makes room for the new one.        *)
Complete(piece) ==
    /\ loaded
    /\ Ends(partial \o piece)
    /\ log' = Newest(Append(log, partial \o piece))
    /\ partial' = <<>>
    /\ answer' = "ok"
    /\ UNCHANGED loaded

(* The unfinished message is given up and its writer is told.               *)
Drop ==
    /\ loaded
    /\ partial' = <<>>
    /\ answer' # "ok"
    /\ UNCHANGED <<loaded, log>>

(* Calls other than write change nothing, and neither does loading.         *)
Quiet == answer' = "ok" /\ UNCHANGED <<loaded, log, partial>>
Load  == ~loaded /\ loaded' = TRUE /\ answer' = "ok" /\ UNCHANGED <<log, partial>>

(* Only unloading forgets.                                                  *)
Unload == loaded /\ loaded' = FALSE /\ log' = <<>> /\ partial' = <<>> /\ answer' = "ok"

Next ==
    \/ \E piece \in Pieces : Accept(piece) \/ Complete(piece)
    \/ Drop \/ Quiet \/ Load \/ Unload

Spec == Init /\ [][Next]_vars
=============================================================================
