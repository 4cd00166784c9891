--------------------------- MODULE MCCommandQueue ---------------------------
(***************************************************************************)
(* Requests for CommandQueue: commands that reach different branches, a    *)
(* null pointer and a command whose enumerations are out of range.         *)
(***************************************************************************)
EXTENDS CommandQueue

Cmd(i, type, needed, what, buffer) ==
    [id |-> i, cmdType |-> type, stateNeeded |-> needed, user |-> what, hasBuffer |-> buffer]

SomeRequests ==
    {Cmd(1, "userCommand", "idle", "read_to_buffer", TRUE),
     Cmd(2, "userCommand", "userMode", "remove_ns", FALSE),
     Cmd(3, "perfCommand", "bad", "file", FALSE), NULL}
=============================================================================
