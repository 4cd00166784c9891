----------------------------- MODULE MCAesdChar -----------------------------
(***************************************************************************)
(* Pieces and seeks for AesdChar: pieces that do not end a message, that   *)
(* end it and that are one; seeks to kept messages, to one never written,  *)
(* beyond the array, and by an offset that makes an int negative.  The     *)
(* address of a struct has one half or the other that the driver may take  *)
(* for a command.                                                          *)
(***************************************************************************)
EXTENDS AesdChar

SomePieces == {<<>>, <<"a">>, <<"n">>}

Seek(c, o) == [write_cmd |-> c, write_cmd_offset |-> o]
SomeSeeks  == {Seek(1, 1), Seek(MAX, 1), Seek(0, INT_MAX + 1)}
SomeStructs ==
    [p \in {Seek(MAX + 1, 1), Seek(0, 2)} |-> Seek(1, 0)]
=============================================================================
