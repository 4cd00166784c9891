----------------------------- MODULE MCSession -----------------------------
(***************************************************************************)
(* Lines for Session with a buffer of three bytes: short ones, one that    *)
(* fills the buffer exactly and one that outgrows it.                      *)
(***************************************************************************)
EXTENDS Session

SomeLines == {<<"show", Newline>>, <<"quit", Newline>>, <<"plain", Newline>>,
              <<"plain", "arg", Newline>>, <<"plain", "arg", "arg", Newline>>}
=============================================================================
