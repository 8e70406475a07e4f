------------------------------ MODULE MCConsole ------------------------------
(***************************************************************************)
(* A ring of four slots, a line of two characters, and frames that end     *)
(* themselves, do not, do not fit a line or do not fit a frame.            *)
(***************************************************************************)
EXTENDS Console

Newline == "\n"

Letters == {"a", "b", Newline}

SomeFrames == { << >>, << "a" >>, << "b", Newline >>, << "a", "b", "b" >>,
                << "a", "b", "a", "b" >> }

OneLineTyped == << "b", Newline >>
=============================================================================
