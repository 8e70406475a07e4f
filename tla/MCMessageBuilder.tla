-------------------------- MODULE MCMessageBuilder --------------------------
(***************************************************************************)
(* The numbers that stand in the lines of the instance.                    *)
(***************************************************************************)
EXTENDS MessageBuilder

LOCAL MCNumbers == 0 .. 5 \cup {12, 13, 15, 16, 23, 24, 31, 32, 40, 59, 60, 109, 110, 255, 256, 2000, 2099, 2100}

MCValueOf == [token \in {ToString(number) : number \in MCNumbers} |->
                CHOOSE number \in MCNumbers : ToString(number) = token]
MCWords == {<< "w" >>, << "w", " ", "w" >>}
=============================================================================
