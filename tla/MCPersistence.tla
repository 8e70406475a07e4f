---------------------------- MODULE MCPersistence ----------------------------
(***************************************************************************)
(* A few fields of three values, one of which no module takes.             *)
(***************************************************************************)
EXTENDS Persistence

AllButTheLast == [i \in Fields |-> Values \ {MaxValue}]
=============================================================================
