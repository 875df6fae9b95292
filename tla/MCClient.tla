------------------------------ MODULE MCClient ------------------------------
(***************************************************************************)
(* Instances of Client for TLC: clicks, sockets and rooms are              *)
(* interchangeable.                                                        *)
(***************************************************************************)
EXTENDS Client, TLC

Swap == Permutations(Calls) \cup Permutations(Sockets) \cup Permutations(Rooms)
=============================================================================
