--------------------------- MODULE MCNegotiation ---------------------------
(***************************************************************************)
(* Instances of Negotiation for TLC: pages are interchangeable.            *)
(***************************************************************************)
EXTENDS Negotiation

Swap == Permutations(Pages)

(* The properties of a negotiation say nothing of what follows an overlap, *)
(* which is not explored further: that leaves room for longer histories.   *)
Unspoilt == ~Spoilt
=============================================================================
