--------------------------- MODULE MCScreenShare ---------------------------
(***************************************************************************)
(* Instances of ScreenShare for TLC: the others are interchangeable, and   *)
(* so are the captures.                                                    *)
(***************************************************************************)
EXTENDS ScreenShare, FiniteSets, TLC

Swap == Permutations(Others) \cup Permutations(Captures)

(* What depends on starts and stops being announced is not said of a page  *)
(* for which one has failed; the other properties do not depend on them.   *)
Unspoilt == ~history.cut

(* Bound: how much happens in one behaviour, and what others do only       *)
(* beside a single capture.                                                *)
MaxTotal == 5
Used == {c \in Captures : call[c] # "idle"}
Budget ==
  /\ Cardinality(Used) + count.joins + count.news + count.clicks <= MaxTotal
  /\ count.news = 0 \/ Cardinality(Used) <= 1

(* Bound: how far page and server may be behind each other. *)
MaxInbox == 2
MaxSent == 2
Behind == Len(inbox) <= MaxInbox /\ Len(sent) <= MaxSent
=============================================================================
