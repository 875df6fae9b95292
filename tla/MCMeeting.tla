----------------------------- MODULE MCMeeting ------------------------------
(***************************************************************************)
(* Instances of Meeting for TLC.                                           *)
(***************************************************************************)
EXTENDS Meeting, TLC

(* Every connection has a user id of its own: connections that are also    *)
(* user ids, so that they can be permuted together.                        *)
OwnId == [c \in Conns |-> c]
Swap == Permutations(Conns)

(* Once its writer is done, nothing that happens in the channel or in the  *)
(* browser of a connection is seen by anybody, and both stay as they are.  *)
Hidden(c, x) == IF writer[c] = "done" THEN "hidden" ELSE x

ChatView ==
  <<participants, status, closed, readers, todo, chatHistory, hubVars, handlerVars,
    [c \in Conns |-> Hidden(c, <<queue[c], c \in dropped, transcript[c]>>)]>>

LiveView ==
  <<participants, status, closed, readers, todo, chatHistory, hubVars, handlerVars, others,
    [c \in Conns |-> Hidden(c, <<queue[c], c \in dropped, view[c], transcript[c], c \in fresh>>)]>>
=============================================================================
