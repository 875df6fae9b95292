------------------------------ MODULE MCServer ------------------------------
(***************************************************************************)
(* Instances of Server for TLC.                                            *)
(***************************************************************************)
EXTENDS Server, TLC

CONSTANTS c1, c2, c3, u1, u2

(* c1 and c2 present the same user id, c3 another one. *)
SharedId == (c1 :> u1) @@ (c2 :> u1) @@ (c3 :> u2)

OwnIds == (c1 :> u1) @@ (c2 :> u2)

(* What the handlers read: no step of a handler looks at the content of a  *)
(* channel, at the writer, or at more of a pending message than its type.  *)
(* States that agree on these values allow the same handler steps and lead *)
(* to states that agree again, so properties of these values need only one *)
(* state of each kind.                                                     *)
HandlerView ==
  <<participants, status, closed, readers, todo, chatHistory, hubVars, pc, reads,
    [c \in Conns |-> pending[c].type]>>
=============================================================================
