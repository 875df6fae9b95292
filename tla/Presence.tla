------------------------------ MODULE Presence ------------------------------
(***************************************************************************)
(* What the participants map promises, and no more: at most one connection *)
(* holds a user id at a time; a connection takes the id it presented once  *)
(* in its life, possibly from another holder; it gives the id back once,   *)
(* whoever holds it then; and an id is free only before anybody took it or *)
(* because a connection that had presented it left.                        *)
(***************************************************************************)
CONSTANTS Conns, Users, UserOf, NoConn

VARIABLES
  holder,  \* the connection that holds a user id, or NoConn
  came,    \* the connections that have taken their id
  left     \* the connections that have given it back

vars == <<holder, came, left>>

Init ==
  /\ holder = [u \in Users |-> NoConn]
  /\ came = {}
  /\ left = {}

Come(c) ==
  /\ c \notin came
  /\ holder' = [holder EXCEPT ![UserOf[c]] = c]
  /\ came' = came \cup {c}
  /\ UNCHANGED left

Leave(c) ==
  /\ c \in came \ left
  /\ holder' = [holder EXCEPT ![UserOf[c]] = NoConn]
  /\ left' = left \cup {c}
  /\ UNCHANGED came

Next == \E c \in Conns : Come(c) \/ Leave(c)

Spec == Init /\ [][Next]_vars
=============================================================================
