-------------------------------- MODULE Hub ---------------------------------
(***************************************************************************)
(* The hub's view of one room: internal/meeting/hub.go.  Rooms share only  *)
(* the hub's map and its lock, so the life of one room is the membership   *)
(* of its id in Hub.rooms.  Ids are six random bytes: an id is never used  *)
(* again, and the room is created once.                                    *)
(*                                                                         *)
(* Hub.mu matters in one place: DeleteRoomIfEmpty holds it between looking *)
(* at the room and deleting it, and GetRoom waits meanwhile, whereas       *)
(* Room.AddParticipant does not take it.                                   *)
(***************************************************************************)
CONSTANTS
  NoSweeper,   \* nobody is inside DeleteRoomIfEmpty
  MayExpire    \* bound: whether the retention time runs out in this instance

ASSUME HubAssumption == MayExpire \in BOOLEAN

VARIABLES
  life,      \* "none", "listed" in Hub.rooms, or "deleted" from it
  expired,   \* time.Since(room.CreatedAt) > roomRetention
  sweeper    \* the handler about to delete the room, holding Hub.mu

hubVars == <<life, expired, sweeper>>

HubInit ==
  /\ life = "none"
  /\ expired = FALSE
  /\ sweeper = NoSweeper

HubLock == sweeper = NoSweeper

CreateRoom ==
  /\ HubLock
  /\ life = "none"
  /\ life' = "listed"
  /\ UNCHANGED <<expired, sweeper>>

(* The retention time runs out; it never runs back. *)
Expire ==
  /\ MayExpire
  /\ life = "listed"
  /\ ~expired
  /\ expired' = TRUE
  /\ UNCHANGED <<life, sweeper>>

(* GetRoom returns the room. *)
Found ==
  /\ HubLock
  /\ life = "listed"

(* DeleteRoomIfEmpty, up to its test: it goes on to delete, or returns. *)
DecideToDelete(c, empty) ==
  /\ Found
  /\ empty
  /\ expired
  /\ sweeper' = c
  /\ UNCHANGED <<life, expired>>

DecideToKeep(empty) ==
  /\ HubLock
  /\ ~(Found /\ empty /\ expired)
  /\ UNCHANGED hubVars

Delete(c) ==
  /\ sweeper = c
  /\ life' = "deleted"
  /\ sweeper' = NoSweeper
  /\ UNCHANGED expired

(* The sweeper is one of the handlers. *)
HubTypeOK(handlers) ==
  /\ life \in {"none", "listed", "deleted"}
  /\ expired \in BOOLEAN
  /\ sweeper \in handlers \cup {NoSweeper}
=============================================================================
