---------------------------- MODULE MCRoomScreen ----------------------------
(* RoomScreen with one browser. *)
EXTENDS RoomScreen

CONSTANT w1

MCBrowserOf == [p \in Pages |-> w1]

=============================================================================
