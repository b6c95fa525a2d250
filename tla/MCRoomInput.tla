------------------------------ MODULE MCRoomInput ------------------------------
(* RoomInput for TLC.                                                           *)
EXTENDS RoomInput
================================================================================
