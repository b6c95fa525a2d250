----------------------------- MODULE MCRoomManager -----------------------------
(* RoomManager for TLC.  Epoll workers are interchangeable.                     *)
EXTENDS RoomManager, TLC

NetSymmetry == Permutations(Net)
================================================================================
