--------------------------- MODULE RoomManagerProofs ---------------------------
(* Theorems about RoomManager, for every number of sessions, rooms, seats and   *)
(* workers: types, what each action does, one lemma per action, and three       *)
(* layers of the inductive invariant: who holds RoomManager::_lock, in whose    *)
(* hands a room slot is, and its seats: no seat is booked twice, the counters   *)
(* count, no dead room has a claimant, the open list and the load of the        *)
(* workers are right.                                                           *)
(* All but the types is proved of PatientSpec, that is under AcceptsAfter.      *)
EXTENDS RoomManager, FiniteSetTheorems, FunctionTheorems, TLAPS

--------------------------------------------------------------------------------
(* Lemmas about the records and lists the model is built from.                  *)

(* Removing a room from the open list leaves a list of rooms.                   *)
LEMMA DropOpenType ==
    ASSUME NEW q \in Seq(Rooms), NEW r \in Rooms
    PROVE  DropOpen(q, r) \in Seq(Rooms)
<1>1. CASE \E i \in 1 .. Len(q) : q[i] = r
  <2> DEFINE i == CHOOSE i \in 1 .. Len(q) : q[i] = r
             p == [q EXCEPT ![i] = q[Len(q)]]
  <2>1. i \in 1 .. Len(q) BY <1>1
  <2>2. p \in Seq(Rooms) /\ Len(p) = Len(q) BY <2>1
  <2>3. SubSeq(p, 1, Len(q) - 1) \in Seq(Rooms) BY <2>1, <2>2
  <2> QED BY <1>1, <2>3 DEF DropOpen
<1>2. CASE ~ \E i \in 1 .. Len(q) : q[i] = r
  BY <1>2 DEF DropOpen
<1> QED BY <1>1, <1>2

(* A set of seats has a number of elements.                                     *)
LEMMA SeatsFinite ==
    ASSUME NEW S \in SUBSET Seats
    PROVE  IsFiniteSet(S) /\ Cardinality(S) \in Nat
<1>1. IsFiniteSet(Seats)
  BY RoomAssumption, FS_Interval DEF Seats
<1> QED BY <1>1, FS_Subset, FS_CardinalityType

(* The frames a thread starts from, and the first room, seat and worker, exist. *)
LEMMA FramesTyped ==
    /\ NetIdle \in NetFrame
    /\ BetweenRooms \in GameFrame
    /\ 0 \in Rooms /\ 0 \in Seats /\ 0 \in Game
BY SessAssumption, RoomAssumption, GameAssumption
   DEF NetIdle, BetweenRooms, NetFrame, GameFrame, Rooms, Seats, Game

(* The fields of an entry, and the entries that fields make.                    *)
LEMMA EntryTyped ==
    /\ \A j \in JoinEntry : j.sess \in Sess /\ j.gen \in Nat /\ j.seat \in Seats
    /\ \A l \in LeaveEntry : l.sess \in Sess /\ l.gen \in Nat
    /\ \A s \in Sess, g \in Nat, i \in Seats :
          /\ [sess |-> s, gen |-> g, seat |-> i] \in JoinEntry
          /\ [sess |-> s, gen |-> g] \in LeaveEntry
BY DEF JoinEntry, LeaveEntry

(* The fields of an epoll worker's frame.                                       *)
LEMMA NetTyped ==
    ASSUME FrameTypeOK, NEW e \in Net
    PROVE  /\ net[e] \in NetFrame
           /\ net[e].sess \in Sess /\ net[e].room \in Rooms /\ net[e].seat \in Seats
BY DEF FrameTypeOK, NetFrame

(* The fields of a game worker's frame.                                         *)
LEMMA GameTyped ==
    ASSUME FrameTypeOK, NEW w \in Game
    PROVE  /\ game[w] \in GameFrame
           /\ game[w].cur \in Rooms /\ game[w].nr \in Rooms
           /\ game[w].joins \subseteq JoinEntry /\ game[w].leaves \subseteq LeaveEntry
BY DEF FrameTypeOK, GameFrame

(* Epoll worker e enters HandleSession or returns from it.                      *)
ServeStep(e) == (\E s \in Sess : HandleSession(e, s)) \/ HandleSessionDone(e)

--------------------------------------------------------------------------------
(* Every reachable state is well typed: no operation stores a room, seat or     *)
(* session that does not exist, whatever the threads interleave (all actions of *)
(* RoomManager.cpp and Session.h).                                              *)
THEOREM TypeCorrect == Spec => []TypeOK
<1>1. Init => TypeOK
  BY FramesTyped, BoundAssumption
     DEF Init, PoolInit, TypeOK, PoolTypeOK, SessTypeOK, SeatTypeOK, QueueTypeOK,
         MemberTypeOK, MgrTypeOK, FrameTypeOK
<1>2. TypeOK /\ [Next]_vars => TypeOK'
  <2> SUFFICES ASSUME TypeOK, [Next]_vars PROVE TypeOK' OBVIOUS
  <2> USE FramesTyped DEF TypeOK, roomVars
  <2>1. ASSUME NEW e \in Net, NEW s \in Sess, Accept(e, s) PROVE TypeOK'
    <3>1. PoolTypeOK'
      BY <2>1 DEF Accept, Alloc, PoolTypeOK
    <3>2. SessTypeOK'
      BY <2>1, BoundAssumption DEF Accept, SessTypeOK
    <3>3. /\ SeatTypeOK' /\ QueueTypeOK' /\ MemberTypeOK'
          /\ MgrTypeOK' /\ FrameTypeOK'
      BY <2>1 DEF Accept, seatVars, queueVars, memberVars, mgrVars, gameVars,
                   SeatTypeOK, QueueTypeOK, MemberTypeOK, MgrTypeOK, FrameTypeOK
    <3> QED BY <3>1, <3>2, <3>3
  <2>2. ASSUME NEW e \in Net, NEW s \in Sess, AcceptAborted(e, s) PROVE TypeOK'
    <3>1. PoolTypeOK'
      BY <2>2 DEF AcceptAborted, PoolTypeOK
    <3>2. SessTypeOK'
      BY <2>2, BoundAssumption DEF AcceptAborted, SessTypeOK
    <3>3. /\ SeatTypeOK' /\ QueueTypeOK' /\ MemberTypeOK'
          /\ MgrTypeOK' /\ FrameTypeOK'
      BY <2>2 DEF AcceptAborted, seatVars, queueVars, memberVars, mgrVars, gameVars,
                   SeatTypeOK, QueueTypeOK, MemberTypeOK, MgrTypeOK, FrameTypeOK
    <3> QED BY <3>1, <3>2, <3>3
  <2>3. ASSUME NEW e \in Net, NEW s \in Sess, JoinReserve(e, s) PROVE TypeOK'
    <3>1. SeatTypeOK'
      BY <2>3 DEF JoinReserve, MgrTypeOK, SeatTypeOK
    <3>2. MgrTypeOK'
      BY <2>3 DEF JoinReserve, MgrTypeOK
    <3>3. FrameTypeOK'
      BY <2>3 DEF JoinReserve, MgrTypeOK, NetFrame, gameVars, FrameTypeOK
    <3>4. /\ PoolTypeOK' /\ SessTypeOK' /\ QueueTypeOK'
          /\ MemberTypeOK'
      BY <2>3 DEF JoinReserve, poolVars, sessVars, queueVars, memberVars,
                   PoolTypeOK, SessTypeOK, QueueTypeOK, MemberTypeOK
    <3> QED BY <3>1, <3>2, <3>3, <3>4
  <2>4. ASSUME NEW e \in Net, NEW s \in Sess, JoinAlloc(e, s) PROVE TypeOK'
    <3>1. SeatTypeOK'
      BY <2>4 DEF JoinAlloc, AllocRoomSlotLocked, SeatTypeOK
    <3>2. QueueTypeOK'
      BY <2>4 DEF JoinAlloc, AllocRoomSlotLocked, QueueTypeOK
    <3>3. MemberTypeOK'
      BY <2>4 DEF JoinAlloc, AllocRoomSlotLocked, MemberTypeOK
    <3>4. MgrTypeOK'
      BY <2>4 DEF JoinAlloc, AllocRoomSlotLocked, MgrTypeOK
    <3>5. FrameTypeOK'
      BY <2>4 DEF JoinAlloc, NetFrame, gameVars, FrameTypeOK
    <3>6. PoolTypeOK' /\ SessTypeOK'
      BY <2>4 DEF JoinAlloc, poolVars, sessVars,
                   PoolTypeOK, SessTypeOK
    <3> QED BY <3>1, <3>2, <3>3, <3>4, <3>5, <3>6
  <2>5. ASSUME NEW e \in Net, NEW s \in Sess, JoinFail(e, s) PROVE TypeOK'
    <3>1. MgrTypeOK'
      BY <2>5 DEF JoinFail, MgrTypeOK
    <3>2. /\ PoolTypeOK' /\ SessTypeOK' /\ SeatTypeOK'
          /\ QueueTypeOK' /\ MemberTypeOK' /\ FrameTypeOK'
      BY <2>5 DEF JoinFail, poolVars, sessVars, seatVars, queueVars, memberVars, gameVars,
                   PoolTypeOK, SessTypeOK, SeatTypeOK, QueueTypeOK, MemberTypeOK, FrameTypeOK
    <3> QED BY <3>1, <3>2
  <2>24. ASSUME NEW e \in Net, ServeStep(e) PROVE TypeOK'
    <3>1. net' \in [Net -> NetFrame]
      <4>1. NetIdle \in NetFrame /\ \A s \in Sess : Serve(s) \in NetFrame
        BY FramesTyped DEF Serve, NetFrame
      <4> QED BY <2>24, <4>1 DEF ServeStep, HandleSession, HandleSessionDone, FrameTypeOK
    <3>2. UNCHANGED <<poolVars, conns, mySessions, sessVars, roomVars, gameVars>>
      BY <2>24 DEF ServeStep, HandleSession, HandleSessionDone
    <3> QED
      BY <3>1, <3>2 DEF poolVars, sessVars, seatVars, queueVars, memberVars, mgrVars, gameVars,
         PoolTypeOK, SessTypeOK, SeatTypeOK, QueueTypeOK, MemberTypeOK, MgrTypeOK, FrameTypeOK
  <2>6. ASSUME NEW e \in Net, NEW s \in Sess, Disconnect(e, s) PROVE TypeOK'
    <3>1. PoolTypeOK'
      BY <2>6 DEF Disconnect, PoolTypeOK
    <3>2. FrameTypeOK'
      BY <2>6 DEF Disconnect, NetFrame, NetIdle, gameVars, FrameTypeOK
    <3>3. /\ SessTypeOK' /\ SeatTypeOK' /\ QueueTypeOK'
          /\ MemberTypeOK' /\ MgrTypeOK'
      BY <2>6 DEF Disconnect, sessVars, seatVars, queueVars, memberVars, mgrVars,
                   SessTypeOK, SeatTypeOK, QueueTypeOK, MemberTypeOK, MgrTypeOK
    <3> QED BY <3>1, <3>2, <3>3
  <2>7. ASSUME NEW e \in Net, JoinReserveFirst(e) PROVE TypeOK'
    <3>1. net[e].sess \in Sess /\ net[e].room \in Rooms /\ net[e].seat \in Seats
      BY <2>7, NetTyped
    <3>2. SeatTypeOK'
      BY <2>7, <3>1 DEF JoinReserveFirst, SeatTypeOK
    <3>3. MgrTypeOK'
      BY <2>7, <3>1 DEF JoinReserveFirst, MgrTypeOK
    <3>4. FrameTypeOK'
      BY <2>7, <3>1 DEF JoinReserveFirst, NetFrame, gameVars, FrameTypeOK
    <3>5. /\ PoolTypeOK' /\ SessTypeOK' /\ QueueTypeOK'
          /\ MemberTypeOK'
      BY <2>7 DEF JoinReserveFirst, poolVars, sessVars, queueVars, memberVars,
                   PoolTypeOK, SessTypeOK, QueueTypeOK, MemberTypeOK
    <3> QED BY <3>2, <3>3, <3>4, <3>5
  <2>8. ASSUME NEW e \in Net, JoinEnter(e) PROVE TypeOK'
    <3>1. net[e].sess \in Sess /\ net[e].room \in Rooms /\ net[e].seat \in Seats
      BY <2>8, NetTyped
    <3>2. PoolTypeOK'
      BY <2>8, <3>1 DEF JoinEnter, AddRef, PoolTypeOK
    <3>3. SessTypeOK'
      BY <2>8, <3>1 DEF JoinEnter, SessTypeOK
    <3>4. QueueTypeOK'
      <4> DEFINE j == [sess |-> net[e].sess, gen |-> gen[net[e].sess], seat |-> net[e].seat]
      <4>1. j \in JoinEntry
        BY <3>1, EntryTyped DEF PoolTypeOK
      <4>2. pendingJoin' = [pendingJoin EXCEPT ![net[e].room] = @ \cup {j}]
        BY <2>8 DEF JoinEnter
      <4> QED BY <2>8, <3>1, <4>1, <4>2 DEF JoinEnter, QueueTypeOK
    <3>5. FrameTypeOK'
      BY <2>8, <3>1 DEF JoinEnter, Serve, NetIdle, NetFrame, gameVars, FrameTypeOK
    <3>6. SeatTypeOK' /\ MemberTypeOK' /\ MgrTypeOK'
      BY <2>8 DEF JoinEnter, seatVars, memberVars, mgrVars,
                   SeatTypeOK, MemberTypeOK, MgrTypeOK
    <3> QED BY <3>2, <3>3, <3>4, <3>5, <3>6
  <2>9. ASSUME NEW e \in Net, OnSessionLeave(e) PROVE TypeOK'
    <3>1. net[e].sess \in Sess /\ net[e].room \in Rooms /\ net[e].seat \in Seats
      BY <2>9, NetTyped
    <3>2. SessTypeOK'
      BY <2>9, <3>1 DEF OnSessionLeave, SessTypeOK
    <3>3. FrameTypeOK'
      <4>1. net \in [Net -> NetFrame] /\ roomIdx[net[e].sess] \in Rooms
        BY <3>1 DEF SessTypeOK, FrameTypeOK
      <4>2. /\ [net[e] EXCEPT !.pc = "pushLeave", !.room = roomIdx[net[e].sess]] \in NetFrame
            /\ [net[e] EXCEPT !.pc = "release"] \in NetFrame
        BY <4>1 DEF NetFrame
      <4>3. \/ net' = [net EXCEPT ![e] = [net[e] EXCEPT !.pc = "pushLeave",
                                                       !.room = roomIdx[net[e].sess]]]
            \/ net' = [net EXCEPT ![e] = [net[e] EXCEPT !.pc = "release"]]
        BY <2>9 DEF OnSessionLeave
      <4> QED BY <2>9, <4>1, <4>2, <4>3 DEF OnSessionLeave, gameVars, FrameTypeOK
    <3>4. /\ PoolTypeOK' /\ SeatTypeOK' /\ QueueTypeOK'
          /\ MemberTypeOK' /\ MgrTypeOK'
      BY <2>9 DEF OnSessionLeave, poolVars, seatVars, queueVars, memberVars, mgrVars,
                   PoolTypeOK, SeatTypeOK, QueueTypeOK, MemberTypeOK, MgrTypeOK
    <3> QED BY <3>2, <3>3, <3>4
  <2>10. ASSUME NEW e \in Net, PushLeave(e) PROVE TypeOK'
    <3>1. net[e].sess \in Sess /\ net[e].room \in Rooms /\ net[e].seat \in Seats
      BY <2>10, NetTyped
    <3>2. QueueTypeOK'
      BY <2>10, <3>1, EntryTyped DEF PushLeave, PoolTypeOK, LeaveOf, QueueTypeOK
    <3>3. FrameTypeOK'
      BY <2>10, <3>1 DEF PushLeave, NetFrame, gameVars, FrameTypeOK
    <3>4. /\ PoolTypeOK' /\ SessTypeOK' /\ SeatTypeOK'
          /\ MemberTypeOK' /\ MgrTypeOK'
      BY <2>10 DEF PushLeave, poolVars, sessVars, seatVars, memberVars, mgrVars,
                   PoolTypeOK, SessTypeOK, SeatTypeOK, MemberTypeOK, MgrTypeOK
    <3> QED BY <3>2, <3>3, <3>4
  <2>11. ASSUME NEW e \in Net, ReleaseNetRef(e) PROVE TypeOK'
    <3>1. net[e].sess \in Sess /\ net[e].room \in Rooms /\ net[e].seat \in Seats
      BY <2>11, NetTyped
    <3>2. PoolTypeOK'
      BY <2>11, <3>1 DEF ReleaseNetRef, Release, PoolTypeOK
    <3>3. SessTypeOK'
      BY <2>11, <3>1 DEF ReleaseNetRef, sessVars, SessTypeOK
    <3>4. FrameTypeOK'
      BY <2>11, <3>1 DEF ReleaseNetRef, Serve, NetIdle, NetFrame, gameVars, FrameTypeOK
    <3>5. /\ SeatTypeOK' /\ QueueTypeOK' /\ MemberTypeOK'
          /\ MgrTypeOK'
      BY <2>11 DEF ReleaseNetRef, seatVars, queueVars, memberVars, mgrVars,
                   SeatTypeOK, QueueTypeOK, MemberTypeOK, MgrTypeOK
    <3> QED BY <3>2, <3>3, <3>4, <3>5
  <2>12. ASSUME NEW w \in Game, DrainRoomAddQ(w) PROVE TypeOK'
    <3>1. MgrTypeOK'
      BY <2>12 DEF DrainRoomAddQ, MgrTypeOK
    <3>2. FrameTypeOK'
      BY <2>12 DEF DrainRoomAddQ, MgrTypeOK, FrameTypeOK
    <3>3. /\ PoolTypeOK' /\ SessTypeOK' /\ SeatTypeOK'
          /\ QueueTypeOK' /\ MemberTypeOK'
      BY <2>12 DEF DrainRoomAddQ, poolVars, sessVars, seatVars, queueVars, memberVars,
                   PoolTypeOK, SessTypeOK, SeatTypeOK, QueueTypeOK, MemberTypeOK
    <3> QED BY <3>1, <3>2, <3>3
  <2>13. ASSUME NEW w \in Game, NEW r \in todo[w], SwapQueues(w, r) PROVE TypeOK'
    <3>1. QueueTypeOK'
      BY <2>13 DEF SwapQueues, SwappedOut, QueueTypeOK
    <3>2. FrameTypeOK'
      BY <2>13 DEF SwapQueues, QueueTypeOK, GameFrame, FrameTypeOK
    <3>3. /\ PoolTypeOK' /\ SessTypeOK' /\ SeatTypeOK'
          /\ MemberTypeOK' /\ MgrTypeOK'
      BY <2>13 DEF SwapQueues, poolVars, sessVars, seatVars, memberVars, mgrVars,
                   PoolTypeOK, SessTypeOK, SeatTypeOK, MemberTypeOK, MgrTypeOK
    <3> QED BY <3>1, <3>2, <3>3
  <2>14. ASSUME NEW w \in Game, NEW j \in game[w].joins, InstallMember(w, j) PROVE TypeOK'
    <3>1. /\ game[w].cur \in Rooms /\ game[w].nr \in Rooms
          /\ game[w].joins \subseteq JoinEntry /\ game[w].leaves \subseteq LeaveEntry
      BY <2>14, GameTyped
    <3>2. MemberTypeOK'
      BY <2>14, <3>1, EntryTyped DEF InstallMember, MemberTypeOK
    <3>3. FrameTypeOK'
      BY <2>14, <3>1 DEF InstallMember, GameFrame, FrameTypeOK
    <3>4. /\ PoolTypeOK' /\ SessTypeOK' /\ SeatTypeOK'
          /\ QueueTypeOK' /\ MgrTypeOK'
      BY <2>14 DEF InstallMember, poolVars, sessVars, seatVars, queueVars, mgrVars,
                   PoolTypeOK, SessTypeOK, SeatTypeOK, QueueTypeOK, MgrTypeOK
    <3> QED BY <3>2, <3>3, <3>4
  <2>15. ASSUME NEW w \in Game, NEW j \in game[w].joins, SkipJoin(w, j) PROVE TypeOK'
    <3>1. /\ game[w].cur \in Rooms /\ game[w].nr \in Rooms
          /\ game[w].joins \subseteq JoinEntry /\ game[w].leaves \subseteq LeaveEntry
      BY <2>15, GameTyped
    <3>2. PoolTypeOK'
      BY <2>15, <3>1, EntryTyped DEF SkipJoin, Release, PoolTypeOK
    <3>3. SeatTypeOK'
      BY <2>15, <3>1 DEF SkipJoin, GiveSeatBack, SeatTypeOK
    <3>4. FrameTypeOK'
      BY <2>15, <3>1 DEF SkipJoin, GameFrame, FrameTypeOK
    <3>5. /\ SessTypeOK' /\ QueueTypeOK' /\ MemberTypeOK'
          /\ MgrTypeOK'
      BY <2>15 DEF SkipJoin, sessVars, queueVars, memberVars, mgrVars,
                   SessTypeOK, QueueTypeOK, MemberTypeOK, MgrTypeOK
    <3> QED BY <3>2, <3>3, <3>4, <3>5
  <2>16. ASSUME NEW w \in Game, NEW l \in game[w].leaves, ProcessLeave(w, l) PROVE TypeOK'
    <3>1. /\ game[w].cur \in Rooms /\ game[w].nr \in Rooms
          /\ game[w].joins \subseteq JoinEntry /\ game[w].leaves \subseteq LeaveEntry
      BY <2>16, GameTyped
    <3>2. PoolTypeOK'
      BY <2>16, <3>1, EntryTyped DEF ProcessLeave, Release, MemberTypeOK, poolVars, PoolTypeOK
    <3>3. SeatTypeOK'
      BY <2>16, <3>1 DEF ProcessLeave, GiveSeatBack, SeatTypeOK
    <3>4. MemberTypeOK'
      BY <2>16, <3>1 DEF ProcessLeave, memberVars, MemberTypeOK
    <3>5. FrameTypeOK'
      BY <2>16, <3>1 DEF ProcessLeave, GameFrame, FrameTypeOK
    <3>6. SessTypeOK' /\ QueueTypeOK' /\ MgrTypeOK'
      BY <2>16 DEF ProcessLeave, sessVars, queueVars, mgrVars,
                   SessTypeOK, QueueTypeOK, MgrTypeOK
    <3> QED BY <3>2, <3>3, <3>4, <3>5, <3>6
  <2>17. ASSUME NEW w \in Game, DeathCheck(w) PROVE TypeOK'
    <3>1. /\ game[w].cur \in Rooms /\ game[w].nr \in Rooms
          /\ game[w].joins \subseteq JoinEntry /\ game[w].leaves \subseteq LeaveEntry
      BY <2>17, GameTyped
    <3>2. SeatTypeOK'
      BY <2>17, <3>1 DEF DeathCheck, SeatTypeOK
    <3>3. FrameTypeOK'
      BY <2>17, <3>1 DEF DeathCheck, GameFrame, FrameTypeOK
    <3>4. /\ PoolTypeOK' /\ SessTypeOK' /\ QueueTypeOK'
          /\ MemberTypeOK' /\ MgrTypeOK'
      BY <2>17 DEF DeathCheck, poolVars, sessVars, queueVars, memberVars, mgrVars,
                   PoolTypeOK, SessTypeOK, QueueTypeOK, MemberTypeOK, MgrTypeOK
    <3> QED BY <3>2, <3>3, <3>4
  <2>18. ASSUME NEW w \in Game, ReapRoom(w) PROVE TypeOK'
    <3>1. /\ game[w].cur \in Rooms /\ game[w].nr \in Rooms
          /\ game[w].joins \subseteq JoinEntry /\ game[w].leaves \subseteq LeaveEntry
      BY <2>18, GameTyped
    <3>2. MgrTypeOK'
      <4>1. DropOpen(openRooms, game[w].cur) \in Seq(Rooms)
        BY <3>1, DropOpenType DEF MgrTypeOK
      <4> QED BY <2>18, <3>1, <4>1 DEF ReapRoom, RetireRoom, MgrTypeOK
    <3>3. FrameTypeOK'
      BY <2>18, <3>1 DEF ReapRoom, FrameTypeOK
    <3>4. /\ PoolTypeOK' /\ SessTypeOK' /\ SeatTypeOK'
          /\ QueueTypeOK' /\ MemberTypeOK'
      BY <2>18 DEF ReapRoom, poolVars, sessVars, seatVars, queueVars, memberVars,
                   PoolTypeOK, SessTypeOK, SeatTypeOK, QueueTypeOK, MemberTypeOK
    <3> QED BY <3>2, <3>3, <3>4
  <2>19. ASSUME NEW w \in Game, RoomTick(w) PROVE TypeOK'
    <3>1. FrameTypeOK'
      BY <2>19 DEF RoomTick, FrameTypeOK
    <3>2. /\ PoolTypeOK' /\ SessTypeOK' /\ SeatTypeOK'
          /\ QueueTypeOK' /\ MemberTypeOK' /\ MgrTypeOK'
      BY <2>19 DEF RoomTick, poolVars, sessVars, seatVars, queueVars, memberVars, mgrVars,
                   PoolTypeOK, SessTypeOK, SeatTypeOK, QueueTypeOK, MemberTypeOK, MgrTypeOK
    <3> QED BY <3>1, <3>2
  <2>20. ASSUME NEW w \in Game, TransferBegin(w) PROVE TypeOK'
    <3>1. /\ game[w].cur \in Rooms /\ game[w].nr \in Rooms
          /\ game[w].joins \subseteq JoinEntry /\ game[w].leaves \subseteq LeaveEntry
      BY <2>20, GameTyped
    <3>2. SeatTypeOK'
      BY <2>20, <3>1 DEF TransferBegin, AllocRoomSlotLocked, SeatTypeOK
    <3>3. QueueTypeOK'
      BY <2>20, <3>1 DEF TransferBegin, AllocRoomSlotLocked, QueueTypeOK
    <3>4. MemberTypeOK'
      BY <2>20, <3>1 DEF TransferBegin, AllocRoomSlotLocked, MemberTypeOK
    <3>5. MgrTypeOK'
      BY <2>20, <3>1 DEF TransferBegin, AllocRoomSlotLocked, MgrTypeOK
    <3>6. FrameTypeOK'
      <4>1. PICK r \in Rooms :
              game' = [game EXCEPT ![w].pc = "move", ![w].nr = r,
                                   ![w].joins = pendingJoin[game[w].cur],
                                   ![w].leaves = pendingLeave[game[w].cur]]
        BY <2>20 DEF TransferBegin
      <4>2. /\ pendingJoin[game[w].cur] \in SUBSET JoinEntry
            /\ pendingLeave[game[w].cur] \in SUBSET LeaveEntry
        BY <3>1 DEF QueueTypeOK
      <4> DEFINE f == [game[w] EXCEPT !.pc = "move", !.nr = r,
                                      !.joins = pendingJoin[game[w].cur],
                                      !.leaves = pendingLeave[game[w].cur]]
      <4>3. f \in GameFrame
        BY <4>2, GameTyped DEF GameFrame
      <4>4. game' = [game EXCEPT ![w] = f]
        BY <4>1
      <4> QED BY <2>20, <4>3, <4>4 DEF TransferBegin, FrameTypeOK
    <3>7. PoolTypeOK' /\ SessTypeOK'
      BY <2>20 DEF TransferBegin, poolVars, sessVars,
                   PoolTypeOK, SessTypeOK
    <3> QED BY <3>2, <3>3, <3>4, <3>5, <3>6, <3>7
  <2>21. ASSUME NEW w \in Game, NEW m \in members[game[w].cur], TransferMember(w, m) PROVE TypeOK'
    <3>1. /\ game[w].cur \in Rooms /\ game[w].nr \in Rooms
          /\ game[w].joins \subseteq JoinEntry /\ game[w].leaves \subseteq LeaveEntry
      BY <2>21, GameTyped
    <3>2. SessTypeOK'
      BY <2>21, <3>1 DEF TransferMember, Redirected, SessTypeOK
    <3>3. MemberTypeOK'
      BY <2>21, <3>1 DEF TransferMember, MemberTypeOK
    <3>4. /\ PoolTypeOK' /\ SeatTypeOK' /\ QueueTypeOK'
          /\ MgrTypeOK' /\ FrameTypeOK'
      BY <2>21 DEF TransferMember, poolVars, seatVars, queueVars, mgrVars, gameVars,
                   PoolTypeOK, SeatTypeOK, QueueTypeOK, MgrTypeOK, FrameTypeOK
    <3> QED BY <3>2, <3>3, <3>4
  <2>22. ASSUME NEW w \in Game, TransferEnd(w) PROVE TypeOK'
    <3> DEFINE new   == game[w].nr
               seats == SeatsOf(members[new]) \cup SeatsOf(game[w].joins)
    <3>1. /\ game[w].cur \in Rooms /\ new \in Rooms
          /\ game[w].joins \subseteq JoinEntry /\ game[w].leaves \subseteq LeaveEntry
      BY <2>22, GameTyped
    <3>2. seats \subseteq Seats
      BY <3>1, EntryTyped DEF SeatsOf, MemberTypeOK
    <3>3. Cardinality(seats) \in Nat /\ Cardinality(SeatsOf(members[new])) \in Nat
      BY <3>2, SeatsFinite
    <3>4. SessTypeOK'
      BY <2>22, <3>1 DEF TransferEnd, Redirected, SessTypeOK
    <3>5. SeatTypeOK'
      BY <2>22, <3>1, <3>2, <3>3 DEF TransferEnd, SeatTypeOK
    <3>6. QueueTypeOK'
      BY <2>22, <3>1 DEF TransferEnd, QueueTypeOK
    <3>7. MemberTypeOK'
      BY <2>22, <3>1, <3>3 DEF TransferEnd, MemberTypeOK
    <3>8. MgrTypeOK'
      <4>1. DropOpen(openRooms, game[w].cur) \in Seq(Rooms)
        BY <3>1, DropOpenType DEF MgrTypeOK
      <4> QED BY <2>22, <3>1, <4>1 DEF TransferEnd, RetireRoom, MgrTypeOK
    <3>9. FrameTypeOK'
      BY <2>22, <3>1 DEF TransferEnd, FrameTypeOK
    <3>10. PoolTypeOK'
      BY <2>22 DEF TransferEnd, poolVars, PoolTypeOK
    <3> QED BY <3>4, <3>5, <3>6, <3>7, <3>8, <3>9, <3>10
  <2>23. CASE UNCHANGED vars
    BY <2>23 DEF vars, poolVars, sessVars, seatVars, queueVars, memberVars, mgrVars, gameVars,
                  PoolTypeOK, SessTypeOK, SeatTypeOK, QueueTypeOK, MemberTypeOK, MgrTypeOK, FrameTypeOK
  <2> QED
    BY <2>1, <2>2, <2>3, <2>4, <2>5, <2>6, <2>7, <2>8, <2>9, <2>10, <2>11, <2>12,
       <2>13, <2>14, <2>15, <2>16, <2>17, <2>18, <2>19, <2>20, <2>21, <2>22, <2>23, <2>24
       DEF Next, NetStep, ServeStep, GameStep
<1> QED BY <1>1, <1>2, PTL DEF Spec

--------------------------------------------------------------------------------
(* The open list as a set of rooms.                                             *)

(* Room r is on the list q.                                                     *)
Listed(q, r) == \E k \in 1 .. Len(q) : q[k] = r

(* No room is on the list q twice.                                              *)
ListedOnce(q) == \A i, k \in 1 .. Len(q) : q[i] = q[k] => i = k

(* Swap-and-pop (RoomManager.cpp: TransferRoom, FreeRoomIfDrained) removes      *)
(* the one room and no other, and leaves a list without repetition.             *)
LEMMA DropOpenDrops ==
    ASSUME NEW q \in Seq(Rooms), NEW r \in Rooms, ListedOnce(q)
    PROVE  /\ ListedOnce(DropOpen(q, r))
           /\ \A x \in Rooms : Listed(DropOpen(q, r), x) <=> Listed(q, x) /\ x # r
<1>1. CASE Listed(q, r)
  <2> DEFINE i == CHOOSE i \in 1 .. Len(q) : q[i] = r
             n == Len(q)
             p == [q EXCEPT ![i] = q[n]]
             d == SubSeq(p, 1, n - 1)
  <2>1. i \in 1 .. n /\ q[i] = r
    BY <1>1 DEF Listed
  <2>2. p \in Seq(Rooms) /\ Len(p) = n /\ n \in Nat
    BY <2>1
  <2>3. /\ Len(d) = n - 1
        /\ \A k \in 1 .. n - 1 : d[k] = IF k = i THEN q[n] ELSE q[k]
    BY <2>1, <2>2
  <2>4. DropOpen(q, r) = d
    BY <1>1 DEF DropOpen, Listed
  <2> HIDE DEF i, p, d
  <2>5. ListedOnce(d)
    BY <2>1, <2>2, <2>3 DEF ListedOnce
  <2>6. ASSUME NEW x \in Rooms, Listed(d, x) PROVE Listed(q, x) /\ x # r
    <3>1. PICK k \in 1 .. n - 1 : d[k] = x
      BY <2>2, <2>3, <2>6 DEF Listed
    <3> QED BY <3>1, <2>1, <2>2, <2>3 DEF Listed, ListedOnce
  <2>7. ASSUME NEW x \in Rooms, Listed(q, x), x # r PROVE Listed(d, x)
    <3>1. PICK k \in 1 .. n : q[k] = x
      BY <2>7 DEF Listed
    <3>2. CASE k = n
      <4>1. i # n BY <2>1, <2>7, <3>1, <3>2
      <4>2. i \in 1 .. n - 1 /\ d[i] = x BY <2>1, <2>2, <2>3, <3>1, <3>2, <4>1
      <4> QED BY <4>2, <2>3 DEF Listed
    <3>3. CASE k # n
      <4>1. k \in 1 .. n - 1 /\ d[k] = x BY <2>1, <2>2, <2>3, <2>7, <3>1, <3>3
      <4> QED BY <4>1, <2>3 DEF Listed
    <3> QED BY <3>2, <3>3
  <2> QED BY <2>4, <2>5, <2>6, <2>7
<1>2. CASE ~ Listed(q, r)
  BY <1>2 DEF DropOpen, Listed
<1> QED BY <1>1, <1>2

(* A list cut short (Join drops the unusable rooms from its back) has no        *)
(* repetition and no new room.                                                  *)
LEMMA PrefixListed ==
    ASSUME NEW q \in Seq(Rooms), NEW n \in 0 .. Len(q), ListedOnce(q)
    PROVE  /\ SubSeq(q, 1, n) \in Seq(Rooms)
           /\ ListedOnce(SubSeq(q, 1, n))
           /\ \A x \in Rooms : Listed(SubSeq(q, 1, n), x) => Listed(q, x)
<1> DEFINE p == SubSeq(q, 1, n)
<1>1. /\ p \in Seq(Rooms) /\ Len(p) = n /\ \A k \in 1 .. n : p[k] = q[k]
      /\ \A k \in 1 .. n : k \in 1 .. Len(q)
  OBVIOUS
<1> HIDE DEF p
<1>2. ListedOnce(p) /\ \A x \in Rooms : Listed(p, x) => Listed(q, x)
  BY <1>1 DEF ListedOnce, Listed
<1> QED BY <1>1, <1>2 DEF p

(* A room that is pushed on a list it is not on is on it once.                  *)
LEMMA AppendListed ==
    ASSUME NEW q \in Seq(Rooms), NEW r \in Rooms, ListedOnce(q), ~Listed(q, r)
    PROVE  /\ ListedOnce(Append(q, r))
           /\ \A x \in Rooms : Listed(Append(q, r), x) <=> Listed(q, x) \/ x = r
<1>1. /\ Len(Append(q, r)) = Len(q) + 1 /\ Len(q) \in Nat
      /\ \A k \in 1 .. Len(q) : Append(q, r)[k] = q[k]
      /\ Append(q, r)[Len(q) + 1] = r
  OBVIOUS
<1> DEFINE a == Append(q, r)
<1> HIDE DEF a
<1>2. ListedOnce(a)
  BY <1>1 DEF ListedOnce, Listed, a
<1>3. ASSUME NEW x \in Rooms PROVE Listed(a, x) <=> Listed(q, x) \/ x = r
  <2>1. Len(q) + 1 \in 1 .. Len(a) /\ \A k \in 1 .. Len(q) : k \in 1 .. Len(a) BY <1>1 DEF a
  <2>2. \A k \in 1 .. Len(a) : k \in 1 .. Len(q) \/ k = Len(q) + 1 BY <1>1 DEF a
  <2> QED BY <1>1, <2>1, <2>2 DEF Listed, a
<1> QED BY <1>2, <1>3 DEF a

--------------------------------------------------------------------------------
(* First layer of the invariant: the lock and the frames.                       *)

(* The program counters at which an epoll worker holds RoomManager::_lock.      *)
Locked(pc) == pc \in {"reserve0", "enter"}

(* RoomManager::_lock has one holder: an epoll worker or a game worker.         *)
LockExclusive ==
    /\ \A e, f \in Net : Locked(net[e].pc) /\ Locked(net[f].pc) => e = f
    /\ \A v, w \in Game : game[v].pc = "move" /\ game[w].pc = "move" => v = w
    /\ \A e \in Net, w \in Game : ~(Locked(net[e].pc) /\ game[w].pc = "move")

(* An epoll worker works on a session it has the netRef of; one it is cutting   *)
(* or has cut is dead, so that a late look at the dead flag finds it set.       *)
NetHasSession ==
    \A e \in Net :
        LET s == net[e].sess
        IN  /\ net[e].pc \notin {"idle", "serve"} => s \in mySessions[e]
            /\ net[e].pc \in {"leave", "pushLeave", "release"} => dead[s]
            /\ net[e].pc = "serve" => s \in mySessions[e] \/ dead[s]

(* A game worker has a batch only while it processes or moves it.               *)
BatchInUse ==
    \A w \in Game : game[w].pc \notin {"queues", "move"}
              => game[w].joins = {} /\ game[w].leaves = {}

(* First layer of the inductive invariant.                                      *)
LockInv == LockExclusive /\ NetHasSession /\ BatchInUse

--------------------------------------------------------------------------------
(* What each action does.  The proofs of the invariants cite these lemmas       *)
(* instead of the actions.                                                      *)

(* Epoll worker e alone moves its frame, to these values.                       *)
NetAt(e, pc, s, r, i) ==
    /\ net'[e].pc = pc /\ net'[e].sess = s /\ net'[e].room = r /\ net'[e].seat = i
    /\ \A f \in Net \ {e} : net'[f] = net[f]

(* Game worker w alone moves its frame, to these values.                        *)
GameAt(w, pc, r, n, js, ls) ==
    /\ game'[w].pc = pc /\ game'[w].cur = r /\ game'[w].nr = n
    /\ game'[w].joins = js /\ game'[w].leaves = ls
    /\ \A v \in Game \ {w} : game'[v] = game[v]

(* The entry that the Join of epoll worker e queues.                            *)
Claim(e) == [sess |-> net[e].sess, gen |-> gen[net[e].sess], seat |-> net[e].seat]

(* The seats of the party that game worker w is moving.                         *)
PartySeats(w) == SeatsOf(members[game[w].nr]) \cup SeatsOf(game[w].joins)

(* HandleAccept: one slot leaves the pool with one reference; no room           *)
(* changes.                                                                     *)
LEMMA AcceptEffect ==
    ASSUME TypeOK, NEW e \in Net, NEW s \in Sess, Accept(e, s)
    PROVE  /\ net[e].pc = "idle" /\ s \in free /\ free' = free \ {s}
           /\ refs' = [refs EXCEPT ![s] = 1] /\ dead' = [dead EXCEPT ![s] = FALSE]
           /\ mySessions' = [mySessions EXCEPT ![e] = @ \cup {s}]
           /\ inRoom' = [inRoom EXCEPT ![s] = FALSE]
           /\ UNCHANGED <<gen, rdead, everReserved, seatUsed, reservedSeats, pendingJoin,
                      pendingLeave, members, memberCount, gameWorker, freeRooms,
                      openRooms, roomsPerWorker, addQ, net, myRooms, todo, game>>
BY DEF Accept, Alloc, roomVars, seatVars, queueVars, memberVars, mgrVars, gameVars

(* A failed epoll_ctl(ADD): the slot stays in the pool, one generation on.      *)
LEMMA AcceptAbortedEffect ==
    ASSUME TypeOK, NEW e \in Net, NEW s \in Sess, AcceptAborted(e, s)
    PROVE  /\ s \in free /\ refs' = [refs EXCEPT ![s] = 0]
           /\ gen' = [gen EXCEPT ![s] = @ + 1] /\ dead' = [dead EXCEPT ![s] = TRUE]
           /\ inRoom' = [inRoom EXCEPT ![s] = FALSE]
           /\ UNCHANGED <<free, mySessions, rdead, everReserved, seatUsed, reservedSeats,
                      pendingJoin, pendingLeave, members, memberCount, gameWorker,
                      freeRooms, openRooms, roomsPerWorker, addQ, net, myRooms, todo,
                      game>>
BY DEF AcceptAborted, roomVars, seatVars, queueVars, memberVars, mgrVars, gameVars

(* HandleSession, entered or left: the worker's frame alone.                    *)
LEMMA ServeEffect ==
    ASSUME TypeOK, NEW e \in Net, ServeStep(e)
    PROVE  /\ net[e].pc \in {"idle", "serve"} /\ net'[e].pc \in {"idle", "serve"}
           /\ net'[e].pc = "serve" => net'[e].sess \in mySessions[e]
           /\ \A f \in Net \ {e} : net'[f] = net[f]
           /\ UNCHANGED <<free, gen, refs, dead, mySessions, inRoom, roomIdx, actorId,
                      rdead, everReserved, seatUsed, reservedSeats, pendingJoin,
                      pendingLeave, members, memberCount, gameWorker, freeRooms,
                      openRooms, roomsPerWorker, addQ, myRooms, todo, game>>
<1>1. UNCHANGED <<free, gen, refs, dead, mySessions, inRoom, roomIdx, actorId,
                  rdead, everReserved, seatUsed, reservedSeats, pendingJoin,
                  pendingLeave, members, memberCount, gameWorker, freeRooms,
                  openRooms, roomsPerWorker, addQ, myRooms, todo, game>>
  BY DEF ServeStep, HandleSession, HandleSessionDone, poolVars, sessVars, roomVars, seatVars,
     queueVars, memberVars, mgrVars, gameVars
<1>2. CASE HandleSessionDone(e)
  BY <1>1, <1>2 DEF HandleSessionDone, NetIdle, TypeOK, FrameTypeOK
<1>3. ASSUME NEW s \in Sess, HandleSession(e, s)
      PROVE  /\ net[e].pc = "idle" /\ net'[e].pc = "serve" /\ net'[e].sess \in mySessions[e]
             /\ \A f \in Net \ {e} : net'[f] = net[f]
  BY <1>3 DEF HandleSession, Serve, NetIdle, TypeOK, FrameTypeOK
<1> QED BY <1>1, <1>2, <1>3 DEF ServeStep

(* Join on an open room: one vacant seat of a live listed room is marked and    *)
(* counted, and the open list gets shorter at its back only.                    *)
LEMMA JoinReserveEffect ==
    ASSUME TypeOK, LockInv, NEW e \in Net, NEW s \in Sess, JoinReserve(e, s)
    PROVE  /\ net[e].pc = "serve" /\ s \in mySessions[e] /\ ~inRoom[s] /\ ~MgrLockHeld
           /\ \E r \in Rooms, i \in Seats, k \in 1 .. Len(openRooms) :
                 /\ openRooms[k] = r /\ ~rdead[r] /\ FirstFreeSeat(r, i)
                 /\ seatUsed' = [seatUsed EXCEPT ![r] = @ \cup {i}]
                 /\ everReserved' = [everReserved EXCEPT ![r] = TRUE]
                 /\ reservedSeats' = [reservedSeats EXCEPT ![r] = @ + 1]
                 /\ openRooms' = SubSeq(openRooms, 1,
                                    IF reservedSeats[r] + 1 = kRoomMembers THEN k - 1 ELSE k)
                 /\ NetAt(e, "enter", s, r, i)
           /\ UNCHANGED <<free, gen, refs, dead, mySessions, inRoom, roomIdx, actorId,
                      rdead, pendingJoin, pendingLeave, members, memberCount,
                      gameWorker, freeRooms, roomsPerWorker, addQ, myRooms, todo,
                      game>>
<1>1. /\ JoinCalled(e, s)
      /\ UNCHANGED <<free, gen, refs, dead, mySessions, inRoom, roomIdx, actorId, rdead,
                     pendingJoin, pendingLeave, members, memberCount, gameWorker,
                     freeRooms, roomsPerWorker, addQ, myRooms, todo, game>>
  BY DEF JoinReserve, poolVars, sessVars, queueVars, memberVars, gameVars
<1>2. PICK k \in 1 .. Len(openRooms), i \in Seats :
        /\ Usable(k) /\ FirstFreeSeat(openRooms[k], i)
        /\ seatUsed' = [seatUsed EXCEPT ![openRooms[k]] = @ \cup {i}]
        /\ everReserved' = [everReserved EXCEPT ![openRooms[k]] = TRUE]
        /\ reservedSeats' = [reservedSeats EXCEPT ![openRooms[k]] = @ + 1]
        /\ openRooms' = SubSeq(openRooms, 1,
                          IF reservedSeats[openRooms[k]] + 1 = kRoomMembers THEN k - 1 ELSE k)
        /\ net' = [net EXCEPT ![e] = [pc |-> "enter", sess |-> s, room |-> openRooms[k],
                                      seat |-> i]]
  BY DEF JoinReserve
<1>3. PICK r \in Rooms : r = openRooms[k]
  BY DEF TypeOK, MgrTypeOK
<1>4. NetAt(e, "enter", s, r, i)
  BY <1>2, <1>3 DEF NetAt, TypeOK, FrameTypeOK
<1> QED BY <1>1, <1>2, <1>3, <1>4 DEF JoinCalled, Serves, Usable, LockInv, NetHasSession

(* Join without an open room: a free slot becomes an empty room of some         *)
(* worker's mailbox.                                                            *)
LEMMA JoinAllocEffect ==
    ASSUME TypeOK, LockInv, NEW e \in Net, NEW s \in Sess, JoinAlloc(e, s)
    PROVE  /\ net[e].pc = "serve" /\ s \in mySessions[e] /\ ~inRoom[s] /\ ~MgrLockHeld
           /\ \E r \in Rooms, w \in Game :
                 /\ AllocRoomSlotLocked(r, w, {})
                 /\ addQ' = [addQ EXCEPT ![w] = @ \cup {r}]
                 /\ NetAt(e, "reserve0", s, r, 0)
           /\ openRooms' = <<>>
           /\ UNCHANGED <<free, gen, refs, dead, mySessions, inRoom, roomIdx, actorId,
                      myRooms, todo, game>>
<1>1. PICK r \in Rooms, w \in Game :
        /\ AllocRoomSlotLocked(r, w, {})
        /\ addQ' = [addQ EXCEPT ![w] = @ \cup {r}]
        /\ net' = [net EXCEPT ![e] = [pc |-> "reserve0", sess |-> s, room |-> r, seat |-> 0]]
  BY DEF JoinAlloc
<1>2. NetAt(e, "reserve0", s, r, 0)
  BY <1>1 DEF NetAt, TypeOK, FrameTypeOK
<1>3. /\ JoinCalled(e, s) /\ openRooms' = <<>>
      /\ UNCHANGED <<free, gen, refs, dead, mySessions, inRoom, roomIdx, actorId,
                     myRooms, todo, game>>
  BY DEF JoinAlloc, poolVars, sessVars, gameVars
<1> QED BY <1>1, <1>2, <1>3 DEF JoinCalled, Serves, LockInv, NetHasSession

(* JOIN_FAIL: only the open list is emptied, of rooms nobody could join.        *)
LEMMA JoinFailEffect ==
    ASSUME TypeOK, NEW e \in Net, NEW s \in Sess, JoinFail(e, s)
    PROVE  /\ openRooms' = <<>>
           /\ UNCHANGED <<free, gen, refs, dead, mySessions, inRoom, roomIdx, actorId,
                      rdead, everReserved, seatUsed, reservedSeats, pendingJoin,
                      pendingLeave, members, memberCount, gameWorker, freeRooms,
                      roomsPerWorker, addQ, net, myRooms, todo, game>>
BY DEF JoinFail, poolVars, sessVars, seatVars, queueVars, memberVars, gameVars

(* Disconnect begins: the session is dead, its worker is at OnSessionLeave.     *)
LEMMA DisconnectEffect ==
    ASSUME TypeOK, LockInv, NEW e \in Net, NEW s \in Sess, Disconnect(e, s)
    PROVE  /\ net[e].pc = "serve" /\ s \in mySessions[e]
           /\ dead' = [dead EXCEPT ![s] = TRUE]
           /\ NetAt(e, "leave", s, 0, 0)
           /\ UNCHANGED <<free, gen, refs, mySessions, inRoom, roomIdx, actorId, rdead,
                      everReserved, seatUsed, reservedSeats, pendingJoin,
                      pendingLeave, members, memberCount, gameWorker, freeRooms,
                      openRooms, roomsPerWorker, addQ, myRooms, todo, game>>
BY FramesTyped DEF Disconnect, Serves, LockInv, NetHasSession, NetAt, NetIdle, NetFrame, TypeOK,
   FrameTypeOK, sessVars, roomVars, seatVars, queueVars, memberVars, mgrVars, gameVars

(* Join in its new room: seat 0 is marked, the room is counted and opened.      *)
LEMMA JoinReserveFirstEffect ==
    ASSUME TypeOK, NEW e \in Net, JoinReserveFirst(e)
    PROVE  /\ net[e].pc = "reserve0"
           /\ seatUsed' = [seatUsed EXCEPT ![net[e].room] = @ \cup {0}]
           /\ everReserved' = [everReserved EXCEPT ![net[e].room] = TRUE]
           /\ reservedSeats' = [reservedSeats EXCEPT ![net[e].room] = 1]
           /\ openRooms' = Append(openRooms, net[e].room)
           /\ NetAt(e, "enter", net[e].sess, net[e].room, net[e].seat)
           /\ UNCHANGED <<free, gen, refs, dead, mySessions, inRoom, roomIdx, actorId,
                      rdead, pendingJoin, pendingLeave, members, memberCount,
                      gameWorker, freeRooms, roomsPerWorker, addQ, myRooms, todo,
                      game>>
BY DEF JoinReserveFirst, NetAt, NetFrame, TypeOK, FrameTypeOK, poolVars, sessVars, queueVars,
   memberVars,
   gameVars

(* Join ends: an entry with a gameRef is queued and the session told its room   *)
(* and seat.                                                                    *)
LEMMA JoinEnterEffect ==
    ASSUME TypeOK, NEW e \in Net, JoinEnter(e)
    PROVE  /\ net[e].pc = "enter"
           /\ refs' = [refs EXCEPT ![net[e].sess] = @ + 1]
           /\ pendingJoin' = [pendingJoin EXCEPT ![net[e].room] = @ \cup {Claim(e)}]
           /\ inRoom' = [inRoom EXCEPT ![net[e].sess] = TRUE]
           /\ roomIdx' = [roomIdx EXCEPT ![net[e].sess] = net[e].room]
           /\ actorId' = [actorId EXCEPT ![net[e].sess] = net[e].seat]
           /\ NetAt(e, "serve", net[e].sess, 0, 0)
           /\ UNCHANGED <<free, gen, dead, mySessions, rdead, everReserved, seatUsed,
                      reservedSeats, pendingLeave, members, memberCount, gameWorker,
                      freeRooms, openRooms, roomsPerWorker, addQ, myRooms, todo,
                      game>>
BY DEF JoinEnter, AddRef, Claim, NetAt, Serve, NetIdle, TypeOK, FrameTypeOK, seatVars, memberVars,
   mgrVars, gameVars

(* OnSessionLeave: a session in a room is marked as left and goes to the        *)
(* room's queue, another goes straight to its release.                          *)
LEMMA OnSessionLeaveEffect ==
    ASSUME TypeOK, NEW e \in Net, OnSessionLeave(e)
    PROVE  /\ net[e].pc = "leave"
           /\ inRoom' = [inRoom EXCEPT ![net[e].sess] = FALSE]
           /\ \/ inRoom[net[e].sess] /\ NetAt(e, "pushLeave", net[e].sess, roomIdx[net[e].sess], net[e].seat)
              \/ ~inRoom[net[e].sess] /\ NetAt(e, "release", net[e].sess, net[e].room, net[e].seat)
           /\ UNCHANGED <<free, gen, refs, dead, mySessions, roomIdx, actorId, rdead,
                      everReserved, seatUsed, reservedSeats, pendingJoin,
                      pendingLeave, members, memberCount, gameWorker, freeRooms,
                      openRooms, roomsPerWorker, addQ, myRooms, todo, game>>
<1>1. /\ net[e].pc = "leave"
      /\ UNCHANGED <<free, gen, refs, dead, mySessions, roomIdx, actorId, rdead,
                     everReserved, seatUsed, reservedSeats, pendingJoin, pendingLeave,
                     members, memberCount, gameWorker, freeRooms, openRooms,
                     roomsPerWorker, addQ, myRooms, todo, game>>
  BY DEF OnSessionLeave, poolVars, roomVars, seatVars, queueVars, memberVars, mgrVars, gameVars
<1>2. CASE inRoom[net[e].sess]
  <2>1. /\ inRoom' = [inRoom EXCEPT ![net[e].sess] = FALSE]
        /\ net' = [net EXCEPT ![e].pc = "pushLeave", ![e].room = roomIdx[net[e].sess]]
    BY <1>2 DEF OnSessionLeave
  <2>2. NetAt(e, "pushLeave", net[e].sess, roomIdx[net[e].sess], net[e].seat)
    BY <2>1 DEF NetAt, NetFrame, TypeOK, FrameTypeOK
  <2> QED BY <1>1, <1>2, <2>1, <2>2
<1>3. CASE ~inRoom[net[e].sess]
  <2>1. inRoom' = inRoom /\ net' = [net EXCEPT ![e].pc = "release"]
    BY <1>3 DEF OnSessionLeave
  <2>2. NetAt(e, "release", net[e].sess, net[e].room, net[e].seat)
    BY <2>1 DEF NetAt, NetFrame, TypeOK, FrameTypeOK
  <2>3. inRoom' = [inRoom EXCEPT ![net[e].sess] = FALSE]
    BY <1>3, <2>1 DEF TypeOK, SessTypeOK
  <2> QED BY <1>1, <1>3, <2>2, <2>3
<1> QED BY <1>2, <1>3

(* OnSessionLeave under the room's lock: one leave entry is queued.             *)
LEMMA PushLeaveEffect ==
    ASSUME TypeOK, NEW e \in Net, PushLeave(e)
    PROVE  /\ net[e].pc = "pushLeave"
           /\ pendingLeave' = [pendingLeave EXCEPT ![net[e].room] = @ \cup {LeaveOf(net[e].sess)}]
           /\ NetAt(e, "release", net[e].sess, net[e].room, net[e].seat)
           /\ UNCHANGED <<free, gen, refs, dead, mySessions, inRoom, roomIdx, actorId,
                      rdead, everReserved, seatUsed, reservedSeats, pendingJoin,
                      members, memberCount, gameWorker, freeRooms, openRooms,
                      roomsPerWorker, addQ, myRooms, todo, game>>
BY DEF PushLeave, NetAt, NetFrame, TypeOK, FrameTypeOK, poolVars, sessVars, seatVars,
   memberVars,
   mgrVars, gameVars

(* Disconnect ends: the worker forgets the session and gives its netRef back.   *)
LEMMA ReleaseNetRefEffect ==
    ASSUME TypeOK, NEW e \in Net, ReleaseNetRef(e)
    PROVE  /\ net[e].pc = "release"
           /\ mySessions' = [mySessions EXCEPT ![e] = @ \ {net[e].sess}]
           /\ Release(net[e].sess)
           /\ NetAt(e, "serve", net[e].sess, 0, 0)
           /\ UNCHANGED <<dead, inRoom, roomIdx, actorId, rdead, everReserved, seatUsed,
                      reservedSeats, pendingJoin, pendingLeave, members, memberCount,
                      gameWorker, freeRooms, openRooms, roomsPerWorker, addQ,
                      myRooms, todo, game>>
BY DEF ReleaseNetRef, Release, NetAt, Serve, NetIdle, TypeOK, FrameTypeOK, sessVars, roomVars,
   seatVars, queueVars, memberVars, mgrVars, gameVars

(* TickOnce begins: the mailbox joins the worker's list.                        *)
LEMMA DrainRoomAddQEffect ==
    ASSUME TypeOK, NEW w \in Game, DrainRoomAddQ(w)
    PROVE  /\ game[w].pc = "rooms" /\ todo[w] = {}
           /\ myRooms' = [myRooms EXCEPT ![w] = @ \cup addQ[w]]
           /\ todo' = [todo EXCEPT ![w] = myRooms[w] \cup addQ[w]]
           /\ addQ' = [addQ EXCEPT ![w] = {}]
           /\ UNCHANGED <<free, gen, refs, dead, mySessions, inRoom, roomIdx, actorId,
                      rdead, everReserved, seatUsed, reservedSeats, pendingJoin,
                      pendingLeave, members, memberCount, gameWorker, freeRooms,
                      openRooms, roomsPerWorker, net, game>>
BY DEF DrainRoomAddQ, poolVars, sessVars, seatVars, queueVars, memberVars

(* ProcessRoomQueues begins: both queues become the worker's batch.             *)
LEMMA SwapQueuesEffect ==
    ASSUME TypeOK, NEW w \in Game, NEW r \in todo[w], SwapQueues(w, r)
    PROVE  /\ game[w].pc = "rooms"
           /\ GameAt(w, "queues", r, 0, pendingJoin[r], pendingLeave[r])
           /\ pendingJoin' = [pendingJoin EXCEPT ![r] = {}] /\ pendingLeave' = [pendingLeave EXCEPT ![r] = {}]
           /\ UNCHANGED <<free, gen, refs, dead, mySessions, inRoom, roomIdx, actorId,
                      rdead, everReserved, seatUsed, reservedSeats, members,
                      memberCount, gameWorker, freeRooms, openRooms, roomsPerWorker,
                      addQ, net, myRooms, todo>>
BY DEF SwapQueues, SwappedOut, GameAt, TypeOK, FrameTypeOK, poolVars, sessVars, seatVars,
   memberVars, mgrVars

(* A join entry becomes a member and leaves the batch.                          *)
LEMMA InstallMemberEffect ==
    ASSUME TypeOK, NEW w \in Game, NEW j \in game[w].joins, InstallMember(w, j)
    PROVE  /\ game[w].pc = "queues" /\ StillThere(j)
           /\ members' = [members EXCEPT ![game[w].cur] = {m \in @ : m.seat # j.seat} \cup {j}]
           /\ memberCount' = [memberCount EXCEPT ![game[w].cur] = @ + 1]
           /\ GameAt(w, "queues", game[w].cur, game[w].nr, game[w].joins \ {j}, game[w].leaves)
           /\ UNCHANGED <<free, gen, refs, dead, mySessions, inRoom, roomIdx, actorId,
                      rdead, everReserved, seatUsed, reservedSeats, pendingJoin,
                      pendingLeave, gameWorker, freeRooms, openRooms, roomsPerWorker,
                      addQ, net, myRooms, todo>>
BY DEF InstallMember, GameAt, GameFrame, TypeOK, FrameTypeOK, poolVars, sessVars, seatVars,
   queueVars,
   mgrVars

(* A join entry without its session gives back its seat and its gameRef.        *)
LEMMA SkipJoinEffect ==
    ASSUME TypeOK, NEW w \in Game, NEW j \in game[w].joins, SkipJoin(w, j)
    PROVE  /\ game[w].pc = "queues" /\ ~StillThere(j)
           /\ seatUsed' = [seatUsed EXCEPT ![game[w].cur] = @ \ {j.seat}]
           /\ reservedSeats' = [reservedSeats EXCEPT ![game[w].cur] = @ - 1]
           /\ Release(j.sess)
           /\ GameAt(w, "queues", game[w].cur, game[w].nr, game[w].joins \ {j}, game[w].leaves)
           /\ UNCHANGED <<dead, mySessions, inRoom, roomIdx, actorId, rdead,
                      everReserved, pendingJoin, pendingLeave, members, memberCount,
                      gameWorker, freeRooms, openRooms, roomsPerWorker, addQ, net,
                      myRooms, todo>>
BY DEF SkipJoin, GiveSeatBack, Release, GameAt, GameFrame, TypeOK, FrameTypeOK, sessVars,
   queueVars,
   memberVars, mgrVars

(* A leave entry removes the one member it matches, with its seat and           *)
(* gameRef, or nothing.                                                         *)
LEMMA ProcessLeaveEffect ==
    ASSUME TypeOK, NEW w \in Game, NEW l \in game[w].leaves, ProcessLeave(w, l)
    PROVE  /\ game[w].pc = "queues" /\ game[w].joins = {}
           /\ GameAt(w, "queues", game[w].cur, game[w].nr, {}, game[w].leaves \ {l})
           /\ \/ \E m \in members[game[w].cur] :
                    /\ Matches(m, l)
                    /\ members' = [members EXCEPT ![game[w].cur] = @ \ {m}]
                    /\ memberCount' = [memberCount EXCEPT ![game[w].cur] = @ - 1]
                    /\ seatUsed' = [seatUsed EXCEPT ![game[w].cur] = @ \ {m.seat}]
                    /\ reservedSeats' = [reservedSeats EXCEPT ![game[w].cur] = @ - 1]
                    /\ Release(m.sess)
              \/ /\ \A m \in members[game[w].cur] : ~Matches(m, l)
                 /\ UNCHANGED <<free, gen, refs, members, memberCount, seatUsed, reservedSeats>>
           /\ UNCHANGED <<dead, mySessions, inRoom, roomIdx, actorId, rdead,
                      everReserved, pendingJoin, pendingLeave, gameWorker, freeRooms,
                      openRooms, roomsPerWorker, addQ, net, myRooms, todo>>
<1>1. /\ game[w].pc = "queues" /\ game[w].joins = {}
      /\ UNCHANGED <<dead, mySessions, inRoom, roomIdx, actorId, rdead, everReserved,
                     pendingJoin, pendingLeave, gameWorker, freeRooms, openRooms,
                     roomsPerWorker, addQ, net, myRooms, todo>>
  BY DEF ProcessLeave, Release, poolVars, sessVars, queueVars, mgrVars
<1>2. GameAt(w, "queues", game[w].cur, game[w].nr, {}, game[w].leaves \ {l})
  BY <1>1 DEF ProcessLeave, GameAt, GameFrame, TypeOK, FrameTypeOK
<1>3. \/ \E m \in members[game[w].cur] :
             /\ Matches(m, l)
             /\ members' = [members EXCEPT ![game[w].cur] = @ \ {m}]
             /\ memberCount' = [memberCount EXCEPT ![game[w].cur] = @ - 1]
             /\ GiveSeatBack(game[w].cur, m.seat)
             /\ Release(m.sess)
      \/ /\ \A m \in members[game[w].cur] : ~Matches(m, l)
         /\ UNCHANGED <<free, gen, refs, members, memberCount, seatUsed, reservedSeats>>
  BY DEF ProcessLeave, poolVars, memberVars
<1> QED BY <1>1, <1>2, <1>3 DEF GiveSeatBack

(* ProcessRoomQueues ends: the room is marked dead when it is empty,            *)
(* otherwise it is ticked.                                                      *)
LEMMA DeathCheckEffect ==
    ASSUME TypeOK, NEW w \in Game, DeathCheck(w)
    PROVE  /\ game[w].pc = "queues" /\ game[w].joins = {} /\ game[w].leaves = {}
           /\ \/ /\ RoomEmptied(game[w].cur)
                 /\ rdead' = [rdead EXCEPT ![game[w].cur] = TRUE]
                 /\ GameAt(w, "dying", game[w].cur, game[w].nr, {}, {})
              \/ rdead' = rdead /\ GameAt(w, "tick", game[w].cur, game[w].nr, {}, {})
           /\ UNCHANGED <<free, gen, refs, dead, mySessions, inRoom, roomIdx, actorId,
                      everReserved, seatUsed, reservedSeats, pendingJoin,
                      pendingLeave, members, memberCount, gameWorker, freeRooms,
                      openRooms, roomsPerWorker, addQ, net, myRooms, todo>>
<1>1. /\ game[w].pc = "queues" /\ game[w].joins = {} /\ game[w].leaves = {}
      /\ UNCHANGED <<free, gen, refs, dead, mySessions, inRoom, roomIdx, actorId,
                     everReserved, seatUsed, reservedSeats, pendingJoin, pendingLeave,
                     members, memberCount, gameWorker, freeRooms, openRooms,
                     roomsPerWorker, addQ, net, myRooms, todo>>
  BY DEF DeathCheck, poolVars, sessVars, queueVars, memberVars, mgrVars
<1>2. CASE RoomEmptied(game[w].cur)
  <2>1. /\ rdead' = [rdead EXCEPT ![game[w].cur] = TRUE]
        /\ game' = [game EXCEPT ![w].pc = "dying"]
    BY <1>2 DEF DeathCheck
  <2>2. GameAt(w, "dying", game[w].cur, game[w].nr, {}, {})
    BY <1>1, <2>1 DEF GameAt, GameFrame, TypeOK, FrameTypeOK
  <2> QED BY <1>1, <1>2, <2>1, <2>2
<1>3. CASE ~RoomEmptied(game[w].cur)
  <2>1. rdead' = rdead /\ game' = [game EXCEPT ![w].pc = "tick"]
    BY <1>3 DEF DeathCheck
  <2>2. GameAt(w, "tick", game[w].cur, game[w].nr, {}, {})
    BY <1>1, <2>1 DEF GameAt, GameFrame, TypeOK, FrameTypeOK
  <2> QED BY <1>1, <2>1, <2>2
<1> QED BY <1>2, <1>3

(* FreeRoomIfDrained: the slot goes back to the pool and off every list.        *)
LEMMA ReapRoomEffect ==
    ASSUME TypeOK, NEW w \in Game, ReapRoom(w)
    PROVE  /\ game[w].pc = "dying" /\ ~MgrLockHeld
           /\ roomsPerWorker' = [roomsPerWorker EXCEPT ![gameWorker[game[w].cur]] = @ - 1]
           /\ freeRooms' = freeRooms \cup {game[w].cur}
           /\ openRooms' = DropOpen(openRooms, game[w].cur)
           /\ myRooms' = [myRooms EXCEPT ![w] = @ \ {game[w].cur}]
           /\ todo' = [todo EXCEPT ![w] = @ \ {game[w].cur}]
           /\ GameAt(w, "rooms", 0, 0, {}, {})
           /\ UNCHANGED <<free, gen, refs, dead, mySessions, inRoom, roomIdx, actorId,
                      rdead, everReserved, seatUsed, reservedSeats, pendingJoin,
                      pendingLeave, members, memberCount, gameWorker, addQ, net>>
BY DEF ReapRoom, RetireRoom, GameAt, BetweenRooms, TypeOK, FrameTypeOK, poolVars, sessVars,
   seatVars,
   queueVars, memberVars

(* RoomTick without a move: the worker is between rooms again.                  *)
LEMMA RoomTickEffect ==
    ASSUME TypeOK, NEW w \in Game, RoomTick(w)
    PROVE  /\ game[w].pc = "tick"
           /\ todo' = [todo EXCEPT ![w] = @ \ {game[w].cur}]
           /\ GameAt(w, "rooms", 0, 0, {}, {})
           /\ UNCHANGED <<free, gen, refs, dead, mySessions, inRoom, roomIdx, actorId,
                      rdead, everReserved, seatUsed, reservedSeats, pendingJoin,
                      pendingLeave, members, memberCount, gameWorker, freeRooms,
                      openRooms, roomsPerWorker, addQ, net, myRooms>>
BY DEF RoomTick, GameAt, BetweenRooms, TypeOK, FrameTypeOK, poolVars, sessVars, roomVars,
   seatVars,
   queueVars, memberVars, mgrVars

(* TransferRoom begins: a free slot becomes the new room, the old room is       *)
(* dead and its queues are the worker's batch.                                  *)
LEMMA TransferBeginEffect ==
    ASSUME TypeOK, NEW w \in Game, TransferBegin(w)
    PROVE  /\ game[w].pc = "tick" /\ memberCount[game[w].cur] # 0 /\ ~MgrLockHeld
           /\ \E r \in Rooms :
                 /\ AllocRoomSlotLocked(r, gameWorker[game[w].cur], {game[w].cur})
                 /\ GameAt(w, "move", game[w].cur, r, pendingJoin[game[w].cur],
                           pendingLeave[game[w].cur])
           /\ UNCHANGED <<free, gen, refs, dead, mySessions, inRoom, roomIdx, actorId,
                      openRooms, addQ, net, myRooms, todo>>
<1>1. /\ game[w].pc = "tick" /\ memberCount[game[w].cur] # 0 /\ ~MgrLockHeld
      /\ UNCHANGED <<free, gen, refs, dead, mySessions, inRoom, roomIdx, actorId,
                     openRooms, addQ, net, myRooms, todo>>
  BY DEF TransferBegin, poolVars, sessVars
<1>2. PICK r \in Rooms :
        /\ AllocRoomSlotLocked(r, gameWorker[game[w].cur], {game[w].cur})
        /\ game' = [game EXCEPT ![w].pc = "move", ![w].nr = r,
                                ![w].joins = pendingJoin[game[w].cur],
                                ![w].leaves = pendingLeave[game[w].cur]]
  BY DEF TransferBegin
<1>3. GameAt(w, "move", game[w].cur, r, pendingJoin[game[w].cur], pendingLeave[game[w].cur])
  BY <1>2 DEF GameAt, GameFrame, TypeOK, FrameTypeOK
<1> QED BY <1>1, <1>2, <1>3

(* TransferRoom moves its member of the lowest seat, who is told the new        *)
(* room.                                                                        *)
LEMMA TransferMemberEffect ==
    ASSUME TypeOK, NEW w \in Game, NEW m \in members[game[w].cur], TransferMember(w, m)
    PROVE  /\ game[w].pc = "move" /\ \A o \in members[game[w].cur] : m.seat <= o.seat
           /\ members' = [members EXCEPT ![game[w].cur] = @ \ {m},
                                 ![game[w].nr] = {o \in @ : o.seat # m.seat} \cup {m}]
           /\ roomIdx' = Redirected({m}, game[w].nr)
           /\ UNCHANGED <<free, gen, refs, dead, mySessions, inRoom, actorId, rdead,
                      everReserved, seatUsed, reservedSeats, pendingJoin,
                      pendingLeave, memberCount, gameWorker, freeRooms, openRooms,
                      roomsPerWorker, addQ, net, myRooms, todo, game>>
BY DEF TransferMember, poolVars, seatVars, queueVars, mgrVars, gameVars

(* TransferRoom ends: the new room's ledger is the party's, the queues          *)
(* follow, the old slot is free.                                                *)
LEMMA TransferEndEffect ==
    ASSUME TypeOK, NEW w \in Game, TransferEnd(w)
    PROVE  /\ game[w].pc = "move" /\ members[game[w].cur] = {}
           /\ everReserved' = [everReserved EXCEPT ![game[w].nr] = TRUE]
           /\ seatUsed' = [seatUsed EXCEPT ![game[w].nr] = @ \cup PartySeats(w)]
           /\ reservedSeats' = [reservedSeats EXCEPT ![game[w].nr] = @ + Cardinality(PartySeats(w))]
           /\ pendingJoin' = [pendingJoin EXCEPT ![game[w].nr] = @ \cup game[w].joins]
           /\ pendingLeave' = [pendingLeave EXCEPT ![game[w].nr] = @ \cup game[w].leaves]
           /\ roomIdx' = Redirected(game[w].joins, game[w].nr)
           /\ memberCount' = [memberCount EXCEPT ![game[w].cur] = 0,
                         ![game[w].nr] = Cardinality(SeatsOf(members[game[w].nr]))]
           /\ openRooms' = IF reservedSeats[game[w].nr] + Cardinality(PartySeats(w)) < kRoomMembers
                             THEN Append(DropOpen(openRooms, game[w].cur), game[w].nr)
                             ELSE DropOpen(openRooms, game[w].cur)
           /\ roomsPerWorker' = [roomsPerWorker EXCEPT ![gameWorker[game[w].cur]] = @ - 1]
           /\ freeRooms' = freeRooms \cup {game[w].cur}
           /\ myRooms' = [myRooms EXCEPT ![w] = (@ \ {game[w].cur}) \cup {game[w].nr}]
           /\ todo' = [todo EXCEPT ![w] = @ \ {game[w].cur}]
           /\ GameAt(w, "rooms", 0, 0, {}, {})
           /\ UNCHANGED <<free, gen, refs, dead, mySessions, inRoom, actorId, rdead,
                      members, gameWorker, addQ, net>>
BY DEF TransferEnd, PartySeats, RetireRoom, GameAt, BetweenRooms, TypeOK, FrameTypeOK, poolVars

--------------------------------------------------------------------------------
(* First layer, its proof.                                                      *)

(* Nobody holds anything at the start.                                          *)
LEMMA LockInit == Init => LockInv
<1>1. /\ NetIdle.pc = "idle" /\ BetweenRooms.pc = "rooms" /\ BetweenRooms.joins = {}
      /\ BetweenRooms.leaves = {}
  BY DEF NetIdle, BetweenRooms
<1> QED BY <1>1 DEF Init, LockInv, LockExclusive, NetHasSession, BatchInUse, Locked

(* Every step leaves the lock with one holder, a worker with its session, and   *)
(* no batch behind.                                                             *)
LEMMA LockStep == TypeOK /\ LockInv /\ [AcceptsAfter]_vars /\ [Next]_vars => LockInv'
<1> SUFFICES ASSUME TypeOK, LockInv, [AcceptsAfter]_vars, [Next]_vars PROVE LockInv' OBVIOUS
<1>0. FrameTypeOK /\ SessTypeOK BY DEF TypeOK
<1> USE <1>0 DEF LockInv, FrameTypeOK, SessTypeOK
<1>1. ASSUME NEW e \in Net, NEW s \in Sess, Accept(e, s) PROVE LockInv'
  <2>0. \A f \in Net : net[f].pc = "idle" \/ net[f].sess # s
    <3>1. conns' # conns BY <1>1 DEF Accept
    <3> QED BY <1>1, <3>1 DEF AcceptsAfter, vars
  <2>1. LockExclusive'
    BY <1>1, AcceptEffect DEF LockExclusive, Locked
  <2>2. NetHasSession'
    <3>1. /\ net' = net
          /\ \A f \in Net : mySessions[f] \subseteq mySessions'[f]
          /\ \A x \in Sess : x # s => dead'[x] = dead[x]
      BY <1>1, AcceptEffect DEF TypeOK, PoolTypeOK
    <3> QED BY <2>0, <3>1, NetTyped DEF NetHasSession
  <2>3. BatchInUse'
    BY <1>1, AcceptEffect DEF BatchInUse
  <2> QED BY <2>1, <2>2, <2>3
<1>2. ASSUME NEW e \in Net, NEW s \in Sess, AcceptAborted(e, s) PROVE LockInv'
  <2>1. LockExclusive'
    BY <1>2, AcceptAbortedEffect DEF LockExclusive, Locked
  <2>2. NetHasSession'
    <3>1. net' = net /\ mySessions' = mySessions /\ \A x \in Sess : dead[x] => dead'[x]
      BY <1>2, AcceptAbortedEffect DEF TypeOK, PoolTypeOK
    <3> QED BY <3>1, NetTyped DEF NetHasSession
  <2>3. BatchInUse'
    BY <1>2, AcceptAbortedEffect DEF BatchInUse
  <2> QED BY <2>1, <2>2, <2>3
<1>3. ASSUME NEW e \in Net, NEW s \in Sess, JoinReserve(e, s) PROVE LockInv'
  <2>1. LockExclusive'
    <3>1. /\ \A f \in Net : ~Locked(net[f].pc)
          /\ \A v \in Game : game[v].pc # "move"
      BY <1>3, JoinReserveEffect DEF MgrLockHeld, Locked
    <3>2. game' = game /\ \A f \in Net \ {e} : net'[f] = net[f]
      BY <1>3, JoinReserveEffect DEF NetAt
    <3> QED BY <3>1, <3>2 DEF LockExclusive, Locked
  <2>2. NetHasSession'
    BY <1>3, JoinReserveEffect DEF NetHasSession, JoinCalled, MgrLockHeld, NetAt
  <2>3. BatchInUse'
    BY <1>3, JoinReserveEffect DEF BatchInUse, JoinCalled, MgrLockHeld, NetAt
  <2> QED BY <2>1, <2>2, <2>3
<1>4. ASSUME NEW e \in Net, NEW s \in Sess, JoinAlloc(e, s) PROVE LockInv'
  <2>1. LockExclusive'
    BY <1>4, JoinAllocEffect DEF LockExclusive, Locked, JoinCalled, MgrLockHeld, NetAt,
       AllocRoomSlotLocked
  <2>2. NetHasSession'
    BY <1>4, JoinAllocEffect DEF NetHasSession, JoinCalled, MgrLockHeld, NetAt,
       AllocRoomSlotLocked
  <2>3. BatchInUse'
    BY <1>4, JoinAllocEffect DEF BatchInUse, JoinCalled, MgrLockHeld, NetAt, AllocRoomSlotLocked
  <2> QED BY <2>1, <2>2, <2>3
<1>5. ASSUME NEW e \in Net, NEW s \in Sess, JoinFail(e, s) PROVE LockInv'
  <2>1. LockExclusive'
    BY <1>5, JoinFailEffect DEF LockExclusive, Locked
  <2>2. NetHasSession'
    BY <1>5, JoinFailEffect DEF NetHasSession
  <2>3. BatchInUse'
    BY <1>5, JoinFailEffect DEF BatchInUse
  <2> QED BY <2>1, <2>2, <2>3
<1>6. ASSUME NEW e \in Net, NEW s \in Sess, Disconnect(e, s) PROVE LockInv'
  <2>1. LockExclusive'
    BY <1>6, DisconnectEffect DEF LockExclusive, Locked, NetAt
  <2>2. NetHasSession'
    <3>1. /\ mySessions' = mySessions /\ s \in mySessions[e] /\ NetAt(e, "leave", s, 0, 0)
          /\ dead'[s] /\ \A x \in Sess : dead[x] => dead'[x]
      BY <1>6, DisconnectEffect DEF TypeOK, PoolTypeOK
    <3> QED BY <3>1, NetTyped DEF NetHasSession, NetAt
  <2>3. BatchInUse'
    BY <1>6, DisconnectEffect DEF BatchInUse, NetAt
  <2> QED BY <2>1, <2>2, <2>3
<1>7. ASSUME NEW e \in Net, JoinReserveFirst(e) PROVE LockInv'
  <2>1. LockExclusive'
    <3>1. Locked(net[e].pc) /\ game' = game /\ \A f \in Net \ {e} : net'[f] = net[f]
      BY <1>7, JoinReserveFirstEffect DEF NetAt, Locked
    <3> QED BY <3>1 DEF LockExclusive
  <2>2. NetHasSession'
    BY <1>7, JoinReserveFirstEffect DEF NetHasSession, NetAt
  <2>3. BatchInUse'
    BY <1>7, JoinReserveFirstEffect DEF BatchInUse, NetAt
  <2> QED BY <2>1, <2>2, <2>3
<1>8. ASSUME NEW e \in Net, JoinEnter(e) PROVE LockInv'
  <2>1. LockExclusive'
    BY <1>8, JoinEnterEffect DEF LockExclusive, Locked, NetAt
  <2>2. NetHasSession'
    BY <1>8, JoinEnterEffect DEF NetHasSession, NetAt
  <2>3. BatchInUse'
    BY <1>8, JoinEnterEffect DEF BatchInUse, NetAt
  <2> QED BY <2>1, <2>2, <2>3
<1>9. ASSUME NEW e \in Net, OnSessionLeave(e) PROVE LockInv'
  <2>1. LockExclusive'
    BY <1>9, OnSessionLeaveEffect DEF LockExclusive, Locked, NetAt
  <2>2. NetHasSession'
    BY <1>9, OnSessionLeaveEffect DEF NetHasSession, NetAt
  <2>3. BatchInUse'
    BY <1>9, OnSessionLeaveEffect DEF BatchInUse, NetAt
  <2> QED BY <2>1, <2>2, <2>3
<1>10. ASSUME NEW e \in Net, PushLeave(e) PROVE LockInv'
  <2>1. LockExclusive'
    BY <1>10, PushLeaveEffect DEF LockExclusive, Locked, NetAt
  <2>2. NetHasSession'
    BY <1>10, PushLeaveEffect DEF NetHasSession, NetAt
  <2>3. BatchInUse'
    BY <1>10, PushLeaveEffect DEF BatchInUse, NetAt
  <2> QED BY <2>1, <2>2, <2>3
<1>11. ASSUME NEW e \in Net, ReleaseNetRef(e) PROVE LockInv'
  <2>1. LockExclusive'
    BY <1>11, ReleaseNetRefEffect DEF LockExclusive, Locked, NetAt
  <2>2. NetHasSession'
    BY <1>11, ReleaseNetRefEffect DEF NetHasSession, NetAt
  <2>3. BatchInUse'
    BY <1>11, ReleaseNetRefEffect DEF BatchInUse, NetAt
  <2> QED BY <2>1, <2>2, <2>3
<1>12. ASSUME NEW w \in Game, DrainRoomAddQ(w) PROVE LockInv'
  <2>1. LockExclusive'
    BY <1>12, DrainRoomAddQEffect DEF LockExclusive, Locked
  <2>2. NetHasSession'
    BY <1>12, DrainRoomAddQEffect DEF NetHasSession
  <2>3. BatchInUse'
    BY <1>12, DrainRoomAddQEffect DEF BatchInUse
  <2> QED BY <2>1, <2>2, <2>3
<1>13. ASSUME NEW w \in Game, NEW r \in todo[w], SwapQueues(w, r) PROVE LockInv'
  <2>1. LockExclusive'
    BY <1>13, SwapQueuesEffect DEF LockExclusive, Locked, GameAt
  <2>2. NetHasSession'
    BY <1>13, SwapQueuesEffect DEF NetHasSession, GameAt
  <2>3. BatchInUse'
    BY <1>13, SwapQueuesEffect DEF BatchInUse, GameAt
  <2> QED BY <2>1, <2>2, <2>3
<1>14. ASSUME NEW w \in Game, NEW j \in game[w].joins, InstallMember(w, j) PROVE LockInv'
  <2>1. LockExclusive'
    BY <1>14, InstallMemberEffect DEF LockExclusive, Locked, GameAt
  <2>2. NetHasSession'
    BY <1>14, InstallMemberEffect DEF NetHasSession, GameAt
  <2>3. BatchInUse'
    BY <1>14, InstallMemberEffect DEF BatchInUse, GameAt
  <2> QED BY <2>1, <2>2, <2>3
<1>15. ASSUME NEW w \in Game, NEW j \in game[w].joins, SkipJoin(w, j) PROVE LockInv'
  <2>1. LockExclusive'
    BY <1>15, SkipJoinEffect DEF LockExclusive, Locked, GameAt
  <2>2. NetHasSession'
    BY <1>15, SkipJoinEffect DEF NetHasSession, GameAt
  <2>3. BatchInUse'
    BY <1>15, SkipJoinEffect DEF BatchInUse, GameAt
  <2> QED BY <2>1, <2>2, <2>3
<1>16. ASSUME NEW w \in Game, NEW l \in game[w].leaves, ProcessLeave(w, l) PROVE LockInv'
  <2>1. LockExclusive'
    BY <1>16, ProcessLeaveEffect DEF LockExclusive, Locked, GameAt
  <2>2. NetHasSession'
    BY <1>16, ProcessLeaveEffect DEF NetHasSession, GameAt
  <2>3. BatchInUse'
    BY <1>16, ProcessLeaveEffect DEF BatchInUse, GameAt
  <2> QED BY <2>1, <2>2, <2>3
<1>17. ASSUME NEW w \in Game, DeathCheck(w) PROVE LockInv'
  <2>1. LockExclusive'
    BY <1>17, DeathCheckEffect DEF LockExclusive, Locked, GameAt
  <2>2. NetHasSession'
    BY <1>17, DeathCheckEffect DEF NetHasSession, GameAt
  <2>3. BatchInUse'
    BY <1>17, DeathCheckEffect DEF BatchInUse, GameAt
  <2> QED BY <2>1, <2>2, <2>3
<1>18. ASSUME NEW w \in Game, ReapRoom(w) PROVE LockInv'
  <2>1. LockExclusive'
    BY <1>18, ReapRoomEffect DEF LockExclusive, Locked, GameAt, MgrLockHeld
  <2>2. NetHasSession'
    BY <1>18, ReapRoomEffect DEF NetHasSession, GameAt, MgrLockHeld
  <2>3. BatchInUse'
    BY <1>18, ReapRoomEffect DEF BatchInUse, GameAt, MgrLockHeld
  <2> QED BY <2>1, <2>2, <2>3
<1>19. ASSUME NEW w \in Game, RoomTick(w) PROVE LockInv'
  <2>1. LockExclusive'
    BY <1>19, RoomTickEffect DEF LockExclusive, Locked, GameAt
  <2>2. NetHasSession'
    BY <1>19, RoomTickEffect DEF NetHasSession, GameAt
  <2>3. BatchInUse'
    BY <1>19, RoomTickEffect DEF BatchInUse, GameAt
  <2> QED BY <2>1, <2>2, <2>3
<1>20. ASSUME NEW w \in Game, TransferBegin(w) PROVE LockInv'
  <2>1. LockExclusive'
    BY <1>20, TransferBeginEffect DEF LockExclusive, Locked, GameAt, AllocRoomSlotLocked,
       MgrLockHeld
  <2>2. NetHasSession'
    BY <1>20, TransferBeginEffect DEF NetHasSession, GameAt, AllocRoomSlotLocked, MgrLockHeld
  <2>3. BatchInUse'
    BY <1>20, TransferBeginEffect DEF BatchInUse, GameAt, AllocRoomSlotLocked, MgrLockHeld
  <2> QED BY <2>1, <2>2, <2>3
<1>21. ASSUME NEW w \in Game, NEW m \in members[game[w].cur], TransferMember(w, m) PROVE LockInv'
  <2>1. LockExclusive'
    BY <1>21, TransferMemberEffect DEF LockExclusive, Locked, GameAt
  <2>2. NetHasSession'
    BY <1>21, TransferMemberEffect DEF NetHasSession, GameAt
  <2>3. BatchInUse'
    BY <1>21, TransferMemberEffect DEF BatchInUse, GameAt
  <2> QED BY <2>1, <2>2, <2>3
<1>22. ASSUME NEW w \in Game, TransferEnd(w) PROVE LockInv'
  <2>1. LockExclusive'
    BY <1>22, TransferEndEffect DEF LockExclusive, Locked, GameAt
  <2>2. NetHasSession'
    BY <1>22, TransferEndEffect DEF NetHasSession, GameAt
  <2>3. BatchInUse'
    BY <1>22, TransferEndEffect DEF BatchInUse, GameAt
  <2> QED BY <2>1, <2>2, <2>3
<1>23. CASE UNCHANGED vars
  BY <1>23 DEF vars, poolVars, sessVars, roomVars, seatVars, queueVars, memberVars, mgrVars,
     gameVars, LockExclusive, Locked, NetHasSession, BatchInUse
<1>24. ASSUME NEW e \in Net, ServeStep(e) PROVE LockInv'
  BY <1>24, ServeEffect DEF LockExclusive, Locked, NetHasSession, BatchInUse
<1> QED
  BY <1>1, <1>2, <1>3, <1>4, <1>5, <1>6, <1>7, <1>8, <1>9, <1>10, <1>11, <1>12,
     <1>13, <1>14, <1>15, <1>16, <1>17, <1>18, <1>19, <1>20, <1>21, <1>22, <1>23, <1>24
     DEF Next, NetStep, ServeStep, GameStep

(* The sections of RoomManager::_lock exclude each other although Join and      *)
(* TransferRoom hold it over several steps, and, as long as slots are handed    *)
(* out as AcceptsAfter says, a worker joins and cuts sessions of its own only   *)
(* (RoomManager.cpp: Join, TransferRoom, FreeRoomIfDrained; EpollWorker.cpp:270,*)
(* 439).                                                                        *)
THEOREM LockHolder == PatientSpec => []LockInv
<1>1. TypeOK /\ LockInv /\ [AcceptsAfter]_vars /\ [Next]_vars => LockInv' BY LockStep
<1> QED BY LockInit, <1>1, TypeCorrect, PTL DEF Spec, PatientSpec

--------------------------------------------------------------------------------
(* Second layer: the hands a room slot is in.                                   *)

(* Room r is with game worker w: in its mailbox, on its list, or the new room   *)
(* of its transfer.                                                             *)
InHand(w, r) ==
    \/ r \in addQ[w] \/ r \in myRooms[w]
    \/ game[w].pc = "move" /\ r = game[w].nr

(* A slot that is not in the pool is with the worker it names, and with no      *)
(* other.                                                                       *)
OneHand == \A w \in Game, r \in Rooms : InHand(w, r) <=> r \notin freeRooms /\ gameWorker[r] = w

(* A worker has a room in one of these three ways only, works on a room of      *)
(* its list, and has on its round no room that is not on its list.              *)
HandsApart ==
    \A w \in Game :
        /\ addQ[w] \cap myRooms[w] = {}
        /\ todo[w] \subseteq myRooms[w]
        /\ game[w].pc # "rooms" => game[w].cur \in todo[w]
        /\ game[w].pc = "move" => game[w].nr \notin addQ[w] \cup myRooms[w]

(* The open list names no room twice, no room of the pool, and not the new      *)
(* room of a transfer.                                                          *)
OpenListed ==
    /\ ListedOnce(openRooms)
    /\ \A r \in Rooms : Listed(openRooms, r) => r \notin freeRooms
    /\ \A e \in Net : net[e].pc = "reserve0" => ~Listed(openRooms, net[e].room)
    /\ \A w \in Game : game[w].pc = "move" => ~Listed(openRooms, game[w].nr)

(* The room a Join is entering is not in the pool.                              *)
RoomGiven == \A e \in Net : Locked(net[e].pc) => net[e].room \notin freeRooms

(* Second layer of the inductive invariant.                                     *)
HandInv == OneHand /\ HandsApart /\ OpenListed /\ RoomGiven

(* At the start every slot is in the pool.                                      *)
LEMMA HandInit == Init => HandInv
<1>1. NetIdle.pc = "idle" /\ BetweenRooms.pc = "rooms" BY DEF NetIdle, BetweenRooms
<1> QED BY <1>1 DEF Init, HandInv, OneHand, InHand, HandsApart, OpenListed, Listed,
           ListedOnce, RoomGiven, Locked

(* Every step keeps a room in one worker's hands, and the pool off the lists.   *)
LEMMA HandStep ==
    TypeOK /\ TypeOK' /\ LockInv /\ LockInv' /\ HandInv /\ [Next]_vars => HandInv'
<1> SUFFICES ASSUME TypeOK, TypeOK', LockInv, LockInv', HandInv, [Next]_vars
             PROVE  HandInv'
  OBVIOUS
<1>0. FrameTypeOK /\ MgrTypeOK /\ SessTypeOK BY DEF TypeOK
<1> USE <1>0 DEF HandInv
<1>1. ASSUME NEW e \in Net, NEW s \in Sess, Accept(e, s) PROVE HandInv'
  <2>1. OneHand'
    BY <1>1, AcceptEffect DEF OneHand, InHand
  <2>2. HandsApart'
    BY <1>1, AcceptEffect DEF HandsApart
  <2>3. OpenListed'
    BY <1>1, AcceptEffect DEF OpenListed
  <2>4. RoomGiven'
    BY <1>1, AcceptEffect DEF RoomGiven, Locked
  <2> QED BY <2>1, <2>2, <2>3, <2>4
<1>2. ASSUME NEW e \in Net, NEW s \in Sess, AcceptAborted(e, s) PROVE HandInv'
  <2>1. OneHand'
    BY <1>2, AcceptAbortedEffect DEF OneHand, InHand
  <2>2. HandsApart'
    BY <1>2, AcceptAbortedEffect DEF HandsApart
  <2>3. OpenListed'
    BY <1>2, AcceptAbortedEffect DEF OpenListed
  <2>4. RoomGiven'
    BY <1>2, AcceptAbortedEffect DEF RoomGiven, Locked
  <2> QED BY <2>1, <2>2, <2>3, <2>4
<1>3. ASSUME NEW e \in Net, NEW s \in Sess, JoinReserve(e, s) PROVE HandInv'
  <2>1. PICK r \in Rooms, i \in Seats, k \in 1 .. Len(openRooms) :
           /\ openRooms[k] = r
           /\ openRooms' = SubSeq(openRooms, 1,
                              IF reservedSeats[r] + 1 = kRoomMembers THEN k - 1 ELSE k)
           /\ NetAt(e, "enter", s, r, i)
    BY <1>3, JoinReserveEffect
  <2>2. /\ \A f \in Net : ~Locked(net[f].pc)
        /\ UNCHANGED <<freeRooms, gameWorker, addQ, myRooms, todo, game>>
    BY <1>3, JoinReserveEffect DEF MgrLockHeld, Locked
  <2>3. OneHand' /\ HandsApart'
    BY <2>2 DEF OneHand, InHand, HandsApart
  <2>4. OpenListed'
    <3>1. PICK n \in 0 .. Len(openRooms) : openRooms' = SubSeq(openRooms, 1, n)
      BY <2>1
    <3>2. ListedOnce(openRooms') /\ \A x \in Rooms : Listed(openRooms', x)
              => Listed(openRooms, x)
      BY <3>1, PrefixListed DEF OpenListed, MgrTypeOK
    <3>3. \A f \in Net : net'[f].pc # "reserve0"
      BY <2>1, <2>2 DEF NetAt, Locked
    <3> QED BY <2>2, <3>2, <3>3, GameTyped DEF OpenListed
  <2>5. RoomGiven'
    <3>1. r \notin freeRooms
      BY <2>1 DEF OpenListed, Listed
    <3> QED BY <2>1, <2>2, <3>1 DEF RoomGiven, Locked, NetAt
  <2> QED BY <2>3, <2>4, <2>5
<1>4. ASSUME NEW e \in Net, NEW s \in Sess, JoinAlloc(e, s) PROVE HandInv'
  <2>1. PICK r \in Rooms, w \in Game :
           /\ AllocRoomSlotLocked(r, w, {})
           /\ addQ' = [addQ EXCEPT ![w] = @ \cup {r}]
           /\ NetAt(e, "reserve0", s, r, 0)
    BY <1>4, JoinAllocEffect
  <2>2. /\ \A f \in Net : ~Locked(net[f].pc)
        /\ \A v \in Game : game[v].pc # "move"
        /\ openRooms' = <<>> /\ UNCHANGED <<myRooms, todo, game>>
    BY <1>4, JoinAllocEffect DEF MgrLockHeld, Locked
  <2>3. /\ r \in freeRooms /\ freeRooms' = freeRooms \ {r}
        /\ gameWorker' = [gameWorker EXCEPT ![r] = w]
    BY <2>1 DEF AllocRoomSlotLocked
  <2>4. \A v \in Game : r \notin addQ[v] /\ r \notin myRooms[v]
    BY <2>3 DEF OneHand, InHand
  <2>5. OneHand'
    <3> SUFFICES ASSUME NEW v \in Game, NEW x \in Rooms
                 PROVE (x \in addQ'[v] \/ x \in myRooms[v])
                         <=> x \notin freeRooms' /\ gameWorker'[x] = v
      BY <2>2 DEF OneHand, InHand
    <3>1. (x \in addQ[v] \/ x \in myRooms[v]) <=> x \notin freeRooms /\ gameWorker[x] = v
      BY <2>2 DEF OneHand, InHand
    <3>2. x \in addQ'[v] <=> x \in addQ[v] \/ (v = w /\ x = r)
      BY <2>1 DEF MgrTypeOK
    <3> QED BY <2>3, <2>4, <3>1, <3>2 DEF MgrTypeOK
  <2>6. HandsApart'
    <3>1. \A v \in Game : addQ'[v] \subseteq addQ[v] \cup {r}
      BY <2>1 DEF MgrTypeOK
    <3> QED BY <2>2, <2>4, <3>1 DEF HandsApart
  <2>7. OpenListed'
    BY <2>2 DEF OpenListed, Listed, ListedOnce
  <2>8. RoomGiven'
    BY <2>1, <2>2, <2>3 DEF RoomGiven, Locked, NetAt
  <2> QED BY <2>5, <2>6, <2>7, <2>8
<1>5. ASSUME NEW e \in Net, NEW s \in Sess, JoinFail(e, s) PROVE HandInv'
  <2>1. OneHand'
    BY <1>5, JoinFailEffect DEF OneHand, InHand
  <2>2. HandsApart'
    BY <1>5, JoinFailEffect DEF HandsApart
  <2>3. OpenListed'
    BY <1>5, JoinFailEffect DEF OpenListed, Listed, ListedOnce
  <2>4. RoomGiven'
    BY <1>5, JoinFailEffect DEF RoomGiven, Locked
  <2> QED BY <2>1, <2>2, <2>3, <2>4
<1>6. ASSUME NEW e \in Net, NEW s \in Sess, Disconnect(e, s) PROVE HandInv'
  <2>1. OneHand'
    BY <1>6, DisconnectEffect DEF OneHand, InHand, NetAt
  <2>2. HandsApart'
    BY <1>6, DisconnectEffect DEF HandsApart, NetAt
  <2>3. OpenListed'
    BY <1>6, DisconnectEffect DEF OpenListed, NetAt
  <2>4. RoomGiven'
    BY <1>6, DisconnectEffect DEF RoomGiven, Locked, NetAt
  <2> QED BY <2>1, <2>2, <2>3, <2>4
<1>7. ASSUME NEW e \in Net, JoinReserveFirst(e) PROVE HandInv'
  <2>1. OneHand'
    BY <1>7, JoinReserveFirstEffect DEF OneHand, InHand, NetAt
  <2>2. HandsApart'
    BY <1>7, JoinReserveFirstEffect DEF HandsApart, NetAt
  <2>3. OpenListed'
    <3>1. /\ net[e].pc = "reserve0" /\ openRooms' = Append(openRooms, net[e].room)
          /\ UNCHANGED <<freeRooms, game>> /\ NetAt(e, "enter", net[e].sess, net[e].room, net[e].seat)
      BY <1>7, JoinReserveFirstEffect
    <3> DEFINE r == net[e].room
    <3>2. r \in Rooms /\ ~Listed(openRooms, r) /\ ListedOnce(openRooms) /\ r \notin freeRooms
      BY <3>1, NetTyped DEF OpenListed, RoomGiven, Locked
    <3>3. /\ ListedOnce(openRooms')
          /\ \A x \in Rooms : Listed(openRooms', x) <=> Listed(openRooms, x) \/ x = r
      BY <3>1, <3>2, AppendListed DEF MgrTypeOK
    <3>4. /\ \A f \in Net : net'[f].pc # "reserve0"
          /\ \A w \in Game : game'[w].pc # "move"
      BY <3>1 DEF LockInv, LockExclusive, Locked, NetAt
    <3> QED BY <3>1, <3>2, <3>3, <3>4 DEF OpenListed
  <2>4. RoomGiven'
    BY <1>7, JoinReserveFirstEffect DEF RoomGiven, Locked, NetAt
  <2> QED BY <2>1, <2>2, <2>3, <2>4
<1>8. ASSUME NEW e \in Net, JoinEnter(e) PROVE HandInv'
  <2>1. OneHand'
    BY <1>8, JoinEnterEffect DEF OneHand, InHand, NetAt
  <2>2. HandsApart'
    BY <1>8, JoinEnterEffect DEF HandsApart, NetAt
  <2>3. OpenListed'
    BY <1>8, JoinEnterEffect DEF OpenListed, NetAt
  <2>4. RoomGiven'
    BY <1>8, JoinEnterEffect DEF RoomGiven, Locked, NetAt
  <2> QED BY <2>1, <2>2, <2>3, <2>4
<1>9. ASSUME NEW e \in Net, OnSessionLeave(e) PROVE HandInv'
  <2>1. OneHand'
    BY <1>9, OnSessionLeaveEffect DEF OneHand, InHand, NetAt
  <2>2. HandsApart'
    BY <1>9, OnSessionLeaveEffect DEF HandsApart, NetAt
  <2>3. OpenListed'
    BY <1>9, OnSessionLeaveEffect DEF OpenListed, NetAt
  <2>4. RoomGiven'
    BY <1>9, OnSessionLeaveEffect DEF RoomGiven, Locked, NetAt
  <2> QED BY <2>1, <2>2, <2>3, <2>4
<1>10. ASSUME NEW e \in Net, PushLeave(e) PROVE HandInv'
  <2>1. OneHand'
    BY <1>10, PushLeaveEffect DEF OneHand, InHand, NetAt
  <2>2. HandsApart'
    BY <1>10, PushLeaveEffect DEF HandsApart, NetAt
  <2>3. OpenListed'
    BY <1>10, PushLeaveEffect DEF OpenListed, NetAt
  <2>4. RoomGiven'
    BY <1>10, PushLeaveEffect DEF RoomGiven, Locked, NetAt
  <2> QED BY <2>1, <2>2, <2>3, <2>4
<1>11. ASSUME NEW e \in Net, ReleaseNetRef(e) PROVE HandInv'
  <2>1. OneHand'
    BY <1>11, ReleaseNetRefEffect DEF OneHand, InHand, NetAt
  <2>2. HandsApart'
    BY <1>11, ReleaseNetRefEffect DEF HandsApart, NetAt
  <2>3. OpenListed'
    BY <1>11, ReleaseNetRefEffect DEF OpenListed, NetAt
  <2>4. RoomGiven'
    BY <1>11, ReleaseNetRefEffect DEF RoomGiven, Locked, NetAt
  <2> QED BY <2>1, <2>2, <2>3, <2>4
<1>12. ASSUME NEW w \in Game, DrainRoomAddQ(w) PROVE HandInv'
  <2>1. /\ game[w].pc = "rooms" /\ todo[w] = {}
        /\ myRooms' = [myRooms EXCEPT ![w] = @ \cup addQ[w]]
        /\ todo' = [todo EXCEPT ![w] = myRooms[w] \cup addQ[w]]
        /\ addQ' = [addQ EXCEPT ![w] = {}]
        /\ UNCHANGED <<freeRooms, gameWorker, openRooms, net, game>>
    BY <1>12, DrainRoomAddQEffect
  <2>2. OneHand'
    <3>1. \A v \in Game, r \in Rooms : r \in addQ'[v] \/ r \in myRooms'[v]
                                      <=> r \in addQ[v] \/ r \in myRooms[v]
      BY <2>1 DEF MgrTypeOK, FrameTypeOK
    <3> QED BY <2>1, <3>1 DEF OneHand, InHand
  <2>3. HandsApart'
    <3>1. \A v \in Game : v # w => addQ'[v] = addQ[v] /\ myRooms'[v] = myRooms[v] /\ todo'[v] = todo[v]
      BY <2>1 DEF MgrTypeOK, FrameTypeOK
    <3>2. addQ'[w] = {} /\ todo'[w] = myRooms'[w]
      BY <2>1 DEF MgrTypeOK, FrameTypeOK
    <3> QED BY <2>1, <3>1, <3>2 DEF HandsApart
  <2>4. OpenListed' /\ RoomGiven'
    BY <2>1 DEF OpenListed, RoomGiven
  <2> QED BY <2>2, <2>3, <2>4
<1>13. ASSUME NEW w \in Game, NEW r \in todo[w], SwapQueues(w, r) PROVE HandInv'
  <2>1. OneHand'
    BY <1>13, SwapQueuesEffect DEF OneHand, InHand, GameAt
  <2>2. HandsApart'
    <3>1. GameAt(w, "queues", r, 0, pendingJoin[r], pendingLeave[r]) /\ UNCHANGED <<addQ, myRooms, todo>>
      BY <1>13, SwapQueuesEffect
    <3> QED BY <3>1 DEF HandsApart, GameAt
  <2>3. OpenListed'
    BY <1>13, SwapQueuesEffect DEF OpenListed, GameAt
  <2>4. RoomGiven'
    BY <1>13, SwapQueuesEffect DEF RoomGiven, Locked, GameAt
  <2> QED BY <2>1, <2>2, <2>3, <2>4
<1>14. ASSUME NEW w \in Game, NEW j \in game[w].joins, InstallMember(w, j) PROVE HandInv'
  <2>1. OneHand'
    BY <1>14, InstallMemberEffect DEF OneHand, InHand, GameAt
  <2>2. HandsApart'
    BY <1>14, InstallMemberEffect DEF HandsApart, GameAt
  <2>3. OpenListed'
    BY <1>14, InstallMemberEffect DEF OpenListed, GameAt
  <2>4. RoomGiven'
    BY <1>14, InstallMemberEffect DEF RoomGiven, Locked, GameAt
  <2> QED BY <2>1, <2>2, <2>3, <2>4
<1>15. ASSUME NEW w \in Game, NEW j \in game[w].joins, SkipJoin(w, j) PROVE HandInv'
  <2>1. OneHand'
    <3>1. /\ \A v \in Game : game'[v].pc = game[v].pc /\ game'[v].nr = game[v].nr
          /\ UNCHANGED <<freeRooms, gameWorker, addQ, myRooms>>
      BY <1>15, SkipJoinEffect DEF GameAt
    <3> QED BY <3>1 DEF OneHand, InHand
  <2>2. HandsApart'
    BY <1>15, SkipJoinEffect DEF HandsApart, GameAt
  <2>3. OpenListed'
    BY <1>15, SkipJoinEffect DEF OpenListed, GameAt
  <2>4. RoomGiven'
    BY <1>15, SkipJoinEffect DEF RoomGiven, Locked, GameAt
  <2> QED BY <2>1, <2>2, <2>3, <2>4
<1>16. ASSUME NEW w \in Game, NEW l \in game[w].leaves, ProcessLeave(w, l) PROVE HandInv'
  <2>1. OneHand'
    BY <1>16, ProcessLeaveEffect DEF OneHand, InHand, GameAt
  <2>2. HandsApart'
    BY <1>16, ProcessLeaveEffect DEF HandsApart, GameAt
  <2>3. OpenListed'
    BY <1>16, ProcessLeaveEffect DEF OpenListed, GameAt
  <2>4. RoomGiven'
    BY <1>16, ProcessLeaveEffect DEF RoomGiven, Locked, GameAt
  <2> QED BY <2>1, <2>2, <2>3, <2>4
<1>17. ASSUME NEW w \in Game, DeathCheck(w) PROVE HandInv'
  <2>1. OneHand'
    BY <1>17, DeathCheckEffect DEF OneHand, InHand, GameAt
  <2>2. HandsApart'
    BY <1>17, DeathCheckEffect DEF HandsApart, GameAt
  <2>3. OpenListed'
    BY <1>17, DeathCheckEffect DEF OpenListed, GameAt
  <2>4. RoomGiven'
    BY <1>17, DeathCheckEffect DEF RoomGiven, Locked, GameAt
  <2> QED BY <2>1, <2>2, <2>3, <2>4
<1>18. ASSUME NEW w \in Game, ReapRoom(w) PROVE HandInv'
  <2> DEFINE old == game[w].cur
  <2>1. /\ game[w].pc = "dying" /\ ~MgrLockHeld
        /\ freeRooms' = freeRooms \cup {old}
        /\ openRooms' = DropOpen(openRooms, old)
        /\ myRooms' = [myRooms EXCEPT ![w] = @ \ {old}]
        /\ todo' = [todo EXCEPT ![w] = @ \ {old}]
        /\ GameAt(w, "rooms", 0, 0, {}, {})
        /\ UNCHANGED <<gameWorker, addQ, net>>
    BY <1>18, ReapRoomEffect
  <2>2. old \in Rooms /\ old \in myRooms[w] /\ gameWorker[old] = w /\ old \notin freeRooms
    BY <2>1, GameTyped DEF HandsApart, OneHand, InHand
  <2>3. \A v \in Game : v # w => myRooms'[v] = myRooms[v] /\ todo'[v] = todo[v] /\ game'[v] = game[v]
    BY <2>1 DEF FrameTypeOK, GameAt
  <2>4. /\ myRooms'[w] = myRooms[w] \ {old} /\ todo'[w] = todo[w] \ {old}
        /\ game'[w].pc = "rooms" /\ old \notin addQ[w]
    BY <2>1, <2>2 DEF FrameTypeOK, GameAt, HandsApart
  <2>5. OneHand'
    <3> SUFFICES ASSUME NEW v \in Game, NEW x \in Rooms
                 PROVE InHand(v, x)' <=> x \notin freeRooms' /\ gameWorker'[x] = v
      BY DEF OneHand
    <3>1. CASE v = w
      <4>1. InHand(w, x)' <=> InHand(w, x) /\ x # old
        BY <2>1, <2>4 DEF InHand
      <4> QED BY <2>1, <3>1, <4>1 DEF OneHand
    <3>2. CASE v # w
      BY <2>1, <2>2, <2>3, <3>2 DEF InHand, OneHand
    <3> QED BY <3>1, <3>2
  <2>6. HandsApart'
    BY <2>1, <2>3, <2>4 DEF HandsApart
  <2>7. OpenListed'
    <3>1. /\ ListedOnce(openRooms')
          /\ \A x \in Rooms : Listed(openRooms', x) <=> Listed(openRooms, x) /\ x # old
      BY <2>1, <2>2, DropOpenDrops DEF OpenListed, MgrTypeOK
    <3>2. \A f \in Net : net'[f].pc # "reserve0"
      BY <2>1 DEF MgrLockHeld
    <3>3. \A v \in Game : game'[v].pc # "move"
      BY <2>1, <2>3, <2>4 DEF MgrLockHeld
    <3> QED BY <2>1, <3>1, <3>2, <3>3 DEF OpenListed
  <2>8. RoomGiven'
    BY <2>1 DEF RoomGiven, MgrLockHeld, Locked
  <2> QED BY <2>5, <2>6, <2>7, <2>8
<1>19. ASSUME NEW w \in Game, RoomTick(w) PROVE HandInv'
  <2>1. OneHand'
    BY <1>19, RoomTickEffect DEF OneHand, InHand, GameAt
  <2>2. HandsApart'
    <3>1. \A v \in Game : v # w => todo'[v] = todo[v] /\ game'[v] = game[v]
      BY <1>19, RoomTickEffect DEF FrameTypeOK, GameAt
    <3>2. /\ todo'[w] \subseteq todo[w] /\ game'[w].pc = "rooms" /\ UNCHANGED <<addQ, myRooms>>
      BY <1>19, RoomTickEffect DEF FrameTypeOK, GameAt
    <3> QED BY <3>1, <3>2 DEF HandsApart
  <2>3. OpenListed'
    BY <1>19, RoomTickEffect DEF OpenListed, GameAt
  <2>4. RoomGiven'
    BY <1>19, RoomTickEffect DEF RoomGiven, Locked, GameAt
  <2> QED BY <2>1, <2>2, <2>3, <2>4
<1>20. ASSUME NEW w \in Game, TransferBegin(w) PROVE HandInv'
  <2> DEFINE old == game[w].cur
  <2>1. PICK r \in Rooms :
           /\ AllocRoomSlotLocked(r, gameWorker[old], {old})
           /\ GameAt(w, "move", old, r, pendingJoin[old], pendingLeave[old])
    BY <1>20, TransferBeginEffect
  <2>2. /\ game[w].pc = "tick" /\ ~MgrLockHeld /\ UNCHANGED <<openRooms, addQ, net, myRooms, todo>>
    BY <1>20, TransferBeginEffect
  <2>3. old \in Rooms /\ old \in myRooms[w] /\ gameWorker[old] = w /\ old \notin freeRooms
    BY <2>2, GameTyped DEF HandsApart, OneHand, InHand
  <2>4. /\ r \in freeRooms /\ freeRooms' = freeRooms \ {r}
        /\ gameWorker' = [gameWorker EXCEPT ![r] = w]
    BY <2>1, <2>3 DEF AllocRoomSlotLocked
  <2>5. \A v \in Game : r \notin addQ[v] /\ r \notin myRooms[v] /\ game[v].pc # "move"
    BY <2>2, <2>4 DEF OneHand, InHand, MgrLockHeld
  <2>6. OneHand'
    <3> SUFFICES ASSUME NEW v \in Game, NEW x \in Rooms
                 PROVE InHand(v, x)' <=> x \notin freeRooms' /\ gameWorker'[x] = v
      BY DEF OneHand
    <3>1. InHand(v, x)' <=> InHand(v, x) \/ (v = w /\ x = r)
      BY <2>1, <2>2, <2>5 DEF InHand, GameAt
    <3> QED BY <2>4, <2>5, <3>1 DEF OneHand, InHand, MgrTypeOK
  <2>7. HandsApart'
    BY <2>1, <2>2, <2>5 DEF HandsApart, GameAt
  <2>8. OpenListed'
    <3>1. ~Listed(openRooms, r)
      BY <2>4 DEF OpenListed
    <3>2. \A v \in Game : v # w => game'[v].pc # "move"
      BY <2>1, <2>5 DEF GameAt
    <3>3. game'[w].nr = r
      BY <2>1 DEF GameAt
    <3> QED BY <2>2, <2>4, <3>1, <3>2, <3>3 DEF OpenListed
  <2>9. RoomGiven'
    BY <2>2, <2>4 DEF RoomGiven, Locked, MgrLockHeld
  <2> QED BY <2>6, <2>7, <2>8, <2>9
<1>21. ASSUME NEW w \in Game, NEW m \in members[game[w].cur], TransferMember(w, m) PROVE HandInv'
  <2>1. OneHand'
    <3>1. /\ \A v \in Game : game'[v].pc = game[v].pc /\ game'[v].nr = game[v].nr
          /\ UNCHANGED <<freeRooms, gameWorker, addQ, myRooms>>
      BY <1>21, TransferMemberEffect DEF GameAt
    <3> QED BY <3>1 DEF OneHand, InHand
  <2>2. HandsApart'
    BY <1>21, TransferMemberEffect DEF HandsApart, GameAt
  <2>3. OpenListed'
    BY <1>21, TransferMemberEffect DEF OpenListed, GameAt
  <2>4. RoomGiven'
    BY <1>21, TransferMemberEffect DEF RoomGiven, Locked, GameAt
  <2> QED BY <2>1, <2>2, <2>3, <2>4
<1>22. ASSUME NEW w \in Game, TransferEnd(w) PROVE HandInv'
  <2> DEFINE old == game[w].cur
             new == game[w].nr
             rest == DropOpen(openRooms, old)
  <2>1. /\ game[w].pc = "move"
        /\ freeRooms' = freeRooms \cup {old}
        /\ openRooms' \in {rest, Append(rest, new)}
        /\ myRooms' = [myRooms EXCEPT ![w] = (@ \ {old}) \cup {new}]
        /\ todo' = [todo EXCEPT ![w] = @ \ {old}]
        /\ GameAt(w, "rooms", 0, 0, {}, {})
        /\ UNCHANGED <<gameWorker, addQ, net>>
    BY <1>22, TransferEndEffect
  <2>2. /\ old \in Rooms /\ old \in myRooms[w] /\ gameWorker[old] = w /\ old \notin freeRooms
        /\ new \in Rooms /\ gameWorker[new] = w /\ new \notin freeRooms
        /\ new \notin addQ[w] /\ new \notin myRooms[w] /\ old \notin addQ[w]
    BY <2>1, GameTyped DEF HandsApart, OneHand, InHand
  <2>3. \A v \in Game : v # w => myRooms'[v] = myRooms[v] /\ todo'[v] = todo[v] /\ game'[v] = game[v]
    BY <2>1 DEF FrameTypeOK, GameAt
  <2>4. /\ myRooms'[w] = (myRooms[w] \ {old}) \cup {new} /\ todo'[w] = todo[w] \ {old}
        /\ game'[w].pc = "rooms"
    BY <2>1 DEF FrameTypeOK, GameAt
  <2>5. OneHand'
    <3> SUFFICES ASSUME NEW v \in Game, NEW x \in Rooms
                 PROVE InHand(v, x)' <=> x \notin freeRooms' /\ gameWorker'[x] = v
      BY DEF OneHand
    <3>1. CASE v = w
      <4>1. InHand(w, x)' <=> InHand(w, x) /\ x # old
        BY <2>1, <2>2, <2>4 DEF InHand
      <4> QED BY <2>1, <3>1, <4>1 DEF OneHand
    <3>2. CASE v # w
      BY <2>1, <2>2, <2>3, <3>2 DEF InHand, OneHand
    <3> QED BY <3>1, <3>2
  <2>6. HandsApart'
    BY <2>1, <2>2, <2>3, <2>4 DEF HandsApart
  <2>7. OpenListed'
    <3>1. /\ rest \in Seq(Rooms) /\ ListedOnce(rest)
          /\ \A x \in Rooms : Listed(rest, x) <=> Listed(openRooms, x) /\ x # old
      BY <2>2, DropOpenDrops, DropOpenType DEF OpenListed, MgrTypeOK
    <3>2. ~Listed(openRooms, new) /\ ~Listed(rest, new)
      BY <2>1, <2>2, <3>1 DEF OpenListed
    <3> HIDE DEF rest
    <3>3. /\ ListedOnce(Append(rest, new))
          /\ \A x \in Rooms : Listed(Append(rest, new), x) <=> Listed(rest, x) \/ x = new
      BY <2>2, <3>1, <3>2, AppendListed
    <3>4. ListedOnce(openRooms') /\ \A x \in Rooms : Listed(openRooms', x)
              => (Listed(openRooms, x) \/ x = new) /\ x # old
      BY <2>1, <2>2, <3>1, <3>3 DEF rest
    <3>5. /\ \A f \in Net : net'[f].pc # "reserve0"
          /\ \A v \in Game : game'[v].pc # "move"
      BY <2>1, <2>3, <2>4 DEF LockInv, LockExclusive, Locked
    <3> QED BY <2>1, <2>2, <3>4, <3>5 DEF OpenListed
  <2>8. RoomGiven'
    BY <2>1 DEF RoomGiven, LockInv, LockExclusive
  <2> QED BY <2>5, <2>6, <2>7, <2>8
<1>23. CASE UNCHANGED vars
  BY <1>23 DEF vars, poolVars, sessVars, roomVars, seatVars, queueVars, memberVars, mgrVars,
     gameVars, OneHand, InHand, HandsApart, OpenListed, RoomGiven, Locked
<1>24. ASSUME NEW e \in Net, ServeStep(e) PROVE HandInv'
  BY <1>24, ServeEffect DEF OneHand, InHand, HandsApart, OpenListed, RoomGiven, Locked
<1> QED
  BY <1>1, <1>2, <1>3, <1>4, <1>5, <1>6, <1>7, <1>8, <1>9, <1>10, <1>11, <1>12,
     <1>13, <1>14, <1>15, <1>16, <1>17, <1>18, <1>19, <1>20, <1>21, <1>22, <1>23, <1>24
     DEF Next, NetStep, ServeStep, GameStep

(* No room is ticked by two workers, none is lost between two workers, and      *)
(* the open list offers none from the pool (RoomManager.cpp:                    *)
(* AllocRoomSlotLocked, TransferRoom, FreeRoomIfDrained; GameWorker.cpp:        *)
(* DrainRoomAddQ).                                                              *)
THEOREM RoomsInHand == PatientSpec => []HandInv
<1>1. TypeOK /\ TypeOK' /\ LockInv /\ LockInv' /\ HandInv /\ [Next]_vars => HandInv' BY HandStep
<1> QED BY HandInit, <1>1, TypeCorrect, LockHolder, PTL DEF Spec, PatientSpec

--------------------------------------------------------------------------------
(* Third layer: the seat ledger of each room, and of the party that a           *)
(* transfer is moving.                                                          *)

(* No two entries of es have one seat.                                          *)
SeatOnce(es) == \A x, y \in es : x.seat = y.seat => x = y

(* No entry of es has a seat of fs.                                             *)
SeatsApart(es, fs) == \A x \in es, y \in fs : x.seat # y.seat

(* The batch of room r, in the hands of the worker that ticks it.               *)
BatchOf(r) ==
    LET w == gameWorker[r]
    IN  IF game[w].pc = "queues" /\ game[w].cur = r THEN game[w].joins ELSE {}

(* Somebody has seat i of room r: a member, an entry or a Join.                 *)
Claimed(r, i) ==
    \/ \E x \in members[r] : x.seat = i
    \/ \E x \in pendingJoin[r] : x.seat = i
    \/ \E x \in BatchOf(r) : x.seat = i
    \/ \E e \in Net : net[e].pc = "enter" /\ net[e].room = r /\ net[e].seat = i

(* The entries of room r have different seats.                                  *)
Apart(r) ==
    /\ SeatOnce(members[r]) /\ SeatOnce(pendingJoin[r]) /\ SeatOnce(BatchOf(r))
    /\ SeatsApart(members[r], pendingJoin[r])
    /\ SeatsApart(BatchOf(r), members[r]) /\ SeatsApart(BatchOf(r), pendingJoin[r])

(* A Join between its reservation and its entry shares its seat with nobody.    *)
ReserveApart(r) ==
    \A e \in Net : net[e].pc = "enter" /\ net[e].room = r =>
        /\ \A x \in members[r] : x.seat # net[e].seat
        /\ \A x \in pendingJoin[r] : x.seat # net[e].seat
        /\ \A x \in BatchOf(r) : x.seat # net[e].seat

(* A seat of room r is marked used exactly when somebody has it.                *)
UsedIsClaimed(r) == \A i \in Seats : i \in seatUsed[r] <=> Claimed(r, i)

(* The counters of room r count the marked seats and the members.               *)
Counted(r) ==
    /\ reservedSeats[r] = Cardinality(seatUsed[r])
    /\ memberCount[r] = Cardinality(members[r])

(* A dead room, and a slot in the pool, has no marked seat.                     *)
DeadIsUnused(r) ==
    /\ rdead[r] \/ r \in freeRooms => seatUsed[r] = {}
    /\ \A w \in Game : game[w].pc = "dying" /\ game[w].cur = r => rdead[r]

(* The room a Join is entering is alive; before its first reservation it is     *)
(* empty.                                                                       *)
Expecting(r) ==
    \A e \in Net : net[e].room = r =>
        /\ Locked(net[e].pc) => ~rdead[r]
        /\ net[e].pc = "reserve0" => seatUsed[r] = {} /\ ~everReserved[r] /\ net[e].seat = 0

(* What holds of a room that no transfer is moving.                             *)
RoomSound(r) ==
    /\ Apart(r) /\ ReserveApart(r) /\ UsedIsClaimed(r) /\ Counted(r)
    /\ DeadIsUnused(r) /\ Expecting(r)

(* What holds of the two rooms of a transfer: the party has different seats,    *)
(* wherever its entries are by now, and both ledgers are at zero until the      *)
(* transfer sets the new one.                                                   *)
PartySound(w) ==
    LET old == game[w].cur
        new == game[w].nr
    IN  /\ SeatOnce(members[old]) /\ SeatOnce(members[new]) /\ SeatOnce(game[w].joins)
        /\ SeatsApart(members[old], members[new])
        /\ SeatsApart(game[w].joins, members[old]) /\ SeatsApart(game[w].joins, members[new])
        /\ pendingJoin[old] = {} /\ seatUsed[old] = {} /\ reservedSeats[old] = 0 /\ rdead[old]
        /\ pendingJoin[new] = {} /\ seatUsed[new] = {} /\ reservedSeats[new] = 0 /\ ~rdead[new]

(* Third layer of the inductive invariant.                                      *)
SeatInv ==
    /\ \A r \in Rooms : Moving(r) \/ RoomSound(r)
    /\ \A w \in Game : game[w].pc = "move" => PartySound(w)

(* The step does not touch what RoomSound(r) reads.                             *)
SameRoom(r) ==
    /\ members'[r] = members[r] /\ pendingJoin'[r] = pendingJoin[r] /\ BatchOf(r)' = BatchOf(r)
    /\ seatUsed'[r] = seatUsed[r] /\ reservedSeats'[r] = reservedSeats[r]
    /\ memberCount'[r] = memberCount[r] /\ rdead'[r] = rdead[r] /\ everReserved'[r] = everReserved[r]
    /\ r \in freeRooms' <=> r \in freeRooms
    /\ \A e \in Net : /\ net[e].room = r /\ Locked(net[e].pc) => net'[e] = net[e]
                      /\ net'[e].room = r /\ Locked(net'[e].pc) => net'[e] = net[e]
    /\ \A w \in Game : game'[w].pc = "dying" /\ game'[w].cur = r
                          => game[w].pc = "dying" /\ game[w].cur = r

(* A room that a step does not touch stays sound.                               *)
LEMMA SameRoomSound ==
    ASSUME NEW r \in Rooms, RoomSound(r), SameRoom(r)
    PROVE  RoomSound(r)'
<1>1. Apart(r)'
  BY DEF RoomSound, SameRoom, Apart, SeatOnce, SeatsApart
<1>2. ReserveApart(r)'
  BY DEF RoomSound, SameRoom, ReserveApart, Locked
<1>3. UsedIsClaimed(r)'
  BY DEF RoomSound, SameRoom, UsedIsClaimed, Claimed, Locked
<1>4. Counted(r)'
  BY DEF RoomSound, SameRoom, Counted
<1>5. DeadIsUnused(r)'
  BY DEF RoomSound, SameRoom, DeadIsUnused
<1>6. Expecting(r)'
  BY DEF RoomSound, SameRoom, Expecting, Locked
<1> QED BY <1>1, <1>2, <1>3, <1>4, <1>5, <1>6 DEF RoomSound

(* Entries with different seats are as many as their seats.                     *)
LEMMA SeatsCounted ==
    ASSUME NEW es \in SUBSET JoinEntry, SeatOnce(es)
    PROVE  IsFiniteSet(es) /\ Cardinality(es) = Cardinality(SeatsOf(es))
<1> DEFINE f == [x \in es |-> x.seat]
           S == SeatsOf(es)
<1>1. S \in SUBSET Seats
  BY EntryTyped DEF SeatsOf
<1>2. f \in Bijection(es, S)
  <2>1. f \in [es -> S] BY DEF SeatsOf
  <2>2. \A x, y \in es : f[x] = f[y] => x = y BY DEF SeatOnce
  <2>3. \A i \in S : \E x \in es : f[x] = i BY DEF SeatsOf
  <2> QED BY <2>1, <2>2, <2>3, Fun_IsBij
<1>3. IsFiniteSet(S)
  BY <1>1, SeatsFinite
<1>4. ExistsBijection(S, es)
  BY <1>2, Fun_ExistsBijSymmetric DEF ExistsBijection
<1> QED BY <1>3, <1>4, FS_Bijection

(* A game worker inside an operation works on a room of its own, which no       *)
(* other worker works on or moves; the new room of its transfer is its own      *)
(* too.                                                                         *)
LEMMA MovingHands ==
    ASSUME TypeOK, HandInv, NEW w \in Game, game[w].pc # "rooms"
    PROVE  /\ game[w].cur \in Rooms /\ gameWorker[game[w].cur] = w
           /\ game[w].cur \notin freeRooms
           /\ \A v \in Game : game[v].pc # "rooms" /\ game[v].cur = game[w].cur => v = w
           /\ game[w].pc # "move" => ~Moving(game[w].cur)
           /\ game[w].pc = "move" => game[w].nr \in Rooms /\ gameWorker[game[w].nr] = w
                                     /\ game[w].nr \notin freeRooms
                                     /\ game[w].nr # game[w].cur
           /\ \A v \in Game : game[v].pc # "rooms" /\ game[w].pc = "move"
                     => game[v].cur # game[w].nr
<1>1. \A v \in Game : game[v].pc # "rooms"
          => /\ game[v].cur \in Rooms /\ gameWorker[game[v].cur] = v
                                             /\ game[v].cur \notin freeRooms
                                             /\ game[v].cur \in myRooms[v]
  BY GameTyped DEF TypeOK, HandInv, HandsApart, OneHand, InHand
<1>2. \A v \in Game : game[v].pc = "move"
          => /\ game[v].nr \in Rooms /\ gameWorker[game[v].nr] = v
                                            /\ game[v].nr \notin freeRooms
                                            /\ game[v].nr \notin myRooms[v]
  BY GameTyped DEF TypeOK, HandInv, HandsApart, OneHand, InHand
<1> QED BY <1>1, <1>2 DEF Moving

(* A step that keeps every transfer as it is may be checked room by room.       *)
LEMMA EachRoom ==
    ASSUME TypeOK, HandInv, SeatInv,
           \A r \in Rooms : SameRoom(r) \/ (~Moving(r) /\ RoomSound(r)'),
           \A w \in Game : game[w].pc = "move" \/ game'[w].pc = "move" => game'[w] = game[w]
    PROVE  SeatInv'
<1>1. ASSUME NEW r \in Rooms, ~Moving(r)' PROVE RoomSound(r)'
  <2>1. ~Moving(r) BY <1>1 DEF Moving
  <2> QED BY <2>1, SameRoomSound DEF SeatInv
<1>2. ASSUME NEW w \in Game, game'[w].pc = "move" PROVE PartySound(w)'
  <2>1. game'[w] = game[w] /\ PartySound(w) BY <1>2 DEF SeatInv
  <2>2. /\ game[w].cur \in Rooms /\ SameRoom(game[w].cur)
        /\ game[w].nr \in Rooms /\ SameRoom(game[w].nr)
    BY <1>2, <2>1, MovingHands DEF Moving
  <2> QED BY <2>1, <2>2 DEF SameRoom, PartySound, SeatOnce, SeatsApart
<1> QED BY <1>1, <1>2 DEF SeatInv

(* AllocRoomSlotLocked: the slot is an empty, live, unreserved room of worker   *)
(* w; the closed rooms have no seats, no queues, and are dead.                  *)
LEMMA AllocEffect ==
    ASSUME TypeOK, NEW r \in Rooms, NEW w \in Game, NEW C \in SUBSET Rooms,
           AllocRoomSlotLocked(r, w, C)
    PROVE  /\ r \in freeRooms /\ freeRooms' = freeRooms \ {r}
           /\ \A x \in Rooms : x \notin C \cup {r} =>
                 /\ rdead'[x] = rdead[x] /\ seatUsed'[x] = seatUsed[x]
                 /\ reservedSeats'[x] = reservedSeats[x]
                 /\ pendingJoin'[x] = pendingJoin[x] /\ pendingLeave'[x] = pendingLeave[x]
           /\ \A x \in C \cup {r} :
                 /\ seatUsed'[x] = {} /\ reservedSeats'[x] = 0
                 /\ pendingJoin'[x] = {} /\ pendingLeave'[x] = {}
           /\ \A x \in C : rdead'[x]
           /\ r \notin C => ~rdead'[r]
           /\ members'[r] = {} /\ memberCount'[r] = 0 /\ ~everReserved'[r] /\ gameWorker'[r] = w
           /\ \A x \in Rooms : x # r =>
                 /\ members'[x] = members[x] /\ memberCount'[x] = memberCount[x]
                 /\ everReserved'[x] = everReserved[x] /\ gameWorker'[x] = gameWorker[x]
<1>1. /\ r \in freeRooms /\ freeRooms' = freeRooms \ {r}
      /\ members' = [members EXCEPT ![r] = {}] /\ memberCount' = [memberCount EXCEPT ![r] = 0]
      /\ everReserved' = [everReserved EXCEPT ![r] = FALSE]
      /\ gameWorker' = [gameWorker EXCEPT ![r] = w]
  BY DEF AllocRoomSlotLocked
<1>2. \A x \in Rooms : rdead'[x] = (x \in C \/ (x # r /\ rdead[x]))
  BY Zenon DEF AllocRoomSlotLocked
<1>3. \A x \in Rooms :
         /\ seatUsed'[x] = IF x \in C \cup {r} THEN {} ELSE seatUsed[x]
         /\ reservedSeats'[x] = IF x \in C \cup {r} THEN 0 ELSE reservedSeats[x]
         /\ pendingJoin'[x]  = IF x \in C \cup {r} THEN {} ELSE pendingJoin[x]
         /\ pendingLeave'[x] = IF x \in C \cup {r} THEN {} ELSE pendingLeave[x]
  BY Zenon DEF AllocRoomSlotLocked
<1>4. \A x \in Rooms : rdead[x] \in BOOLEAN
  BY DEF TypeOK, SeatTypeOK
<1>5. /\ \A x \in Rooms : x \notin C \cup {r} => rdead'[x] = rdead[x]
      /\ \A x \in C : rdead'[x]
      /\ r \notin C => ~rdead'[r]
  BY <1>2, <1>4
<1> QED BY <1>1, <1>3, <1>5 DEF TypeOK, SeatTypeOK, MemberTypeOK, MgrTypeOK

(* At the start no seat is marked.                                              *)
LEMMA SeatInit == Init => SeatInv
<1> SUFFICES ASSUME Init PROVE SeatInv OBVIOUS
<1>1. NetIdle.pc = "idle" /\ BetweenRooms.pc = "rooms" BY DEF NetIdle, BetweenRooms
<1>2. \A w \in Game : game[w].pc = "rooms" BY <1>1 DEF Init
<1>3. \A e \in Net : net[e].pc = "idle" BY <1>1 DEF Init
<1>4. ASSUME NEW r \in Rooms PROVE RoomSound(r)
  <2>1. gameWorker[r] \in Game BY FramesTyped DEF Init
  <2>2. /\ members[r] = {} /\ pendingJoin[r] = {} /\ BatchOf(r) = {} /\ seatUsed[r] = {}
        /\ reservedSeats[r] = 0 /\ memberCount[r] = 0
    BY <2>1, <1>2 DEF Init, BatchOf
  <2>3. Cardinality({}) = 0 BY FS_EmptySet
  <2> QED BY <1>2, <1>3, <2>2, <2>3 DEF RoomSound, Apart, SeatOnce, SeatsApart, ReserveApart,
        UsedIsClaimed, Claimed, Counted, DeadIsUnused, Expecting, Locked
<1> QED BY <1>2, <1>4 DEF SeatInv

(* Every step keeps the ledger of every room, and of every transfer, sound.     *)
LEMMA SeatStep ==
    TypeOK /\ TypeOK' /\ LockInv /\ LockInv' /\ HandInv /\ HandInv' /\ SeatInv
    /\ [Next]_vars => SeatInv'
<1> SUFFICES ASSUME TypeOK, TypeOK', LockInv, LockInv', HandInv, HandInv', SeatInv,
                    [Next]_vars
             PROVE  SeatInv'
  OBVIOUS
<1>0. FrameTypeOK /\ MgrTypeOK /\ SeatTypeOK /\ QueueTypeOK /\ MemberTypeOK BY DEF TypeOK
<1>1. ASSUME NEW e \in Net, NEW s \in Sess, Accept(e, s) PROVE SeatInv'
  <2>1. \A r \in Rooms : SameRoom(r)
    BY <1>1, AcceptEffect DEF SameRoom, BatchOf, Locked
  <2>2. game' = game
    BY <1>1, AcceptEffect
  <2> QED BY <2>1, <2>2, EachRoom
<1>2. ASSUME NEW e \in Net, NEW s \in Sess, AcceptAborted(e, s) PROVE SeatInv'
  <2>1. \A r \in Rooms : SameRoom(r)
    BY <1>2, AcceptAbortedEffect DEF SameRoom, BatchOf, Locked
  <2>2. game' = game
    BY <1>2, AcceptAbortedEffect
  <2> QED BY <2>1, <2>2, EachRoom
<1>3. ASSUME NEW e \in Net, NEW s \in Sess, JoinReserve(e, s) PROVE SeatInv'
  <2>1. PICK r \in Rooms, i \in Seats, k \in 1 .. Len(openRooms) :
           /\ openRooms[k] = r /\ ~rdead[r] /\ FirstFreeSeat(r, i)
           /\ seatUsed' = [seatUsed EXCEPT ![r] = @ \cup {i}]
           /\ everReserved' = [everReserved EXCEPT ![r] = TRUE]
           /\ reservedSeats' = [reservedSeats EXCEPT ![r] = @ + 1]
           /\ NetAt(e, "enter", s, r, i)
    BY <1>3, JoinReserveEffect
  <2>2. /\ \A f \in Net : ~Locked(net[f].pc)
        /\ \A v \in Game : game[v].pc # "move"
        /\ UNCHANGED <<rdead, queueVars, memberVars, gameWorker, freeRooms, game>>
    BY <1>3, JoinReserveEffect DEF MgrLockHeld, Locked, queueVars, memberVars
  <2>3. /\ ~Moving(r) /\ RoomSound(r) /\ r \notin freeRooms
    BY <2>1, <2>2 DEF Moving, SeatInv, HandInv, OpenListed, Listed
  <2>4. \A x \in Rooms : BatchOf(x)' = BatchOf(x)
    BY <2>2 DEF BatchOf
  <2>5. \A x \in Rooms : x # r => SameRoom(x)
    BY <1>0, <2>1, <2>2, <2>4 DEF SameRoom, NetAt, Locked, SeatTypeOK, queueVars, memberVars
  <2>6. seatUsed'[r] = seatUsed[r] \cup {i} /\ i \notin seatUsed[r] /\ ~Claimed(r, i)
    BY <1>0, <2>1, <2>3 DEF FirstFreeSeat, SeatTypeOK, RoomSound, UsedIsClaimed
  <2>7. \A f \in Net : f # e => net'[f].pc # "enter" /\ net'[f].pc # "reserve0"
    BY <2>1, <2>2 DEF NetAt, Locked
  <2>8. Apart(r)'
    BY <2>2, <2>3, <2>4 DEF RoomSound, Apart, SeatOnce, SeatsApart, queueVars, memberVars
  <2>9. ReserveApart(r)'
    BY <2>1, <2>2, <2>4, <2>6, <2>7 DEF ReserveApart, Claimed, NetAt, queueVars, memberVars
  <2>10. UsedIsClaimed(r)'
    <3> SUFFICES ASSUME NEW h \in Seats PROVE h \in seatUsed'[r] <=> Claimed(r, h)'
      BY DEF UsedIsClaimed
    <3>1. h \in seatUsed[r] <=> Claimed(r, h)
      BY <2>3 DEF RoomSound, UsedIsClaimed
    <3>2. Claimed(r, h)' <=> Claimed(r, h) \/ h = i
      BY <2>1, <2>2, <2>4, <2>7 DEF Claimed, NetAt, Locked, queueVars, memberVars
    <3> QED BY <2>6, <3>1, <3>2
  <2>11. Counted(r)'
    <3>1. /\ IsFiniteSet(seatUsed[r])
          /\ Cardinality(seatUsed'[r]) = Cardinality(seatUsed[r]) + 1
      BY <1>0, <2>6, SeatsFinite, FS_AddElement DEF SeatTypeOK
    <3> QED BY <1>0, <2>1, <2>2, <2>3, <3>1 DEF RoomSound, Counted, memberVars, SeatTypeOK
  <2>12. DeadIsUnused(r)' /\ Expecting(r)'
    BY <2>1, <2>2, <2>3, <2>7 DEF RoomSound, DeadIsUnused, Expecting, NetAt
  <2>13. RoomSound(r)'
    BY <2>8, <2>9, <2>10, <2>11, <2>12 DEF RoomSound
  <2> QED BY <2>2, <2>3, <2>5, <2>13, EachRoom
<1>4. ASSUME NEW e \in Net, NEW s \in Sess, JoinAlloc(e, s) PROVE SeatInv'
  <2>1. PICK r \in Rooms, w \in Game :
           /\ AllocRoomSlotLocked(r, w, {})
           /\ NetAt(e, "reserve0", s, r, 0)
    BY <1>4, JoinAllocEffect
  <2>2. /\ \A f \in Net : ~Locked(net[f].pc)
        /\ \A v \in Game : game[v].pc # "move"
        /\ game' = game
    BY <1>4, JoinAllocEffect DEF MgrLockHeld, Locked
  <2>3. /\ r \in freeRooms /\ freeRooms' = freeRooms \ {r}
        /\ members'[r] = {} /\ pendingJoin'[r] = {} /\ seatUsed'[r] = {} /\ reservedSeats'[r] = 0
        /\ memberCount'[r] = 0 /\ ~rdead'[r] /\ ~everReserved'[r] /\ gameWorker'[r] = w
        /\ \A x \in Rooms : x # r =>
              /\ members'[x] = members[x] /\ pendingJoin'[x] = pendingJoin[x]
              /\ seatUsed'[x] = seatUsed[x] /\ reservedSeats'[x] = reservedSeats[x]
              /\ memberCount'[x] = memberCount[x] /\ rdead'[x] = rdead[x]
              /\ everReserved'[x] = everReserved[x] /\ gameWorker'[x] = gameWorker[x]
    BY <2>1, AllocEffect
  <2>4. \A v \in Game : game[v].pc # "rooms" => game[v].cur # r
    BY <2>3, MovingHands
  <2>5. BatchOf(r)' = {} /\ \A x \in Rooms : x # r => BatchOf(x)' = BatchOf(x)
    BY <1>0, <2>2, <2>3, <2>4 DEF BatchOf, MgrTypeOK
  <2>6. \A x \in Rooms : x # r => SameRoom(x)
    BY <2>1, <2>2, <2>3, <2>5 DEF SameRoom, NetAt, Locked
  <2>8. \A f \in Net : net'[f].pc # "enter"
    BY <2>1, <2>2 DEF NetAt, Locked
  <2>9. Apart(r)' /\ ReserveApart(r)' /\ UsedIsClaimed(r)'
    BY <2>3, <2>5, <2>8 DEF Apart, SeatOnce, SeatsApart, ReserveApart, UsedIsClaimed, Claimed
  <2>10. Counted(r)'
    BY <2>3, FS_EmptySet DEF Counted
  <2>11. DeadIsUnused(r)' /\ Expecting(r)'
    BY <2>1, <2>2, <2>3, <2>4 DEF DeadIsUnused, Expecting, NetAt, Locked
  <2>12. RoomSound(r)' /\ ~Moving(r)
    BY <2>2, <2>9, <2>10, <2>11 DEF RoomSound, Moving
  <2> QED BY <2>2, <2>6, <2>12, EachRoom
<1>5. ASSUME NEW e \in Net, NEW s \in Sess, JoinFail(e, s) PROVE SeatInv'
  <2>1. \A r \in Rooms : SameRoom(r)
    BY <1>5, JoinFailEffect DEF SameRoom, BatchOf, Locked
  <2>2. game' = game
    BY <1>5, JoinFailEffect
  <2> QED BY <2>1, <2>2, EachRoom
<1>6. ASSUME NEW e \in Net, NEW s \in Sess, Disconnect(e, s) PROVE SeatInv'
  <2>1. \A r \in Rooms : SameRoom(r)
    BY <1>6, DisconnectEffect DEF SameRoom, BatchOf, Locked, NetAt
  <2>2. game' = game
    BY <1>6, DisconnectEffect
  <2> QED BY <2>1, <2>2, EachRoom
<1>7. ASSUME NEW e \in Net, JoinReserveFirst(e) PROVE SeatInv'
  <2>0. PICK r \in Rooms : r = net[e].room
    BY <1>0, NetTyped
  <2>1. /\ net[e].pc = "reserve0"
        /\ seatUsed' = [seatUsed EXCEPT ![r] = @ \cup {0}]
        /\ reservedSeats' = [reservedSeats EXCEPT ![r] = 1]
        /\ everReserved' = [everReserved EXCEPT ![r] = TRUE]
        /\ NetAt(e, "enter", net[e].sess, r, net[e].seat)
        /\ UNCHANGED <<rdead, queueVars, memberVars, gameWorker, freeRooms, game>>
    BY <1>7, <2>0, JoinReserveFirstEffect DEF queueVars, memberVars
  <2>2. /\ \A f \in Net : f # e => ~Locked(net[f].pc) /\ ~Locked(net'[f].pc)
        /\ \A v \in Game : game[v].pc # "move"
    BY <2>1 DEF LockInv, LockExclusive, Locked, NetAt
  <2>3. ~Moving(r) /\ RoomSound(r) /\ r \notin freeRooms
    BY <2>0, <2>1, <2>2 DEF Moving, SeatInv, HandInv, RoomGiven, Locked
  <2>4. \A x \in Rooms : BatchOf(x)' = BatchOf(x)
    BY <2>1 DEF BatchOf
  <2>5. \A x \in Rooms : x # r => SameRoom(x)
    BY <1>0, <2>0, <2>1, <2>2, <2>4 DEF SameRoom, NetAt, SeatTypeOK, queueVars, memberVars
  <2>6. seatUsed[r] = {} /\ seatUsed'[r] = {0} /\ 0 \in Seats /\ ~rdead[r] /\ net'[e].seat = 0
    BY <1>0, <2>0, <2>1, <2>3, FramesTyped DEF RoomSound, Expecting, Locked, SeatTypeOK,
       NetAt, TypeOK
  <2>7. \A i \in Seats : ~Claimed(r, i)
    BY <2>3, <2>6 DEF RoomSound, UsedIsClaimed
  <2>8. Apart(r)'
    BY <2>1, <2>3, <2>4 DEF RoomSound, Apart, SeatOnce, SeatsApart, queueVars, memberVars
  <2>9. ReserveApart(r)'
    BY <2>1, <2>2, <2>4, <2>6, <2>7 DEF ReserveApart, Claimed, Locked, queueVars, memberVars
  <2>10. UsedIsClaimed(r)'
    BY <2>1, <2>2, <2>4, <2>6, <2>7 DEF UsedIsClaimed, Claimed, Locked, NetAt, queueVars,
       memberVars
  <2>11. Counted(r)'
    <3>1. Cardinality({0}) = 1
      BY FS_Singleton
    <3> QED BY <1>0, <2>1, <2>3, <2>6, <3>1 DEF RoomSound, Counted, memberVars, SeatTypeOK
  <2>12. DeadIsUnused(r)' /\ Expecting(r)'
    BY <2>1, <2>2, <2>3, <2>6 DEF RoomSound, DeadIsUnused, Expecting, NetAt, Locked
  <2>13. RoomSound(r)'
    BY <2>8, <2>9, <2>10, <2>11, <2>12 DEF RoomSound
  <2> QED BY <2>1, <2>2, <2>3, <2>5, <2>13, EachRoom
<1>8. ASSUME NEW e \in Net, JoinEnter(e) PROVE SeatInv'
  <2>0. PICK r \in Rooms, j \in JoinEntry : r = net[e].room /\ j = Claim(e)
    BY <1>0, NetTyped, EntryTyped DEF Claim, TypeOK, PoolTypeOK
  <2>1. /\ net[e].pc = "enter" /\ j.seat = net[e].seat
        /\ pendingJoin' = [pendingJoin EXCEPT ![r] = @ \cup {j}]
        /\ NetAt(e, "serve", net[e].sess, 0, 0)
        /\ UNCHANGED <<seatVars, memberVars, gameWorker, freeRooms, game>>
    BY <1>8, <2>0, JoinEnterEffect DEF Claim, seatVars, memberVars
  <2>2. /\ \A f \in Net : ~Locked(net'[f].pc) /\ (f # e => ~Locked(net[f].pc))
        /\ \A v \in Game : game[v].pc # "move"
    BY <2>1 DEF LockInv, LockExclusive, Locked, NetAt
  <2>3. ~Moving(r) /\ RoomSound(r)
    BY <2>2 DEF Moving, SeatInv
  <2>4. \A x \in Rooms : BatchOf(x)' = BatchOf(x)
    BY <2>1 DEF BatchOf
  <2>5. \A x \in Rooms : x # r => SameRoom(x)
    BY <1>0, <2>0, <2>1, <2>2, <2>4 DEF SameRoom, seatVars, memberVars, QueueTypeOK
  <2>6. pendingJoin'[r] = pendingJoin[r] \cup {j}
    BY <1>0, <2>1 DEF QueueTypeOK
  <2>7. Apart(r)'
    BY <2>0, <2>1, <2>3, <2>4, <2>6 DEF RoomSound, Apart, ReserveApart, SeatOnce, SeatsApart,
       memberVars
  <2>8. ReserveApart(r)' /\ Expecting(r)'
    BY <2>2 DEF ReserveApart, Expecting, Locked
  <2>9. UsedIsClaimed(r)'
    <3> SUFFICES ASSUME NEW i \in Seats PROVE i \in seatUsed'[r] <=> Claimed(r, i)'
      BY DEF UsedIsClaimed
    <3>1. i \in seatUsed[r] <=> Claimed(r, i)
      BY <2>3 DEF RoomSound, UsedIsClaimed
    <3>2. Claimed(r, i)' <=> Claimed(r, i)
      BY <2>0, <2>1, <2>2, <2>4, <2>6 DEF Claimed, Locked, memberVars
    <3> QED BY <2>1, <3>1, <3>2 DEF seatVars
  <2>10. Counted(r)' /\ DeadIsUnused(r)'
    BY <2>1, <2>3 DEF RoomSound, Counted, DeadIsUnused, seatVars, memberVars
  <2>11. RoomSound(r)'
    BY <2>7, <2>8, <2>9, <2>10 DEF RoomSound
  <2> QED BY <2>1, <2>3, <2>5, <2>11, EachRoom
<1>9. ASSUME NEW e \in Net, OnSessionLeave(e) PROVE SeatInv'
  <2>1. \A r \in Rooms : SameRoom(r)
    BY <1>9, OnSessionLeaveEffect DEF SameRoom, BatchOf, Locked, NetAt
  <2>2. game' = game
    BY <1>9, OnSessionLeaveEffect
  <2> QED BY <2>1, <2>2, EachRoom
<1>10. ASSUME NEW e \in Net, PushLeave(e) PROVE SeatInv'
  <2>1. \A r \in Rooms : SameRoom(r)
    BY <1>10, PushLeaveEffect DEF SameRoom, BatchOf, Locked, NetAt
  <2>2. game' = game
    BY <1>10, PushLeaveEffect
  <2> QED BY <2>1, <2>2, EachRoom
<1>11. ASSUME NEW e \in Net, ReleaseNetRef(e) PROVE SeatInv'
  <2>1. \A r \in Rooms : SameRoom(r)
    BY <1>11, ReleaseNetRefEffect DEF SameRoom, BatchOf, Locked, NetAt
  <2>2. game' = game
    BY <1>11, ReleaseNetRefEffect
  <2> QED BY <2>1, <2>2, EachRoom
<1>12. ASSUME NEW w \in Game, DrainRoomAddQ(w) PROVE SeatInv'
  <2>1. \A r \in Rooms : SameRoom(r)
    BY <1>12, DrainRoomAddQEffect DEF SameRoom, BatchOf, Locked
  <2>2. game' = game
    BY <1>12, DrainRoomAddQEffect
  <2> QED BY <2>1, <2>2, EachRoom
<1>13. ASSUME NEW w \in Game, NEW r \in todo[w], SwapQueues(w, r) PROVE SeatInv'
  <2>1. /\ game[w].pc = "rooms"
        /\ GameAt(w, "queues", r, 0, pendingJoin[r], pendingLeave[r])
        /\ pendingJoin' = [pendingJoin EXCEPT ![r] = {}]
        /\ UNCHANGED <<seatVars, memberVars, gameWorker, freeRooms, net>>
    BY <1>13, SwapQueuesEffect DEF seatVars, memberVars
  <2>2. /\ r \in Rooms /\ gameWorker[r] = w
        /\ ~Moving(r)
        /\ \A v \in Game : game[v].pc # "rooms" => game[v].cur # r
    <3>1. r \in myRooms[w] /\ r \in Rooms
      BY <1>0 DEF HandInv, HandsApart, FrameTypeOK
    <3>2. gameWorker[r] = w
      BY <3>1 DEF HandInv, OneHand, InHand
    <3> QED BY <2>1, <3>1, <3>2, MovingHands DEF Moving
  <2>3. RoomSound(r)
    BY <2>2 DEF SeatInv
  <2>4. /\ BatchOf(r) = {} /\ BatchOf(r)' = pendingJoin[r]
        /\ \A x \in Rooms : x # r => BatchOf(x)' = BatchOf(x)
    BY <1>0, <2>1, <2>2 DEF BatchOf, GameAt, MgrTypeOK
  <2>5. \A x \in Rooms : x # r => SameRoom(x)
    BY <1>0, <2>1, <2>4 DEF SameRoom, GameAt, seatVars, memberVars, QueueTypeOK
  <2>6. pendingJoin'[r] = {}
    BY <1>0, <2>1, <2>2 DEF QueueTypeOK
  <2>7. Apart(r)'
    BY <2>1, <2>3, <2>4, <2>6 DEF RoomSound, Apart, SeatOnce, SeatsApart, memberVars
  <2>8. ReserveApart(r)'
    BY <2>1, <2>3, <2>4, <2>6 DEF RoomSound, ReserveApart, memberVars
  <2>9. UsedIsClaimed(r)'
    BY <2>1, <2>3, <2>4, <2>6 DEF RoomSound, UsedIsClaimed, Claimed, seatVars, memberVars
  <2>10. Counted(r)' /\ DeadIsUnused(r)' /\ Expecting(r)'
    BY <2>1, <2>3 DEF RoomSound, Counted, DeadIsUnused, Expecting, GameAt, seatVars, memberVars
  <2>11. RoomSound(r)'
    BY <2>7, <2>8, <2>9, <2>10 DEF RoomSound
  <2>12. \A v \in Game : game[v].pc = "move" \/ game'[v].pc = "move" => game'[v] = game[v]
    BY <2>1 DEF GameAt
  <2> QED BY <2>2, <2>5, <2>11, <2>12, EachRoom
<1>14. ASSUME NEW w \in Game, NEW j \in game[w].joins, InstallMember(w, j) PROVE SeatInv'
  <2>0. PICK c \in Rooms : c = game[w].cur
    BY <1>0, GameTyped
  <2>1. /\ game[w].pc = "queues"
        /\ members' = [members EXCEPT ![c] = {m \in @ : m.seat # j.seat} \cup {j}]
        /\ memberCount' = [memberCount EXCEPT ![c] = @ + 1]
        /\ GameAt(w, "queues", c, game[w].nr, game[w].joins \ {j}, game[w].leaves)
        /\ UNCHANGED <<seatVars, queueVars, gameWorker, freeRooms, net>>
    BY <1>14, <2>0, InstallMemberEffect DEF seatVars, queueVars
  <2>2. gameWorker[c] = w /\ ~Moving(c) /\ j \in JoinEntry
    BY <1>0, <2>0, <2>1, MovingHands, GameTyped
  <2>3. RoomSound(c)
    BY <2>2 DEF SeatInv
  <2>4. /\ BatchOf(c) = game[w].joins /\ BatchOf(c)' = game[w].joins \ {j}
        /\ \A r \in Rooms : r # c => BatchOf(r)' = BatchOf(r)
    BY <1>0, <2>0, <2>1, <2>2 DEF BatchOf, GameAt, MgrTypeOK
  <2>5. \A r \in Rooms : r # c => SameRoom(r)
    BY <1>0, <2>1, <2>4 DEF SameRoom, GameAt, seatVars, queueVars, MemberTypeOK
  <2>6. members'[c] = members[c] \cup {j} /\ j \notin members[c]
    BY <1>0, <2>1, <2>2, <2>3, <2>4 DEF RoomSound, Apart, SeatsApart, MemberTypeOK
  <2>7. Apart(c)'
    BY <2>1, <2>3, <2>4, <2>6 DEF RoomSound, Apart, SeatOnce, SeatsApart, queueVars
  <2>8. ReserveApart(c)'
    BY <2>1, <2>3, <2>4, <2>6 DEF RoomSound, ReserveApart, queueVars
  <2>9. UsedIsClaimed(c)'
    BY <2>1, <2>3, <2>4, <2>6 DEF RoomSound, UsedIsClaimed, Claimed, seatVars, queueVars
  <2>10. Counted(c)'
    <3>1. IsFiniteSet(members[c])
      BY <1>0, <2>2, <2>3, SeatsCounted DEF RoomSound, Apart, MemberTypeOK
    <3>2. Cardinality(members'[c]) = Cardinality(members[c]) + 1
      BY <2>6, <3>1, FS_AddElement
    <3> QED BY <1>0, <2>1, <2>2, <2>3, <3>2 DEF RoomSound, Counted, seatVars, MemberTypeOK
  <2>11. DeadIsUnused(c)' /\ Expecting(c)'
    BY <2>1, <2>3 DEF RoomSound, DeadIsUnused, Expecting, GameAt, seatVars
  <2>12. \A v \in Game : game[v].pc = "move" \/ game'[v].pc = "move" => game'[v] = game[v]
    BY <2>1 DEF GameAt
  <2>13. RoomSound(c)'
    BY <2>7, <2>8, <2>9, <2>10, <2>11 DEF RoomSound
  <2> QED BY <2>2, <2>5, <2>12, <2>13, EachRoom
<1>15. ASSUME NEW w \in Game, NEW j \in game[w].joins, SkipJoin(w, j) PROVE SeatInv'
  <2>0. PICK c \in Rooms : c = game[w].cur
    BY <1>0, GameTyped
  <2>1. /\ game[w].pc = "queues"
        /\ seatUsed' = [seatUsed EXCEPT ![c] = @ \ {j.seat}]
        /\ reservedSeats' = [reservedSeats EXCEPT ![c] = @ - 1]
        /\ GameAt(w, "queues", c, game[w].nr, game[w].joins \ {j}, game[w].leaves)
        /\ UNCHANGED <<rdead, everReserved, queueVars, memberVars, gameWorker, freeRooms, net>>
    BY <1>15, <2>0, SkipJoinEffect DEF memberVars, queueVars
  <2>2. gameWorker[c] = w /\ ~Moving(c) /\ j \in JoinEntry /\ j.seat \in Seats
    BY <1>0, <2>0, <2>1, MovingHands, GameTyped, EntryTyped
  <2>3. RoomSound(c)
    BY <2>2 DEF SeatInv
  <2>4. /\ BatchOf(c) = game[w].joins /\ BatchOf(c)' = game[w].joins \ {j}
        /\ \A r \in Rooms : r # c => BatchOf(r)' = BatchOf(r)
    BY <1>0, <2>0, <2>1, <2>2 DEF BatchOf, GameAt, MgrTypeOK
  <2>5. \A r \in Rooms : r # c => SameRoom(r)
    BY <1>0, <2>1, <2>4 DEF SameRoom, GameAt, memberVars, queueVars, SeatTypeOK
  <2>6. seatUsed'[c] = seatUsed[c] \ {j.seat} /\ j.seat \in seatUsed[c]
    BY <1>0, <2>1, <2>2, <2>3, <2>4 DEF RoomSound, UsedIsClaimed, Claimed, SeatTypeOK
  <2>7. Apart(c)'
    BY <2>1, <2>3, <2>4 DEF RoomSound, Apart, SeatOnce, SeatsApart, queueVars, memberVars
  <2>8. ReserveApart(c)'
    BY <2>1, <2>3, <2>4 DEF RoomSound, ReserveApart, queueVars, memberVars
  <2>9. UsedIsClaimed(c)'
    <3> SUFFICES ASSUME NEW i \in Seats PROVE i \in seatUsed'[c] <=> Claimed(c, i)'
      BY DEF UsedIsClaimed
    <3>1. i \in seatUsed[c] <=> Claimed(c, i)
      BY <2>3 DEF RoomSound, UsedIsClaimed
    <3>2. Claimed(c, i)' <=> Claimed(c, i) /\ i # j.seat
      BY <2>1, <2>3, <2>4 DEF RoomSound, Apart, SeatOnce, SeatsApart, ReserveApart, Claimed,
         queueVars, memberVars
    <3> QED BY <2>6, <3>1, <3>2
  <2>10. Counted(c)'
    <3>1. /\ IsFiniteSet(seatUsed[c])
          /\ Cardinality(seatUsed'[c]) = Cardinality(seatUsed[c]) - 1
      BY <1>0, <2>2, <2>6, SeatsFinite, FS_RemoveElement DEF SeatTypeOK
    <3> QED BY <1>0, <2>1, <2>2, <2>3, <3>1 DEF RoomSound, Counted, memberVars, SeatTypeOK
  <2>11. DeadIsUnused(c)' /\ Expecting(c)'
    BY <2>1, <2>3, <2>6 DEF RoomSound, DeadIsUnused, Expecting, GameAt
  <2>12. \A v \in Game : game[v].pc = "move" \/ game'[v].pc = "move" => game'[v] = game[v]
    BY <2>1 DEF GameAt
  <2>13. RoomSound(c)'
    BY <2>7, <2>8, <2>9, <2>10, <2>11 DEF RoomSound
  <2> QED BY <2>2, <2>5, <2>12, <2>13, EachRoom
<1>16. ASSUME NEW w \in Game, NEW l \in game[w].leaves, ProcessLeave(w, l) PROVE SeatInv'
  <2>0. PICK c \in Rooms : c = game[w].cur
    BY <1>0, GameTyped
  <2>1. /\ game[w].pc = "queues" /\ game[w].joins = {}
        /\ GameAt(w, "queues", c, game[w].nr, {}, game[w].leaves \ {l})
        /\ UNCHANGED <<rdead, everReserved, queueVars, gameWorker, freeRooms, net>>
    BY <1>16, <2>0, ProcessLeaveEffect DEF queueVars
  <2>2. gameWorker[c] = w /\ ~Moving(c)
    BY <1>0, <2>0, <2>1, MovingHands
  <2>3. RoomSound(c)
    BY <2>2 DEF SeatInv
  <2>4. /\ BatchOf(c) = {} /\ \A r \in Rooms : BatchOf(r)' = BatchOf(r)
    BY <1>0, <2>0, <2>1, <2>2 DEF BatchOf, GameAt, MgrTypeOK
  <2>5. \A v \in Game : game[v].pc = "move" \/ game'[v].pc = "move" => game'[v] = game[v]
    BY <2>1 DEF GameAt
  <2>6. CASE UNCHANGED <<members, memberCount, seatUsed, reservedSeats>>
    <3>1. \A r \in Rooms : SameRoom(r)
      BY <2>1, <2>4, <2>6 DEF SameRoom, GameAt, queueVars
    <3> QED BY <2>5, <3>1, EachRoom
  <2>7. ASSUME NEW m \in members[c],
               members' = [members EXCEPT ![c] = @ \ {m}],
               memberCount' = [memberCount EXCEPT ![c] = @ - 1],
               seatUsed' = [seatUsed EXCEPT ![c] = @ \ {m.seat}],
               reservedSeats' = [reservedSeats EXCEPT ![c] = @ - 1]
        PROVE SeatInv'
    <3>1. m.seat \in Seats
      BY <1>0, <2>2, EntryTyped DEF MemberTypeOK
    <3>2. \A r \in Rooms : r # c => SameRoom(r)
      BY <1>0, <2>1, <2>4, <2>7 DEF SameRoom, GameAt, queueVars, SeatTypeOK, MemberTypeOK
    <3>3. /\ members'[c] = members[c] \ {m}
          /\ seatUsed'[c] = seatUsed[c] \ {m.seat} /\ m.seat \in seatUsed[c]
      BY <1>0, <2>2, <2>3, <2>7, <3>1 DEF RoomSound, UsedIsClaimed, Claimed, SeatTypeOK,
         MemberTypeOK
    <3>4. Apart(c)'
      BY <2>1, <2>2, <2>3, <2>4, <3>3 DEF RoomSound, Apart, SeatOnce, SeatsApart, queueVars
    <3>5. ReserveApart(c)'
      BY <2>1, <2>2, <2>3, <2>4, <3>3 DEF RoomSound, ReserveApart, queueVars
    <3>6. UsedIsClaimed(c)'
      <4> SUFFICES ASSUME NEW i \in Seats PROVE i \in seatUsed'[c] <=> Claimed(c, i)'
        BY DEF UsedIsClaimed
      <4>1. i \in seatUsed[c] <=> Claimed(c, i)
        BY <2>3 DEF RoomSound, UsedIsClaimed
      <4>2. Claimed(c, i)' <=> Claimed(c, i) /\ i # m.seat
        BY <2>1, <2>2, <2>3, <2>4, <3>3 DEF RoomSound, Apart, SeatOnce, SeatsApart,
           ReserveApart,
           Claimed, queueVars
      <4> QED BY <3>3, <4>1, <4>2
    <3>7. Counted(c)'
      <4>1. /\ IsFiniteSet(seatUsed[c])
            /\ Cardinality(seatUsed'[c]) = Cardinality(seatUsed[c]) - 1
        BY <1>0, <2>2, <3>3, SeatsFinite, FS_RemoveElement DEF SeatTypeOK
      <4>2. IsFiniteSet(members[c])
        BY <1>0, <2>2, <2>3, SeatsCounted DEF RoomSound, Apart, MemberTypeOK
      <4>3. Cardinality(members'[c]) = Cardinality(members[c]) - 1
        BY <3>3, <4>2, FS_RemoveElement
      <4> QED BY <1>0, <2>2, <2>3, <2>7, <4>1, <4>3 DEF RoomSound, Counted, SeatTypeOK,
                 MemberTypeOK
    <3>8. DeadIsUnused(c)' /\ Expecting(c)'
      BY <2>1, <2>3, <3>3 DEF RoomSound, DeadIsUnused, Expecting, GameAt
    <3>9. RoomSound(c)'
      BY <3>4, <3>5, <3>6, <3>7, <3>8 DEF RoomSound
    <3> QED BY <2>2, <2>5, <3>2, <3>9, EachRoom
  <2> QED BY <1>16, <2>6, <2>7, <2>0, ProcessLeaveEffect
<1>17. ASSUME NEW w \in Game, DeathCheck(w) PROVE SeatInv'
  <2>0. PICK c \in Rooms : c = game[w].cur
    BY <1>0, GameTyped
  <2>1. /\ game[w].pc = "queues" /\ game[w].joins = {}
        /\ \A v \in Game \ {w} : game'[v] = game[v]
        /\ game'[w].cur = c /\ game'[w].joins = {}
        /\ UNCHANGED <<everReserved, seatUsed, reservedSeats, queueVars, memberVars, gameWorker,
                       freeRooms, net>>
    BY <1>17, <2>0, DeathCheckEffect DEF GameAt, queueVars, memberVars
  <2>2. \/ RoomEmptied(c) /\ rdead' = [rdead EXCEPT ![c] = TRUE] /\ game'[w].pc = "dying"
        \/ rdead' = rdead /\ game'[w].pc = "tick"
    BY <1>17, <2>0, DeathCheckEffect DEF GameAt
  <2>3. /\ gameWorker[c] = w /\ ~Moving(c)
        /\ \A v \in Game : game[v].pc # "rooms" /\ game[v].cur = c => v = w
    BY <2>0, <2>1, MovingHands
  <2>4. RoomSound(c)
    BY <2>3 DEF SeatInv
  <2>5. \A x \in Rooms : BatchOf(x)' = BatchOf(x)
    BY <1>0, <2>0, <2>1, <2>2, <2>3 DEF BatchOf, MgrTypeOK
  <2>6. \A x \in Rooms : x # c => SameRoom(x)
    BY <1>0, <2>1, <2>2, <2>5 DEF SameRoom, queueVars, memberVars, SeatTypeOK
  <2>7. Apart(c)' /\ ReserveApart(c)'
    BY <2>1, <2>4, <2>5 DEF RoomSound, Apart, SeatOnce, SeatsApart, ReserveApart, queueVars,
       memberVars
  <2>8. UsedIsClaimed(c)' /\ Counted(c)'
    BY <2>1, <2>4, <2>5 DEF RoomSound, UsedIsClaimed, Claimed, Counted, queueVars, memberVars
  <2>9. DeadIsUnused(c)' /\ Expecting(c)'
    <3>1. CASE RoomEmptied(c) /\ rdead' = [rdead EXCEPT ![c] = TRUE] /\ game'[w].pc = "dying"
      <4>1. rdead'[c] /\ everReserved[c] /\ reservedSeats[c] = 0
        BY <1>0, <3>1 DEF RoomEmptied, SeatTypeOK
      <4>2. seatUsed[c] = {}
        BY <1>0, <2>4, <4>1, SeatsFinite, FS_EmptySet DEF RoomSound, Counted, SeatTypeOK
      <4>3. \A f \in Net : net[f].room = c => ~Locked(net[f].pc)
        <5> SUFFICES ASSUME NEW f \in Net, net[f].room = c, net[f].pc = "enter" PROVE FALSE
          BY <2>4, <4>1 DEF RoomSound, Expecting, Locked
        <5>1. net[f].seat \in Seats /\ Claimed(c, net[f].seat)
          BY <1>0, NetTyped DEF Claimed
        <5> QED BY <2>4, <4>2, <5>1 DEF RoomSound, UsedIsClaimed
      <4> QED BY <2>1, <4>1, <4>2, <4>3 DEF DeadIsUnused, Expecting, Locked
    <3>2. CASE rdead' = rdead /\ game'[w].pc = "tick"
      BY <2>1, <2>4, <3>2 DEF RoomSound, DeadIsUnused, Expecting
    <3> QED BY <2>2, <3>1, <3>2
  <2>10. RoomSound(c)'
    BY <2>7, <2>8, <2>9 DEF RoomSound
  <2>11. \A v \in Game : game[v].pc = "move" \/ game'[v].pc = "move" => game'[v] = game[v]
    BY <2>1, <2>2
  <2> QED BY <2>3, <2>6, <2>10, <2>11, EachRoom
<1>18. ASSUME NEW w \in Game, ReapRoom(w) PROVE SeatInv'
  <2>0. PICK c \in Rooms : c = game[w].cur
    BY <1>0, GameTyped
  <2>1. /\ game[w].pc = "dying" /\ ~MgrLockHeld
        /\ freeRooms' = freeRooms \cup {c}
        /\ GameAt(w, "rooms", 0, 0, {}, {})
        /\ UNCHANGED <<seatVars, queueVars, memberVars, gameWorker, net>>
    BY <1>18, <2>0, ReapRoomEffect DEF seatVars, queueVars, memberVars
  <2>2. gameWorker[c] = w /\ ~Moving(c)
    BY <2>0, <2>1, MovingHands
  <2>3. RoomSound(c) /\ rdead[c] /\ seatUsed[c] = {}
    BY <2>0, <2>1, <2>2 DEF SeatInv, RoomSound, DeadIsUnused
  <2>4. \A x \in Rooms : BatchOf(x)' = BatchOf(x)
    BY <1>0, <2>1 DEF BatchOf, GameAt, MgrTypeOK
  <2>5. \A x \in Rooms : x # c => SameRoom(x)
    BY <2>1, <2>4 DEF SameRoom, GameAt, seatVars, queueVars, memberVars
  <2>6. Apart(c)' /\ ReserveApart(c)'
    BY <2>1, <2>3, <2>4 DEF RoomSound, Apart, SeatOnce, SeatsApart, ReserveApart, queueVars,
       memberVars
  <2>7. UsedIsClaimed(c)' /\ Counted(c)'
    BY <2>1, <2>3, <2>4 DEF RoomSound, UsedIsClaimed, Claimed, Counted, seatVars, queueVars,
       memberVars
  <2>8. DeadIsUnused(c)' /\ Expecting(c)'
    BY <2>1, <2>3 DEF RoomSound, DeadIsUnused, Expecting, GameAt, seatVars
  <2>9. RoomSound(c)'
    BY <2>6, <2>7, <2>8 DEF RoomSound
  <2>10. \A v \in Game : game[v].pc = "move" \/ game'[v].pc = "move" => game'[v] = game[v]
    BY <2>1 DEF GameAt
  <2> QED BY <2>2, <2>5, <2>9, <2>10, EachRoom
<1>19. ASSUME NEW w \in Game, RoomTick(w) PROVE SeatInv'
  <2>1. /\ game[w].pc = "tick" /\ GameAt(w, "rooms", 0, 0, {}, {})
        /\ UNCHANGED <<seatVars, queueVars, memberVars, gameWorker, freeRooms, net>>
    BY <1>19, RoomTickEffect DEF seatVars, queueVars, memberVars
  <2>2. \A r \in Rooms : BatchOf(r)' = BatchOf(r)
    BY <1>0, <2>1 DEF BatchOf, GameAt, MgrTypeOK
  <2>3. \A r \in Rooms : SameRoom(r)
    BY <2>1, <2>2 DEF SameRoom, GameAt, seatVars, queueVars, memberVars
  <2>4. \A v \in Game : game[v].pc = "move" \/ game'[v].pc = "move" => game'[v] = game[v]
    BY <2>1 DEF GameAt
  <2> QED BY <2>3, <2>4, EachRoom
<1>20. ASSUME NEW w \in Game, TransferBegin(w) PROVE SeatInv'
  <2>0. PICK old \in Rooms : old = game[w].cur
    BY <1>0, GameTyped
  <2>1. PICK new \in Rooms :
           /\ AllocRoomSlotLocked(new, gameWorker[old], {old})
           /\ GameAt(w, "move", old, new, pendingJoin[old], pendingLeave[old])
    BY <1>20, <2>0, TransferBeginEffect
  <2>2. game[w].pc = "tick" /\ ~MgrLockHeld /\ net' = net
    BY <1>20, TransferBeginEffect
  <2>3. /\ \A f \in Net : ~Locked(net[f].pc)
        /\ \A v \in Game : game[v].pc # "move"
    BY <2>2 DEF MgrLockHeld, Locked
  <2>4. /\ gameWorker[old] = w /\ old \notin freeRooms /\ ~Moving(old)
        /\ \A v \in Game : game[v].pc # "rooms" /\ game[v].cur = old => v = w
        /\ \A v \in Game : game[v].pc # "rooms" => game[v].cur \notin freeRooms
    BY <2>0, <2>2, MovingHands
  <2>5. /\ new \in freeRooms /\ freeRooms' = freeRooms \ {new}
        /\ \A x \in {old, new} : /\ seatUsed'[x] = {} /\ reservedSeats'[x] = 0
                                 /\ pendingJoin'[x] = {}
        /\ rdead'[old] /\ (old # new => ~rdead'[new])
        /\ members'[new] = {} /\ gameWorker'[new] = w /\ (old # new
                  => members'[old] = members[old])
        /\ \A x \in Rooms : x \notin {old, new} =>
              /\ members'[x] = members[x] /\ pendingJoin'[x] = pendingJoin[x]
              /\ seatUsed'[x] = seatUsed[x] /\ reservedSeats'[x] = reservedSeats[x]
              /\ memberCount'[x] = memberCount[x] /\ rdead'[x] = rdead[x]
              /\ everReserved'[x] = everReserved[x] /\ gameWorker'[x] = gameWorker[x]
    <3>1. {old} \in SUBSET Rooms OBVIOUS
    <3> QED BY <2>1, <2>4, <3>1, AllocEffect
  <2>6. old # new /\ RoomSound(old)
    BY <2>4, <2>5 DEF SeatInv
  <2>7. \A x \in Rooms : x \notin {old, new} => BatchOf(x)' = BatchOf(x)
    BY <1>0, <2>0, <2>1, <2>2, <2>5 DEF BatchOf, MgrTypeOK, GameAt
  <2>8. \A x \in Rooms : x \notin {old, new} => SameRoom(x)
    BY <2>1, <2>2, <2>3, <2>5, <2>7 DEF SameRoom, GameAt
  <2>9. ASSUME NEW x \in Rooms, ~Moving(x)' PROVE RoomSound(x)'
    <3>1. x \notin {old, new} /\ ~Moving(x)
      BY <2>1, <2>3, <2>9 DEF Moving, GameAt
    <3> QED BY <2>8, <3>1, SameRoomSound DEF SeatInv
  <2>10. PartySound(w)'
    <3>1. /\ game'[w].cur = old /\ game'[w].nr = new /\ game'[w].joins = pendingJoin[old]
          /\ members'[old] = members[old] /\ members'[new] = {}
          /\ pendingJoin'[old] = {} /\ seatUsed'[old] = {} /\ reservedSeats'[old] = 0 /\ rdead'[old]
          /\ pendingJoin'[new] = {} /\ seatUsed'[new] = {} /\ reservedSeats'[new] = 0 /\ ~rdead'[new]
      BY <1>0, <2>1, <2>5, <2>6 DEF GameAt, MemberTypeOK
    <3> QED BY <2>6, <3>1 DEF PartySound, RoomSound, Apart, SeatOnce, SeatsApart
  <2>11. \A v \in Game : v # w => game'[v].pc # "move"
    BY <2>1, <2>3 DEF GameAt
  <2> QED BY <2>9, <2>10, <2>11 DEF SeatInv
<1>21. ASSUME NEW w \in Game, NEW m \in members[game[w].cur], TransferMember(w, m) PROVE SeatInv'
  <2>0. PICK old \in Rooms, new \in Rooms : old = game[w].cur /\ new = game[w].nr
    BY <1>0, GameTyped
  <2>1. /\ game[w].pc = "move"
        /\ members' = [members EXCEPT ![old] = @ \ {m}, ![new] = {o \in @ : o.seat # m.seat} \cup {m}]
        /\ UNCHANGED <<seatVars, queueVars, memberCount, gameWorker, freeRooms, net, game>>
    BY <1>21, <2>0, TransferMemberEffect DEF seatVars, queueVars
  <2>2. old # new /\ m \in members[old] /\ PartySound(w)
    BY <1>21, <2>0, <2>1, MovingHands DEF SeatInv
  <2>3. members'[old] = members[old] \ {m} /\ members'[new] = members[new] \cup {m}
    BY <1>0, <2>0, <2>1, <2>2 DEF PartySound, SeatsApart, MemberTypeOK
  <2>4. \A x \in Rooms : x \notin {old, new} => SameRoom(x)
    BY <1>0, <2>1 DEF SameRoom, BatchOf, seatVars, queueVars, MemberTypeOK
  <2>5. ASSUME NEW x \in Rooms, ~Moving(x)' PROVE RoomSound(x)'
    <3>1. x \notin {old, new} /\ ~Moving(x)
      BY <2>0, <2>1, <2>5 DEF Moving
    <3> QED BY <2>4, <3>1, SameRoomSound DEF SeatInv
  <2>6. PartySound(w)'
    <3>1. /\ SeatOnce(members[old]) /\ SeatOnce(members[new]) /\ SeatOnce(game[w].joins)
          /\ SeatsApart(members[old], members[new])
          /\ SeatsApart(game[w].joins, members[old]) /\ SeatsApart(game[w].joins, members[new])
          /\ pendingJoin[old] = {} /\ seatUsed[old] = {} /\ reservedSeats[old] = 0 /\ rdead[old]
          /\ pendingJoin[new] = {} /\ seatUsed[new] = {} /\ reservedSeats[new] = 0 /\ ~rdead[new]
      BY <2>0, <2>2 DEF PartySound
    <3>2. /\ SeatOnce(members'[old]) /\ SeatOnce(members'[new])
          /\ SeatsApart(members'[old], members'[new])
          /\ SeatsApart(game[w].joins, members'[old]) /\ SeatsApart(game[w].joins, members'[new])
      BY <2>2, <2>3, <3>1 DEF SeatOnce, SeatsApart
    <3>3. /\ SeatOnce(members[old])' /\ SeatOnce(members[new])'
          /\ SeatsApart(members[old], members[new])'
          /\ SeatsApart(game[w].joins, members[old])' /\ SeatsApart(game[w].joins, members[new])'
      BY <2>1, <3>2 DEF SeatOnce, SeatsApart
    <3> QED BY <2>0, <2>1, <3>1, <3>3 DEF PartySound, SeatOnce, seatVars, queueVars
  <2>7. \A v \in Game : v # w => game'[v].pc # "move"
    BY <2>1 DEF LockInv, LockExclusive
  <2> QED BY <2>5, <2>6, <2>7 DEF SeatInv
<1>22. ASSUME NEW w \in Game, TransferEnd(w) PROVE SeatInv'
  <2>0. PICK old \in Rooms, new \in Rooms : old = game[w].cur /\ new = game[w].nr
    BY <1>0, GameTyped
  <2> DEFINE es == members[new]
             js == game[w].joins
             seats == SeatsOf(es) \cup SeatsOf(js)
  <2>1. /\ game[w].pc = "move" /\ members[old] = {}
        /\ everReserved' = [everReserved EXCEPT ![new] = TRUE]
        /\ seatUsed' = [seatUsed EXCEPT ![new] = @ \cup seats]
        /\ reservedSeats' = [reservedSeats EXCEPT ![new] = @ + Cardinality(seats)]
        /\ pendingJoin' = [pendingJoin EXCEPT ![new] = @ \cup js]
        /\ memberCount' = [memberCount EXCEPT ![old] = 0, ![new] = Cardinality(SeatsOf(es))]
        /\ freeRooms' = freeRooms \cup {old}
        /\ GameAt(w, "rooms", 0, 0, {}, {})
        /\ UNCHANGED <<rdead, members, gameWorker, net>>
    BY <1>22, <2>0, TransferEndEffect DEF PartySeats
  <2>2. /\ old # new /\ PartySound(w) /\ new \notin freeRooms
        /\ \A v \in Game : v # w /\ game[v].pc # "rooms" => game[v].cur \notin {old, new}
        /\ gameWorker[old] = w /\ gameWorker[new] = w
    BY <2>0, <2>1, MovingHands DEF SeatInv
  <2>3. /\ \A f \in Net : ~Locked(net[f].pc)
        /\ \A v \in Game : v # w => game[v].pc # "move"
    BY <2>1 DEF LockInv, LockExclusive
  <2>4. /\ pendingJoin[old] = {} /\ seatUsed[old] = {} /\ reservedSeats[old] = 0 /\ rdead[old]
        /\ pendingJoin[new] = {} /\ seatUsed[new] = {} /\ reservedSeats[new] = 0 /\ ~rdead[new]
        /\ SeatOnce(es) /\ SeatOnce(js) /\ SeatsApart(js, es)
    BY <2>0, <2>2 DEF PartySound
  <2>5. /\ es \in SUBSET JoinEntry /\ js \in SUBSET JoinEntry /\ seats \in SUBSET Seats
        /\ Cardinality(seats) \in Nat
    <3>1. es \in SUBSET JoinEntry /\ js \in SUBSET JoinEntry
      BY <1>0, GameTyped DEF MemberTypeOK
    <3>2. seats \in SUBSET Seats
      BY <3>1, EntryTyped DEF SeatsOf
    <3> QED BY <3>1, <3>2, SeatsFinite
  <2>6. /\ BatchOf(old)' = {} /\ BatchOf(new)' = {}
        /\ \A x \in Rooms : x \notin {old, new} => BatchOf(x)' = BatchOf(x)
    BY <1>0, <2>0, <2>1, <2>2 DEF BatchOf, GameAt, MgrTypeOK
  <2>7. \A x \in Rooms : x \notin {old, new} => SameRoom(x)
    BY <1>0, <2>1, <2>3, <2>6 DEF SameRoom, GameAt, SeatTypeOK, QueueTypeOK, MemberTypeOK
  <2>8. /\ seatUsed'[new] = seats /\ reservedSeats'[new] = Cardinality(seats)
        /\ pendingJoin'[new] = js /\ memberCount'[new] = Cardinality(SeatsOf(es))
        /\ seatUsed'[old] = {} /\ reservedSeats'[old] = 0
        /\ pendingJoin'[old] = {} /\ memberCount'[old] = 0
    BY <1>0, <2>1, <2>2, <2>4, <2>5 DEF SeatTypeOK, QueueTypeOK, MemberTypeOK
  <2> HIDE DEF es, js, seats
  <2>9. RoomSound(old)'
    <3>1. Apart(old)' /\ ReserveApart(old)' /\ UsedIsClaimed(old)' /\ Expecting(old)'
      BY <2>1, <2>3, <2>6, <2>8 DEF Apart, SeatOnce, SeatsApart, ReserveApart, UsedIsClaimed,
         Claimed,
         Expecting, Locked
    <3>2. Counted(old)'
      BY <2>1, <2>8, FS_EmptySet DEF Counted
    <3>3. DeadIsUnused(old)'
      BY <2>1, <2>4, <2>8 DEF DeadIsUnused
    <3> QED BY <3>1, <3>2, <3>3 DEF RoomSound
  <2>10. RoomSound(new)'
    <3>1. members'[new] = es
      BY <2>1 DEF es
    <3>2. Apart(new)'
      BY <2>4, <2>6, <2>8, <3>1 DEF Apart, SeatOnce, SeatsApart
    <3>3. ReserveApart(new)' /\ Expecting(new)'
      BY <2>1, <2>3 DEF ReserveApart, Expecting, Locked
    <3>4. UsedIsClaimed(new)'
      BY <2>1, <2>3, <2>6, <2>8, <3>1 DEF UsedIsClaimed, Claimed, Locked, SeatsOf, seats
    <3>5. Counted(new)'
      BY <2>4, <2>5, <2>8, <3>1, SeatsCounted DEF Counted
    <3>6. DeadIsUnused(new)'
      BY <2>1, <2>2, <2>4 DEF DeadIsUnused, GameAt
    <3> QED BY <3>2, <3>3, <3>4, <3>5, <3>6 DEF RoomSound
  <2>11. ASSUME NEW x \in Rooms PROVE RoomSound(x)'
    <3>1. CASE x \notin {old, new}
      <4>1. ~Moving(x) BY <2>0, <2>3, <3>1 DEF Moving
      <4> QED BY <2>7, <3>1, <4>1, SameRoomSound DEF SeatInv
    <3> QED BY <2>9, <2>10, <3>1
  <2>12. \A v \in Game : game'[v].pc # "move"
    BY <2>1, <2>3 DEF GameAt
  <2> QED BY <2>11, <2>12 DEF SeatInv
<1>23. CASE UNCHANGED vars
  <2>1. \A r \in Rooms : SameRoom(r)
    BY <1>23 DEF SameRoom, BatchOf, vars, roomVars, seatVars, queueVars, memberVars, mgrVars,
       gameVars
  <2>2. game' = game
    BY <1>23 DEF vars, gameVars
  <2> QED BY <2>1, <2>2, EachRoom
<1>24. ASSUME NEW e \in Net, ServeStep(e) PROVE SeatInv'
  <2>1. \A r \in Rooms : SameRoom(r)
    BY <1>24, ServeEffect DEF SameRoom, BatchOf, Locked
  <2>2. game' = game
    BY <1>24, ServeEffect
  <2> QED BY <2>1, <2>2, EachRoom
<1> QED
  BY <1>1, <1>2, <1>3, <1>4, <1>5, <1>6, <1>7, <1>8, <1>9, <1>10, <1>11, <1>12,
     <1>13, <1>14, <1>15, <1>16, <1>17, <1>18, <1>19, <1>20, <1>21, <1>22, <1>23, <1>24
     DEF Next, NetStep, ServeStep, GameStep

(* Every room's seat ledger is exact at every moment, and a party on the move   *)
(* keeps its seats apart (RoomManager.cpp: Join, SkipJoin and leave in          *)
(* ProcessRoomQueues, TransferRoom).                                            *)
THEOREM SeatsSound == PatientSpec => []SeatInv
<1>1. /\ TypeOK /\ TypeOK' /\ LockInv /\ LockInv' /\ HandInv /\ HandInv' /\ SeatInv /\ [Next]_vars
      => SeatInv'
  BY SeatStep
<1> QED BY SeatInit, <1>1, TypeCorrect, LockHolder, RoomsInHand, PTL DEF Spec, PatientSpec

--------------------------------------------------------------------------------
(* Fourth layer: what Join relies on when it picks a room and a worker.         *)

(* A live room on the open list has a vacant seat.                              *)
Vacancy == \A r \in Rooms : Listed(openRooms, r) /\ ~rdead[r] => seatUsed[r] # Seats

(* The rooms of worker w.                                                       *)
RoomsOf(w) == {r \in Rooms \ freeRooms : gameWorker[r] = w}

(* roomsPerWorker counts the rooms a worker has.                                *)
Load == \A w \in Game : roomsPerWorker[w] = Cardinality(RoomsOf(w))

(* Fourth layer of the inductive invariant.                                     *)
OfferInv == Vacancy /\ Load

(* A worker has a number of rooms.                                              *)
LEMMA RoomsFinite ==
    ASSUME NEW w \in Game
    PROVE  IsFiniteSet(RoomsOf(w)) /\ Cardinality(RoomsOf(w)) \in Nat
<1>1. IsFiniteSet(Rooms)
  BY RoomAssumption, FS_Interval DEF Rooms
<1>2. RoomsOf(w) \in SUBSET Rooms
  BY DEF RoomsOf
<1> QED BY <1>1, <1>2, FS_Subset, FS_CardinalityType

(* A room has kRoomMembers seats.                                               *)
LEMMA SeatsNumber == IsFiniteSet(Seats) /\ Cardinality(Seats) = kRoomMembers
BY RoomAssumption, FS_Interval DEF Seats

(* A step that opens no room and takes no seat of an open one keeps Vacancy.    *)
LEMMA StillVacant ==
    ASSUME TypeOK, Vacancy,
           \A r \in Rooms : Listed(openRooms, r)' =>
               Listed(openRooms, r) /\ rdead'[r] = rdead[r] /\ seatUsed'[r] \subseteq seatUsed[r]
    PROVE  Vacancy'
BY DEF Vacancy, TypeOK, SeatTypeOK

(* At the start no room is open and no worker has one.                          *)
LEMMA OfferInit == Init => OfferInv
<1> SUFFICES ASSUME Init PROVE OfferInv OBVIOUS
<1>1. Vacancy
  BY DEF Init, Vacancy, Listed
<1>2. ASSUME NEW w \in Game PROVE roomsPerWorker[w] = Cardinality(RoomsOf(w))
  <2>1. RoomsOf(w) = {} BY DEF Init, RoomsOf
  <2> QED BY <2>1, FS_EmptySet DEF Init
<1> QED BY <1>1, <1>2 DEF OfferInv, Load

(* AllocRoomSlotLocked: the worker has one room more, and one is added to its   *)
(* load.                                                                        *)
LEMMA RoomGained ==
    ASSUME TypeOK, Load, NEW r \in freeRooms, NEW w \in Game,
           freeRooms' = freeRooms \ {r},
           gameWorker' = [gameWorker EXCEPT ![r] = w],
           roomsPerWorker' = [roomsPerWorker EXCEPT ![w] = @ + 1]
    PROVE  Load'
<1> SUFFICES ASSUME NEW v \in Game PROVE roomsPerWorker'[v] = Cardinality(RoomsOf(v)')
  BY DEF Load
<1>1. r \in Rooms /\ r \notin RoomsOf(v)
  BY DEF TypeOK, MgrTypeOK, RoomsOf
<1>2. RoomsOf(v)' = IF v = w THEN RoomsOf(v) \cup {r} ELSE RoomsOf(v)
  BY <1>1 DEF TypeOK, MgrTypeOK, RoomsOf
<1>3. Cardinality(RoomsOf(v) \cup {r}) = Cardinality(RoomsOf(v)) + 1
  BY <1>1, RoomsFinite, FS_AddElement
<1> QED BY <1>2, <1>3 DEF TypeOK, MgrTypeOK, Load

(* RetireRoom: the worker has one room less, and one is taken off its load.     *)
LEMMA RoomLost ==
    ASSUME TypeOK, Load, NEW r \in Rooms, r \notin freeRooms,
           freeRooms' = freeRooms \cup {r},
           gameWorker' = gameWorker,
           roomsPerWorker' = [roomsPerWorker EXCEPT ![gameWorker[r]] = @ - 1]
    PROVE  Load'
<1> SUFFICES ASSUME NEW v \in Game PROVE roomsPerWorker'[v] = Cardinality(RoomsOf(v)')
  BY DEF Load
<1>1. RoomsOf(v)' = RoomsOf(v) \ {r}
  BY DEF RoomsOf
<1>2. r \in RoomsOf(v) <=> v = gameWorker[r]
  BY DEF RoomsOf
<1>3. Cardinality(RoomsOf(v) \ {r}) = IF v = gameWorker[r] THEN Cardinality(RoomsOf(v)) - 1
                                                         ELSE Cardinality(RoomsOf(v))
  BY <1>2, RoomsFinite, FS_RemoveElement
<1> QED BY <1>1, <1>3 DEF TypeOK, MgrTypeOK, Load

(* Every step keeps the open list and the loads right.                          *)
LEMMA OfferStep ==
    TypeOK /\ LockInv /\ HandInv /\ HandInv' /\ SeatInv /\ SeatInv' /\ TypeOK'
    /\ OfferInv /\ [Next]_vars => OfferInv'
<1> SUFFICES ASSUME TypeOK, LockInv, HandInv, HandInv', SeatInv, SeatInv', TypeOK',
                    OfferInv, [Next]_vars
             PROVE  OfferInv'
  OBVIOUS
<1>0. FrameTypeOK /\ MgrTypeOK /\ SeatTypeOK /\ Vacancy /\ Load BY DEF TypeOK, OfferInv
<1>1. ASSUME NEW e \in Net, NEW s \in Sess, Accept(e, s) PROVE OfferInv'
  <2>1. Vacancy'
    BY <1>0, <1>1, AcceptEffect DEF Vacancy
  <2>2. Load'
    BY <1>0, <1>1, AcceptEffect DEF Load, RoomsOf
  <2> QED BY <2>1, <2>2 DEF OfferInv
<1>2. ASSUME NEW e \in Net, NEW s \in Sess, AcceptAborted(e, s) PROVE OfferInv'
  <2>1. Vacancy'
    BY <1>0, <1>2, AcceptAbortedEffect DEF Vacancy
  <2>2. Load'
    BY <1>0, <1>2, AcceptAbortedEffect DEF Load, RoomsOf
  <2> QED BY <2>1, <2>2 DEF OfferInv
<1>3. ASSUME NEW e \in Net, NEW s \in Sess, JoinReserve(e, s) PROVE OfferInv'
  <2>1. PICK r \in Rooms, i \in Seats, k \in 1 .. Len(openRooms) :
           /\ openRooms[k] = r /\ ~rdead[r] /\ FirstFreeSeat(r, i)
           /\ seatUsed' = [seatUsed EXCEPT ![r] = @ \cup {i}]
           /\ openRooms' = SubSeq(openRooms, 1,
                              IF reservedSeats[r] + 1 = kRoomMembers THEN k - 1 ELSE k)
    BY <1>3, JoinReserveEffect
  <2>2. UNCHANGED <<rdead, freeRooms, gameWorker, roomsPerWorker>>
    BY <1>3, JoinReserveEffect
  <2>3. Load'
    BY <1>0, <2>2 DEF Load, RoomsOf
  <2>4. PICK n \in 0 .. Len(openRooms) : /\ openRooms' = SubSeq(openRooms, 1, n)
                                        /\ n = IF reservedSeats[r] + 1 = kRoomMembers THEN k - 1 ELSE k
    BY <1>0, <2>1 DEF MgrTypeOK
  <2>5. ListedOnce(openRooms) /\ \A x \in Rooms : Listed(openRooms, x)' => Listed(openRooms, x)
    BY <1>0, <2>4, PrefixListed DEF HandInv, OpenListed, MgrTypeOK
  <2>6. ASSUME Listed(openRooms, r)' PROVE seatUsed'[r] # Seats
    <3>1. reservedSeats[r] + 1 # kRoomMembers
      <4> SUFFICES ASSUME reservedSeats[r] + 1 = kRoomMembers PROVE FALSE OBVIOUS
      <4>1. n = k - 1 BY <2>4
      <4>2. \A h \in 1 .. n : openRooms'[h] = openRooms[h] /\ h \in 1 .. Len(openRooms) /\ h # k
        BY <1>0, <2>1, <2>4, <4>1 DEF MgrTypeOK
      <4>3. Len(openRooms') = n
        BY <1>0, <2>1, <2>4, <4>1 DEF MgrTypeOK
      <4> QED BY <2>1, <2>5, <2>6, <4>2, <4>3 DEF Listed, ListedOnce
    <3>2. ~Moving(r)
      BY <1>3, JoinReserveEffect DEF Moving, MgrLockHeld
    <3>3. reservedSeats[r] = Cardinality(seatUsed[r])
      BY <3>2 DEF SeatInv, RoomSound, Counted
    <3>4. seatUsed'[r] = seatUsed[r] \cup {i} /\ i \notin seatUsed[r]
      BY <1>0, <2>1 DEF SeatTypeOK, FirstFreeSeat
    <3>5. IsFiniteSet(seatUsed[r])
      BY <1>0, SeatsFinite DEF SeatTypeOK
    <3>6. Cardinality(seatUsed'[r]) = reservedSeats[r] + 1
      BY <3>3, <3>4, <3>5, FS_AddElement
    <3> QED BY <3>1, <3>6, SeatsNumber
  <2>7. Vacancy'
    <3> SUFFICES ASSUME NEW x \in Rooms, Listed(openRooms, x)', ~rdead'[x] PROVE seatUsed'[x]
                        # Seats
      BY DEF Vacancy
    <3>1. CASE x = r BY <2>6, <3>1
    <3>2. CASE x # r BY <1>0, <2>1, <2>2, <2>5, <3>2 DEF Vacancy, SeatTypeOK
    <3> QED BY <3>1, <3>2
  <2> QED BY <2>3, <2>7 DEF OfferInv
<1>4. ASSUME NEW e \in Net, NEW s \in Sess, JoinAlloc(e, s) PROVE OfferInv'
  <2>1. PICK r \in Rooms, w \in Game : AllocRoomSlotLocked(r, w, {})
    BY <1>4, JoinAllocEffect
  <2>2. openRooms' = <<>>
    BY <1>4, JoinAllocEffect
  <2>3. Vacancy'
    BY <2>2 DEF Vacancy, Listed
  <2>4. Load'
    BY <1>0, <2>1, RoomGained DEF AllocRoomSlotLocked
  <2> QED BY <2>3, <2>4 DEF OfferInv
<1>5. ASSUME NEW e \in Net, NEW s \in Sess, JoinFail(e, s) PROVE OfferInv'
  <2>1. /\ openRooms' = <<>>
        /\ UNCHANGED <<freeRooms, gameWorker, roomsPerWorker>>
    BY <1>5, JoinFailEffect
  <2>2. Vacancy'
    BY <2>1 DEF Vacancy, Listed
  <2>3. Load'
    BY <1>0, <2>1 DEF Load, RoomsOf
  <2> QED BY <2>2, <2>3 DEF OfferInv
<1>6. ASSUME NEW e \in Net, NEW s \in Sess, Disconnect(e, s) PROVE OfferInv'
  <2>1. Vacancy'
    BY <1>0, <1>6, DisconnectEffect DEF Vacancy
  <2>2. Load'
    BY <1>0, <1>6, DisconnectEffect DEF Load, RoomsOf
  <2> QED BY <2>1, <2>2 DEF OfferInv
<1>7. ASSUME NEW e \in Net, JoinReserveFirst(e) PROVE OfferInv'
  <2>0. PICK r \in Rooms : r = net[e].room
    BY <1>0, NetTyped
  <2>1. /\ net[e].pc = "reserve0"
        /\ seatUsed' = [seatUsed EXCEPT ![r] = @ \cup {0}]
        /\ openRooms' = Append(openRooms, r)
        /\ UNCHANGED <<rdead, freeRooms, gameWorker, roomsPerWorker, game>>
    BY <1>7, <2>0, JoinReserveFirstEffect
  <2>2. ~Moving(r) /\ ~Listed(openRooms, r)
    BY <2>0, <2>1 DEF Moving, LockInv, LockExclusive, Locked, HandInv, OpenListed
  <2>3. seatUsed'[r] = {0}
    BY <1>0, <2>0, <2>1, <2>2 DEF SeatInv, RoomSound, Expecting, SeatTypeOK
  <2>4. {0} # Seats
    BY RoomAssumption DEF Seats
  <2>5. \A x \in Rooms : Listed(openRooms, x)' <=> Listed(openRooms, x) \/ x = r
    BY <1>0, <2>1, <2>2, AppendListed DEF HandInv, OpenListed, MgrTypeOK
  <2>6. Vacancy'
    BY <1>0, <2>1, <2>3, <2>4, <2>5 DEF Vacancy, SeatTypeOK
  <2>7. Load'
    BY <1>0, <2>1 DEF Load, RoomsOf
  <2> QED BY <2>6, <2>7 DEF OfferInv
<1>8. ASSUME NEW e \in Net, JoinEnter(e) PROVE OfferInv'
  <2>1. Vacancy'
    BY <1>0, <1>8, JoinEnterEffect DEF Vacancy
  <2>2. Load'
    BY <1>0, <1>8, JoinEnterEffect DEF Load, RoomsOf
  <2> QED BY <2>1, <2>2 DEF OfferInv
<1>9. ASSUME NEW e \in Net, OnSessionLeave(e) PROVE OfferInv'
  <2>1. Vacancy'
    BY <1>0, <1>9, OnSessionLeaveEffect DEF Vacancy
  <2>2. Load'
    BY <1>0, <1>9, OnSessionLeaveEffect DEF Load, RoomsOf
  <2> QED BY <2>1, <2>2 DEF OfferInv
<1>10. ASSUME NEW e \in Net, PushLeave(e) PROVE OfferInv'
  <2>1. Vacancy'
    BY <1>0, <1>10, PushLeaveEffect DEF Vacancy
  <2>2. Load'
    BY <1>0, <1>10, PushLeaveEffect DEF Load, RoomsOf
  <2> QED BY <2>1, <2>2 DEF OfferInv
<1>11. ASSUME NEW e \in Net, ReleaseNetRef(e) PROVE OfferInv'
  <2>1. Vacancy'
    BY <1>0, <1>11, ReleaseNetRefEffect DEF Vacancy
  <2>2. Load'
    BY <1>0, <1>11, ReleaseNetRefEffect DEF Load, RoomsOf
  <2> QED BY <2>1, <2>2 DEF OfferInv
<1>12. ASSUME NEW w \in Game, DrainRoomAddQ(w) PROVE OfferInv'
  <2>1. Vacancy'
    BY <1>0, <1>12, DrainRoomAddQEffect DEF Vacancy
  <2>2. Load'
    BY <1>0, <1>12, DrainRoomAddQEffect DEF Load, RoomsOf
  <2> QED BY <2>1, <2>2 DEF OfferInv
<1>13. ASSUME NEW w \in Game, NEW r \in todo[w], SwapQueues(w, r) PROVE OfferInv'
  <2>1. Vacancy'
    BY <1>0, <1>13, SwapQueuesEffect DEF Vacancy
  <2>2. Load'
    BY <1>0, <1>13, SwapQueuesEffect DEF Load, RoomsOf
  <2> QED BY <2>1, <2>2 DEF OfferInv
<1>14. ASSUME NEW w \in Game, NEW j \in game[w].joins, InstallMember(w, j) PROVE OfferInv'
  <2>1. UNCHANGED <<rdead, seatUsed, openRooms, freeRooms, gameWorker, roomsPerWorker>>
    BY <1>14, InstallMemberEffect
  <2>2. Vacancy' /\ Load'
    BY <1>0, <2>1 DEF Vacancy, Load, RoomsOf
  <2> QED BY <2>2 DEF OfferInv
<1>15. ASSUME NEW w \in Game, NEW j \in game[w].joins, SkipJoin(w, j) PROVE OfferInv'
  <2>0. PICK c \in Rooms : c = game[w].cur
    BY <1>0, GameTyped
  <2>1. /\ seatUsed' = [seatUsed EXCEPT ![c] = @ \ {j.seat}]
        /\ UNCHANGED <<rdead, openRooms, freeRooms, gameWorker, roomsPerWorker>>
    BY <1>15, <2>0, SkipJoinEffect
  <2>2. Vacancy'
    BY <1>0, <2>1, StillVacant DEF SeatTypeOK
  <2>3. Load'
    BY <1>0, <2>1 DEF Load, RoomsOf
  <2> QED BY <2>2, <2>3 DEF OfferInv
<1>16. ASSUME NEW w \in Game, NEW l \in game[w].leaves, ProcessLeave(w, l) PROVE OfferInv'
  <2>0. PICK c \in Rooms : c = game[w].cur
    BY <1>0, GameTyped
  <2>1. UNCHANGED <<rdead, openRooms, freeRooms, gameWorker, roomsPerWorker>>
    BY <1>16, ProcessLeaveEffect
  <2>2. \/ seatUsed' = seatUsed
        \/ \E m \in members[c] : seatUsed' = [seatUsed EXCEPT ![c] = @ \ {m.seat}]
    BY <1>16, <2>0, ProcessLeaveEffect
  <2>3. \A r \in Rooms : seatUsed'[r] \subseteq seatUsed[r]
    BY <1>0, <2>2 DEF SeatTypeOK
  <2>4. Vacancy'
    BY <1>0, <2>1, <2>3, StillVacant
  <2>5. Load'
    BY <1>0, <2>1 DEF Load, RoomsOf
  <2> QED BY <2>4, <2>5 DEF OfferInv
<1>17. ASSUME NEW w \in Game, DeathCheck(w) PROVE OfferInv'
  <2>1. UNCHANGED <<seatUsed, openRooms, freeRooms, gameWorker, roomsPerWorker>>
    BY <1>17, DeathCheckEffect
  <2>2. \A r \in Rooms : rdead[r] => rdead'[r]
    BY <1>0, <1>17, DeathCheckEffect DEF SeatTypeOK
  <2>3. Vacancy'
    BY <1>0, <2>1, <2>2 DEF Vacancy
  <2>4. Load'
    BY <1>0, <2>1 DEF Load, RoomsOf
  <2> QED BY <2>3, <2>4 DEF OfferInv
<1>18. ASSUME NEW w \in Game, ReapRoom(w) PROVE OfferInv'
  <2>0. PICK c \in Rooms : c = game[w].cur
    BY <1>0, GameTyped
  <2>1. /\ game[w].pc = "dying"
        /\ openRooms' = DropOpen(openRooms, c)
        /\ freeRooms' = freeRooms \cup {c}
        /\ roomsPerWorker' = [roomsPerWorker EXCEPT ![gameWorker[c]] = @ - 1]
        /\ UNCHANGED <<rdead, seatUsed, gameWorker>>
    BY <1>18, <2>0, ReapRoomEffect
  <2>2. c \notin freeRooms
    BY <2>0, <2>1, MovingHands
  <2>3. Vacancy'
    BY <1>0, <2>1, DropOpenDrops, StillVacant DEF HandInv, OpenListed, MgrTypeOK
  <2>4. Load'
    BY <1>0, <2>1, <2>2, RoomLost
  <2> QED BY <2>3, <2>4 DEF OfferInv
<1>19. ASSUME NEW w \in Game, RoomTick(w) PROVE OfferInv'
  <2>1. Vacancy'
    BY <1>0, <1>19, RoomTickEffect DEF Vacancy
  <2>2. Load'
    BY <1>0, <1>19, RoomTickEffect DEF Load, RoomsOf
  <2> QED BY <2>1, <2>2 DEF OfferInv
<1>20. ASSUME NEW w \in Game, TransferBegin(w) PROVE OfferInv'
  <2>0. PICK old \in Rooms : old = game[w].cur
    BY <1>0, GameTyped
  <2>1. PICK new \in Rooms : AllocRoomSlotLocked(new, gameWorker[old], {old})
    BY <1>20, <2>0, TransferBeginEffect
  <2>2. game[w].pc = "tick" /\ openRooms' = openRooms
    BY <1>20, TransferBeginEffect
  <2>3. gameWorker[old] \in Game /\ {old} \in SUBSET Rooms
    BY <1>0 DEF MgrTypeOK
  <2>4. /\ new \in freeRooms /\ rdead'[old]
        /\ \A x \in Rooms : x \notin {old, new}
                  => rdead'[x] = rdead[x] /\ seatUsed'[x] = seatUsed[x]
    BY <2>1, <2>3, AllocEffect
  <2>5. ~Listed(openRooms, new)
    BY <2>4 DEF HandInv, OpenListed
  <2>6. Vacancy'
    BY <1>0, <2>2, <2>4, <2>5 DEF Vacancy
  <2>7. Load'
    BY <1>0, <2>1, <2>3, RoomGained DEF AllocRoomSlotLocked
  <2> QED BY <2>6, <2>7 DEF OfferInv
<1>21. ASSUME NEW w \in Game, NEW m \in members[game[w].cur], TransferMember(w, m) PROVE OfferInv'
  <2>1. Vacancy'
    BY <1>0, <1>21, TransferMemberEffect DEF Vacancy
  <2>2. Load'
    BY <1>0, <1>21, TransferMemberEffect DEF Load, RoomsOf
  <2> QED BY <2>1, <2>2 DEF OfferInv
<1>22. ASSUME NEW w \in Game, TransferEnd(w) PROVE OfferInv'
  <2>0. PICK old \in Rooms, new \in Rooms : old = game[w].cur /\ new = game[w].nr
    BY <1>0, GameTyped
  <2> DEFINE seats == PartySeats(w)
             rest == DropOpen(openRooms, old)
  <2>1. /\ game[w].pc = "move"
        /\ seatUsed' = [seatUsed EXCEPT ![new] = @ \cup seats]
        /\ openRooms' = IF reservedSeats[new] + Cardinality(seats) < kRoomMembers
                        THEN Append(rest, new) ELSE rest
        /\ roomsPerWorker' = [roomsPerWorker EXCEPT ![gameWorker[old]] = @ - 1]
        /\ freeRooms' = freeRooms \cup {old}
        /\ UNCHANGED <<rdead, gameWorker>>
    BY <1>22, <2>0, TransferEndEffect
  <2>2. old \notin freeRooms /\ PartySound(w)
    BY <2>0, <2>1, MovingHands DEF SeatInv
  <2>3. seatUsed[new] = {} /\ reservedSeats[new] = 0
    BY <2>0, <2>2 DEF PartySound
  <2>4. /\ rest \in Seq(Rooms) /\ ListedOnce(rest)
        /\ \A x \in Rooms : Listed(rest, x) <=> Listed(openRooms, x) /\ x # old
    BY <1>0, DropOpenType, DropOpenDrops DEF HandInv, OpenListed, MgrTypeOK
  <2>5. ~Listed(rest, new)
    BY <2>0, <2>1, <2>4 DEF HandInv, OpenListed
  <2> HIDE DEF rest, seats
  <2>6. \A x \in Rooms : Listed(Append(rest, new), x) <=> Listed(rest, x) \/ x = new
    BY <2>4, <2>5, AppendListed
  <2>7. ASSUME NEW x \in Rooms, Listed(openRooms, x)', ~rdead'[x] PROVE seatUsed'[x] # Seats
    <3>1. CASE x = new
      <4>1. 0 + Cardinality(seats) < kRoomMembers
        BY <2>1, <2>3, <2>5, <2>7, <3>1
      <4>2. seatUsed'[new] = seats
        BY <1>0, <2>1, <2>3 DEF SeatTypeOK
      <4> QED BY <3>1, <4>1, <4>2, SeatsNumber, RoomAssumption
    <3>2. CASE x # new
      <4>1. Listed(openRooms, x)
        BY <2>1, <2>4, <2>6, <2>7, <3>2
      <4> QED BY <1>0, <2>1, <2>7, <3>2, <4>1 DEF Vacancy, SeatTypeOK
    <3> QED BY <3>1, <3>2
  <2>8. Load'
    BY <1>0, <2>1, <2>2, RoomLost
  <2> QED BY <2>7, <2>8 DEF OfferInv, Vacancy
<1>23. CASE UNCHANGED vars
  <2>1. Vacancy' /\ Load'
    BY <1>0, <1>23 DEF Vacancy, Load, RoomsOf, vars, roomVars, seatVars, mgrVars
  <2> QED BY <2>1 DEF OfferInv
<1>24. ASSUME NEW e \in Net, ServeStep(e) PROVE OfferInv'
  <2>1. Vacancy' /\ Load'
    BY <1>0, <1>24, ServeEffect DEF Vacancy, Load, RoomsOf
  <2> QED BY <2>1 DEF OfferInv
<1> QED
  BY <1>1, <1>2, <1>3, <1>4, <1>5, <1>6, <1>7, <1>8, <1>9, <1>10, <1>11, <1>12,
     <1>13, <1>14, <1>15, <1>16, <1>17, <1>18, <1>19, <1>20, <1>21, <1>22, <1>23, <1>24
     DEF Next, NetStep, ServeStep, GameStep

(* Join can trust the open list and the loads it balances on                    *)
(* (RoomManager.cpp: Join, AllocRoom).                                          *)
THEOREM OffersSound == PatientSpec => []OfferInv
<1>1. TypeOK /\ LockInv /\ HandInv /\ HandInv' /\ SeatInv /\ SeatInv' /\ TypeOK' /\ OfferInv /\ [Next]_vars
      => OfferInv'
  BY OfferStep
<1> QED BY OfferInit, <1>1, TypeCorrect, LockHolder, RoomsInHand, SeatsSound, PTL DEF Spec, PatientSpec

--------------------------------------------------------------------------------
(* What the layers are for.                                                     *)

(* The batches of room r are one: its own worker's.                             *)
LEMMA BatchIs ==
    ASSUME TypeOK, HandInv, NEW r \in Rooms
    PROVE  Batch(r) = BatchOf(r)
<1>1. \A w \in Game : game[w].pc # "rooms" /\ game[w].cur = r => gameWorker[r] = w
  BY MovingHands
<1>2. gameWorker[r] \in Game
  BY DEF TypeOK, MgrTypeOK
<1> QED BY <1>1, <1>2 DEF Batch, BatchOf

(* The entries of a room have different seats.                                  *)
LEMMA EntriesOnce ==
    ASSUME TypeOK, HandInv, NEW r \in Rooms, Apart(r)
    PROVE  /\ Entries(r) \in SUBSET JoinEntry /\ SeatOnce(Entries(r))
           /\ SeatsOf(Entries(r)) \in SUBSET Seats
<1>1. Entries(r) = members[r] \cup pendingJoin[r] \cup BatchOf(r)
  BY BatchIs DEF Entries
<1>2. BatchOf(r) \in SUBSET JoinEntry
  BY GameTyped DEF BatchOf, TypeOK, MgrTypeOK
<1>3. Entries(r) \in SUBSET JoinEntry
  BY <1>1, <1>2 DEF TypeOK, QueueTypeOK, MemberTypeOK
<1>4. SeatOnce(Entries(r))
  BY <1>1 DEF Apart, SeatOnce, SeatsApart
<1>5. SeatsOf(Entries(r)) \in SUBSET Seats
  BY <1>3, EntryTyped DEF SeatsOf
<1> QED BY <1>3, <1>4, <1>5

(* The seat flags, reservedSeats and memberCount of a room are exact whenever   *)
(* no transfer is moving it, however Join, ProcessRoomQueues and TransferRoom   *)
(* interleave.                                                                  *)
THEOREM SeatLedgerHolds == PatientSpec => []SeatLedger
<1>1. TypeOK /\ LockInv /\ HandInv /\ SeatInv => SeatLedger
  <2> SUFFICES ASSUME TypeOK, LockInv, HandInv, SeatInv, NEW r \in Rooms, ~Moving(r)
               PROVE  /\ seatUsed[r] = SeatsOf(Entries(r)) \cup {net[e].seat : e \in Reserving(r)}
                      /\ Cardinality(Entries(r)) + Cardinality(Reserving(r)) = Cardinality(seatUsed[r])
                      /\ reservedSeats[r] = Cardinality(seatUsed[r])
                      /\ memberCount[r] = Cardinality(members[r])
    BY DEF SeatLedger
  <2>1. /\ Apart(r) /\ ReserveApart(r) /\ UsedIsClaimed(r) /\ Counted(r)
    BY DEF SeatInv, RoomSound
  <2>2. Entries(r) = members[r] \cup pendingJoin[r] \cup BatchOf(r)
    BY BatchIs DEF Entries
  <2>3. SeatsOf(Entries(r)) \in SUBSET Seats /\ {net[e].seat : e \in Reserving(r)} \in SUBSET Seats
    BY <2>1, EntriesOnce, NetTyped DEF Reserving, TypeOK
  <2>4. seatUsed[r] = SeatsOf(Entries(r)) \cup {net[e].seat : e \in Reserving(r)}
    <3>1. seatUsed[r] \in SUBSET Seats
      BY DEF TypeOK, SeatTypeOK
    <3>2. \A i \in Seats : i \in seatUsed[r] <=> Claimed(r, i)
      BY <2>1 DEF UsedIsClaimed
    <3>3. \A i \in Seats : Claimed(r, i) <=>
            i \in SeatsOf(Entries(r)) \/ i \in {net[e].seat : e \in Reserving(r)}
      BY <2>2 DEF Claimed, SeatsOf, Reserving
    <3> QED BY <2>3, <3>1, <3>2, <3>3
  <2>5. IsFiniteSet(SeatsOf(Entries(r))) /\ Cardinality(SeatsOf(Entries(r))) \in Nat
    BY <2>3, SeatsFinite
  <2>6. Cardinality(Entries(r)) = Cardinality(SeatsOf(Entries(r)))
    BY <2>1, EntriesOnce, SeatsCounted
  <2>7. Cardinality(Entries(r)) + Cardinality(Reserving(r)) = Cardinality(seatUsed[r])
    <3>1. CASE Reserving(r) = {}
      <4>1. {net[e].seat : e \in Reserving(r)} = {} BY <3>1
      <4>2. seatUsed[r] = SeatsOf(Entries(r)) BY <2>4, <4>1
      <4>3. Cardinality(Reserving(r)) = 0 BY <3>1, FS_EmptySet
      <4> QED BY <2>5, <2>6, <4>2, <4>3
    <3>2. CASE Reserving(r) # {}
      <4>1. PICK e : e \in Reserving(r)
        BY <3>2
      <4>2. Reserving(r) = {e}
        BY <4>1 DEF Reserving, LockInv, LockExclusive, Locked
      <4>3. {net[f].seat : f \in Reserving(r)} = {net[e].seat}
        BY <4>2
      <4>4. net[e].seat \notin SeatsOf(Entries(r))
        BY <2>1, <2>2, <4>1 DEF ReserveApart, Reserving, SeatsOf
      <4>5. Cardinality(SeatsOf(Entries(r)) \cup {net[e].seat}) = Cardinality(SeatsOf(Entries(r))) + 1
        BY <2>5, <4>4, FS_AddElement
      <4>6. Cardinality(Reserving(r)) = 1
        BY <4>2, FS_Singleton
      <4> QED BY <2>4, <2>6, <4>3, <4>5, <4>6
    <3> QED BY <3>1, <3>2
  <2> QED BY <2>1, <2>4, <2>7 DEF Counted
<1> QED BY <1>1, TypeCorrect, LockHolder, RoomsInHand, SeatsSound, PTL DEF PatientSpec

(* No claim is ever left in a room that died or went back to the pool           *)
(* (RoomManager.cpp: the emptiness test of ProcessRoomQueues against a Join     *)
(* that has reserved and not yet queued).                                       *)
THEOREM NobodyStrandedHolds == PatientSpec => []NobodyStranded
<1>1. TypeOK /\ LockInv /\ HandInv /\ SeatInv => NobodyStranded
  <2> SUFFICES ASSUME TypeOK, LockInv, HandInv, SeatInv,
                      NEW r \in Rooms, rdead[r] \/ r \in freeRooms, ~Moving(r)
               PROVE  Entries(r) = {} /\ Reserving(r) = {}
    BY DEF NobodyStranded
  <2>1. Apart(r) /\ UsedIsClaimed(r) /\ DeadIsUnused(r)
    BY DEF SeatInv, RoomSound
  <2>2. \A i \in Seats : ~Claimed(r, i)
    BY <2>1 DEF DeadIsUnused, UsedIsClaimed
  <2>3. Entries(r) = members[r] \cup pendingJoin[r] \cup BatchOf(r)
    BY BatchIs DEF Entries
  <2>4. \A x \in Entries(r) : x.seat \in Seats
    BY <2>1, EntriesOnce, EntryTyped
  <2>5. Entries(r) = {}
    BY <2>2, <2>3, <2>4 DEF Claimed
  <2>6. Reserving(r) = {}
    BY <2>2, NetTyped DEF Reserving, Claimed, TypeOK
  <2> QED BY <2>5, <2>6
<1> QED BY <1>1, TypeCorrect, LockHolder, RoomsInHand, SeatsSound, PTL DEF PatientSpec

(* A room in use is in exactly one worker's hands, the loads are the numbers    *)
(* of rooms, and the open list offers only rooms that can be joined.            *)
THEOREM RoomOwnershipHolds == PatientSpec => []RoomOwnership
<1>1. TypeOK /\ HandInv /\ OfferInv => RoomOwnership
  <2> SUFFICES ASSUME TypeOK, HandInv, OfferInv PROVE RoomOwnership
    OBVIOUS
  <2>1. OpenListSound
    <3> SUFFICES ASSUME NEW i \in 1 .. Len(openRooms), NEW k \in 1 .. Len(openRooms)
                 PROVE  /\ openRooms[i] = openRooms[k] => i = k
                        /\ openRooms[i] \notin freeRooms
                        /\ ~rdead[openRooms[i]] => seatUsed[openRooms[i]] # Seats
      BY DEF OpenListSound
    <3>1. openRooms[i] \in Rooms /\ Listed(openRooms, openRooms[i])
      BY DEF TypeOK, MgrTypeOK, Listed
    <3> QED BY <3>1 DEF HandInv, OpenListed, ListedOnce, OfferInv, Vacancy
  <2>2. ASSUME NEW w \in Game
        PROVE  LET held == addQ[w] \cup myRooms[w]
                             \cup (IF game[w].pc = "move" THEN {game[w].nr} ELSE {})
               IN  /\ held = {r \in Rooms \ freeRooms : gameWorker[r] = w}
                   /\ addQ[w] \cap myRooms[w] = {}
                   /\ todo[w] \subseteq myRooms[w]
                   /\ roomsPerWorker[w] = Cardinality(held)
    <3> DEFINE held == addQ[w] \cup myRooms[w]
                         \cup (IF game[w].pc = "move" THEN {game[w].nr} ELSE {})
    <3>1. held \in SUBSET Rooms
      BY GameTyped DEF TypeOK, MgrTypeOK, FrameTypeOK
    <3>2. \A r \in Rooms : r \in held <=> InHand(w, r)
      BY DEF InHand
    <3>3. held = RoomsOf(w)
      BY <3>1, <3>2 DEF HandInv, OneHand, RoomsOf
    <3>4. roomsPerWorker[w] = Cardinality(held)
      BY <3>3 DEF OfferInv, Load
    <3>5. addQ[w] \cap myRooms[w] = {} /\ todo[w] \subseteq myRooms[w]
      BY DEF HandInv, HandsApart, TypeOK, MgrTypeOK, FrameTypeOK
    <3> QED BY <3>3, <3>4, <3>5 DEF RoomsOf
  <2> QED BY <2>1, <2>2 DEF RoomOwnership
<1> QED BY <1>1, TypeCorrect, RoomsInHand, OffersSound, PTL DEF PatientSpec

================================================================================
