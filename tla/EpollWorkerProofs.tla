--------------------------- MODULE EpollWorkerProofs ---------------------------
(* The send path, for every number of epoll workers, sessions, connections      *)
(* and snapshots: its types, who holds a session, that no wakeup is lost,       *)
(* what a shutdown leaves, and that it implements Outbox.                       *)
EXTENDS EpollWorker, TLAPS

--------------------------------------------------------------------------------
(* Types.                                                                       *)

(* The program counters of an epoll worker.                                     *)
Pc == {"idle", "setFd", "setOwner", "parse", "reply", "flush", "drop", "recheck", "cleanup",
  "exited"}

(* A frame that gets another program counter, or session, is a frame.           *)
LEMMA FrameTyped ==
    ASSUME NEW x \in NetFrame, NEW p \in Pc
    PROVE  /\ [x EXCEPT !.pc = p] \in NetFrame
           /\ \A s \in Sess : [x EXCEPT !.pc = p, !.sess = s] \in NetFrame
BY DEF NetFrame, Pc

(* Where a worker returns to is a frame.                                        *)
LEMMA ReturnTyped ==
    ASSUME TypeOK, NEW e \in Net
    PROVE  Return(e) \in NetFrame
<1>1. net[e] \in NetFrame /\ NoSess \in Sess
  BY SessAssumption DEF TypeOK, NoSess
<1> QED BY <1>1 DEF Return, Idle, NetFrame

(* SessionPool::Alloc keeps the pool well typed.                                *)
LEMMA AllocTyped ==
    ASSUME PoolTypeOK, NEW s \in Sess, Alloc(s)
    PROVE  PoolTypeOK'
BY DEF PoolTypeOK, Alloc

(* SessionPool::Release keeps the pool well typed.                              *)
LEMMA ReleaseTyped ==
    ASSUME PoolTypeOK, NEW s \in Sess, Release(s)
    PROVE  PoolTypeOK'
<1>1. refs' \in [Sess -> Int] /\ dead' \in [Sess -> BOOLEAN]
  BY DEF PoolTypeOK, Release
<1>2. free' \subseteq Sess /\ gen' \in [Sess -> Nat]
  BY DEF PoolTypeOK, Release
<1> QED BY <1>1, <1>2 DEF PoolTypeOK

(* SessionPool::AddRef keeps the pool well typed.                               *)
LEMMA AddRefTyped ==
    ASSUME PoolTypeOK, NEW s \in Sess, AddRef(s)
    PROVE  PoolTypeOK'
BY DEF PoolTypeOK, AddRef

(* TypeOK in parts.                                                             *)
SockTypeOK == fd \in [Sess -> BOOLEAN] /\ owner \in [Sess -> Net] /\ wantWrite \in [Sess -> BOOLEAN]

RingTypeOK ==
    /\ sendQ \in [Sess -> Seq(Msg)] /\ \A s \in Sess : Len(sendQ[s]) <= RingCap
    /\ kbuf \in [Sess -> 0 .. KernelCap]

OwnTypeOK == mySessions \in [Net -> SUBSET Sess] /\ dirty \in [Net -> SUBSET Sess]
  /\ net \in [Net -> NetFrame]

RoomTypeOK ==
    /\ inRoom \in [Sess -> BOOLEAN]
    /\ members \subseteq Member /\ leaving \subseteq [sess : Sess, gen : Nat]
    /\ game \in [pc : {"idle", "enqueue", "mark"}, m : SUBSET Member]

StopTypeOK == main \in {"serving", "net"} /\ running \in [Net -> BOOLEAN]

BoundTypeOK == conns \in 0 .. MaxConns /\ snaps \in 0 .. MaxSnaps

(* The parts make TypeOK.                                                       *)
LEMMA TypeParts ==
    /\ TypeOK <=> /\ PoolTypeOK /\ SockTypeOK /\ RingTypeOK /\ OwnTypeOK /\ RoomTypeOK
                  /\ StopTypeOK /\ BoundTypeOK
BY DEF TypeOK, SockTypeOK, RingTypeOK, OwnTypeOK, RoomTypeOK, StopTypeOK, BoundTypeOK

(* And so they do after a step.                                                 *)
LEMMA TypePartsNext ==
    ASSUME PoolTypeOK', SockTypeOK', RingTypeOK', OwnTypeOK', RoomTypeOK', StopTypeOK',
           BoundTypeOK'
    PROVE  TypeOK'
BY DEF TypeOK, SockTypeOK, RingTypeOK, OwnTypeOK, RoomTypeOK, StopTypeOK, BoundTypeOK

(* Enqueue on a ring with room leaves a ring of at most kSendRingSize           *)
(* (CRingBufferMT).                                                             *)
LEMMA EnqueueTyped ==
    ASSUME RingTypeOK, NEW s \in Sess, NEW kind \in {"REPLY", "SNAPSHOT"}, NEW g \in Nat,
           HasRoom(s), Enqueue(s, kind, g), kbuf' = kbuf
    PROVE  RingTypeOK'
<1> DEFINE x == [kind |-> kind, gen |-> g]
<1>1. x \in Msg
  BY DEF Msg
<1> HIDE DEF x
<1>2. Append(sendQ[s], x) \in Seq(Msg) /\ Len(Append(sendQ[s], x)) <= RingCap
  BY <1>1, CapAssumption DEF RingTypeOK, HasRoom
<1>3. sendQ' = [sendQ EXCEPT ![s] = Append(sendQ[s], x)]
  BY DEF Enqueue, x
<1> QED BY <1>2, <1>3 DEF RingTypeOK

(* The first half of Disconnect keeps the types.                                *)
LEMMA DisconnectTyped ==
    ASSUME TypeOK, NEW e \in Net, NEW s \in Sess, Disconnect(e, s)
    PROVE  /\ PoolTypeOK' /\ SockTypeOK' /\ net' \in [Net -> NetFrame]
           /\ kbuf' \in [Sess -> 0 .. KernelCap]
<1>1. PoolTypeOK'
  BY DEF Disconnect, TypeOK, PoolTypeOK
<1>2. SockTypeOK'
  BY DEF Disconnect, TypeOK, SockTypeOK, PoolTypeOK
<1>3. kbuf' \in [Sess -> 0 .. KernelCap]
  BY CapAssumption DEF Disconnect, TypeOK
<1>4. net' \in [Net -> NetFrame]
  <2>1. Return(e) \in NetFrame /\ [net[e] EXCEPT !.pc = "drop", !.sess = s] \in NetFrame
    <3>1. net[e] \in NetFrame /\ "drop" \in Pc
      BY DEF TypeOK, Pc
    <3> QED BY <3>1, ReturnTyped, FrameTyped
  <2> QED BY <2>1 DEF Disconnect, TypeOK
<1> QED BY <1>1, <1>2, <1>3, <1>4

(* SendBytes keeps the types, whether the ring has room or not.                 *)
LEMMA SendBytesTyped ==
    ASSUME TypeOK, NEW e \in Net, SendBytes(e)
    PROVE  PoolTypeOK' /\ SockTypeOK' /\ RingTypeOK' /\ net' \in [Net -> NetFrame]
<1>1. net[e].sess \in Sess /\ gen[net[e].sess] \in Nat
  BY DEF TypeOK, NetFrame, PoolTypeOK
<1>2. CASE /\ HasRoom(net[e].sess) /\ Enqueue(net[e].sess, "REPLY", gen[net[e].sess])
           /\ net' = [net EXCEPT ![e].pc = "flush"] /\ UNCHANGED <<poolVars, sockVars, kbuf>>
  <2>1. RingTypeOK'
    BY <1>1, <1>2, EnqueueTyped, TypeParts
  <2>2. net' \in [Net -> NetFrame]
    <3>1. net[e] \in NetFrame /\ "flush" \in Pc
      BY DEF TypeOK, Pc
    <3>2. [net[e] EXCEPT !.pc = "flush"] \in NetFrame
      BY <3>1, FrameTyped
    <3> QED BY <1>2, <3>2 DEF TypeOK
  <2>3. PoolTypeOK' /\ SockTypeOK'
    BY <1>2 DEF TypeOK, PoolTypeOK, SockTypeOK, poolVars, sockVars
  <2> QED BY <2>1, <2>2, <2>3
<1>3. CASE Disconnect(e, net[e].sess) /\ UNCHANGED sendQ
  BY <1>1, <1>3, DisconnectTyped DEF TypeOK, RingTypeOK
<1> QED BY <1>2, <1>3 DEF SendBytes

(* The types hold at the start.                                                 *)
LEMMA TypeInit == Init => TypeOK
<1> SUFFICES ASSUME Init PROVE TypeOK
  OBVIOUS
<1>1. PoolTypeOK
  BY DEF Init, PoolInit, PoolTypeOK
<1>2. SockTypeOK /\ RingTypeOK /\ StopTypeOK /\ BoundTypeOK
  <2>1. (CHOOSE e \in Net : TRUE) \in Net /\ <<>> \in Seq(Msg) /\ Len(<<>>) = 0
    BY SessAssumption
  <2>2. SockTypeOK
    BY <2>1 DEF Init, SockTypeOK
  <2>3. RingTypeOK
    BY <2>1, CapAssumption DEF Init, RingTypeOK
  <2> QED BY <2>2, <2>3, BoundAssumption DEF Init, StopTypeOK, BoundTypeOK
<1>3. OwnTypeOK /\ RoomTypeOK
  <2>1. NoSess \in Sess
    BY SessAssumption DEF NoSess
  <2> QED BY <2>1 DEF Init, OwnTypeOK, RoomTypeOK, NetFrame, Idle, GameIdle
<1> QED BY <1>1, <1>2, <1>3, TypeParts

(* The frame of a worker, field by field.                                       *)
LEMMA NetTyped ==
    ASSUME TypeOK, NEW e \in Net
    PROVE  /\ net[e] \in NetFrame /\ net[e].sess \in Sess /\ net[e].bits \in SUBSET Sess
           /\ net[e].ret \in {"loop", "parse", "cleanup"} /\ net[e].pc \in Pc
BY DEF TypeOK, NetFrame, Pc

(* A frame that starts a new round is a frame.                                  *)
LEMMA IdleTyped ==
    ASSUME NEW b \in SUBSET Sess
    PROVE  /\ Idle(b) \in NetFrame
           /\ \A p \in Pc, s \in Sess : [Idle(b) EXCEPT !.pc = p, !.sess = s] \in NetFrame
           /\ \A p \in Pc, s \in Sess, t \in {"loop", "parse", "cleanup"} :
                 [Idle(b) EXCEPT !.pc = p, !.sess = s, !.ret = t] \in NetFrame
           /\ \A p \in Pc, t \in {"loop", "parse", "cleanup"} :
                 [Idle(b) EXCEPT !.pc = p, !.ret = t] \in NetFrame
<1>1. NoSess \in Sess
  BY SessAssumption DEF NoSess
<1> QED BY <1>1 DEF Idle, NetFrame, Pc

(* A step that changes one frame and nothing else keeps the types.              *)
LEMMA FrameStepTyped ==
    ASSUME TypeOK, NEW e \in Net, NEW x \in NetFrame, net' = [net EXCEPT ![e] = x],
           UNCHANGED <<poolVars, conns, snaps, sockVars, sendQ, roomVars, kbuf, mySessions, dirty,
                       game, stopVars>>
    PROVE  TypeOK'
BY DEF TypeOK, PoolTypeOK, poolVars, sockVars, roomVars, stopVars

(* Every step of an epoll worker keeps the types.                               *)
LEMMA TypeStepNet ==
    ASSUME TypeOK, NEW e \in Net, NetEvent(e) \/ NetContinues(e)
    PROVE  TypeOK'
<1>0. /\ PoolTypeOK /\ SockTypeOK /\ RingTypeOK /\ OwnTypeOK /\ RoomTypeOK /\ StopTypeOK
           /\ BoundTypeOK
      /\ \A p \in {"idle", "setFd", "setOwner", "parse", "reply", "flush", "drop", "recheck",
                   "cleanup", "exited"} : p \in Pc
      /\ {} \in SUBSET Sess
  BY TypeParts DEF Pc
<1>1. ASSUME NEW s \in Sess, AcceptAlloc(e, s) PROVE TypeOK'
  <2>1. PoolTypeOK'
    BY <1>0, <1>1, AllocTyped DEF AcceptAlloc
  <2>2. SockTypeOK'
    BY <1>0, <1>1 DEF AcceptAlloc, SockTypeOK
  <2>3. RingTypeOK'
    <3>1. <<>> \in Seq(Msg) /\ Len(<<>>) = 0
      OBVIOUS
    <3> QED BY <1>0, <1>1, <3>1, CapAssumption DEF AcceptAlloc, RingTypeOK, ClearRings
  <2>4. OwnTypeOK'
    <3>1. [Idle({}) EXCEPT !.pc = "setFd", !.sess = s] \in NetFrame
      BY <1>0, IdleTyped
    <3> QED BY <1>0, <1>1, <3>1 DEF AcceptAlloc, OwnTypeOK
  <2>5. RoomTypeOK' /\ StopTypeOK' /\ BoundTypeOK'
    BY <1>0, <1>1, BoundAssumption DEF AcceptAlloc, RoomTypeOK, StopTypeOK, BoundTypeOK,
       stopVars
  <2> QED BY <2>1, <2>2, <2>3, <2>4, <2>5, TypePartsNext
<1>2. CASE AcceptFd(e)
  <2>1. SockTypeOK'
    BY <1>0, <1>2 DEF AcceptFd, SockTypeOK
  <2>2. OwnTypeOK'
    <3>1. [net[e] EXCEPT !.pc = "setOwner"] \in NetFrame
      BY <1>0, NetTyped, FrameTyped
    <3> QED BY <1>0, <1>2, <3>1 DEF AcceptFd, OwnTypeOK
  <2>3. PoolTypeOK' /\ RingTypeOK' /\ RoomTypeOK' /\ StopTypeOK' /\ BoundTypeOK'
    BY <1>0, <1>2 DEF AcceptFd, PoolTypeOK, RingTypeOK, RoomTypeOK, StopTypeOK, BoundTypeOK,
       poolVars,
                      roomVars, stopVars
  <2> QED BY <2>1, <2>2, <2>3, TypePartsNext
<1>3. CASE AcceptFails(e)
  <2>1. SockTypeOK' /\ PoolTypeOK'
    BY <1>0, <1>3 DEF AcceptFails, SockTypeOK, PoolTypeOK
  <2>2. OwnTypeOK'
    <3>1. [net[e] EXCEPT !.pc = "drop"] \in NetFrame
      BY <1>0, NetTyped, FrameTyped
    <3> QED BY <1>0, <1>3, <3>1 DEF AcceptFails, OwnTypeOK
  <2>3. RingTypeOK' /\ RoomTypeOK' /\ StopTypeOK' /\ BoundTypeOK'
    BY <1>0, <1>3 DEF AcceptFails, RingTypeOK, RoomTypeOK, StopTypeOK, BoundTypeOK, roomVars,
       stopVars
  <2> QED BY <2>1, <2>2, <2>3, TypePartsNext
<1>4. CASE AcceptOwner(e)
  <2>1. SockTypeOK'
    BY <1>0, <1>4 DEF AcceptOwner, SockTypeOK
  <2>2. OwnTypeOK'
    <3>1. Idle({}) \in NetFrame /\ net[e].sess \in Sess
      BY <1>0, NetTyped, IdleTyped
    <3> QED BY <1>0, <1>4, <3>1 DEF AcceptOwner, OwnTypeOK
  <2>3. PoolTypeOK' /\ RingTypeOK' /\ RoomTypeOK' /\ StopTypeOK' /\ BoundTypeOK'
    BY <1>0, <1>4 DEF AcceptOwner, PoolTypeOK, RingTypeOK, RoomTypeOK, StopTypeOK,
       BoundTypeOK, poolVars,
                      roomVars, stopVars
  <2> QED BY <2>1, <2>2, <2>3, TypePartsNext
<1>5. ASSUME NEW s \in Sess, HandleReadable(e, s) PROVE TypeOK'
  <2>1. [Idle({}) EXCEPT !.pc = "parse", !.sess = s, !.ret = "parse"] \in NetFrame
    BY <1>0, IdleTyped
  <2> QED BY <1>5, <2>1, FrameStepTyped DEF HandleReadable
<1>6. ASSUME NEW s \in Sess, Disconnect(e, s),
             UNCHANGED <<conns, snaps, sendQ, roomVars, mySessions, dirty, game, stopVars>>
      PROVE  TypeOK'
  <2>1. PoolTypeOK' /\ SockTypeOK' /\ net' \in [Net -> NetFrame]
          /\ kbuf' \in [Sess -> 0 .. KernelCap]
    BY <1>6, DisconnectTyped
  <2>2. RingTypeOK' /\ OwnTypeOK' /\ RoomTypeOK' /\ StopTypeOK' /\ BoundTypeOK'
    BY <1>0, <1>6, <2>1 DEF RingTypeOK, OwnTypeOK, RoomTypeOK, StopTypeOK, BoundTypeOK,
       roomVars, stopVars
  <2> QED BY <2>1, <2>2, TypePartsNext
<1>7. ASSUME NEW s \in Sess, HandleWritable(e, s) PROVE TypeOK'
  <2>1. [Idle({}) EXCEPT !.pc = "flush", !.sess = s] \in NetFrame
    BY <1>0, IdleTyped
  <2> QED BY <1>7, <2>1, FrameStepTyped DEF HandleWritable
<1>8. CASE ParseDone(e)
  <2>1. Idle({}) \in NetFrame
    BY <1>0, IdleTyped
  <2> QED BY <1>8, <2>1, FrameStepTyped DEF ParseDone
<1>9. CASE DispatchJoin(e)
  <2>0. net[e].sess \in Sess /\ gen[net[e].sess] \in Nat /\ owner[net[e].sess] \in Net
    BY <1>0, NetTyped DEF PoolTypeOK, SockTypeOK
  <2>1. PoolTypeOK'
    BY <1>0, <1>9, <2>0, AddRefTyped DEF DispatchJoin
  <2>2. OwnTypeOK'
    <3>1. [net[e] EXCEPT !.pc = "reply"] \in NetFrame
      BY <1>0, NetTyped, FrameTyped
    <3> QED BY <1>0, <1>9, <3>1 DEF DispatchJoin, OwnTypeOK
  <2>3. RoomTypeOK'
    <3>1. [sess |-> net[e].sess, gen |-> gen[net[e].sess], owner |-> owner[net[e].sess]] \in Member
      BY <2>0 DEF Member
    <3> QED BY <1>0, <1>9, <3>1 DEF DispatchJoin, RoomTypeOK
  <2>4. SockTypeOK' /\ RingTypeOK' /\ StopTypeOK' /\ BoundTypeOK'
    BY <1>0, <1>9 DEF DispatchJoin, SockTypeOK, RingTypeOK, StopTypeOK, BoundTypeOK, sockVars,
       stopVars
  <2> QED BY <2>1, <2>2, <2>3, <2>4, TypePartsNext
<1>10. ASSUME SendBytes(e), UNCHANGED <<conns, snaps, roomVars, mySessions, dirty, game, stopVars>>
       PROVE  TypeOK'
  <2>1. PoolTypeOK' /\ SockTypeOK' /\ RingTypeOK' /\ net' \in [Net -> NetFrame]
    BY <1>10, SendBytesTyped
  <2>2. OwnTypeOK' /\ RoomTypeOK' /\ StopTypeOK' /\ BoundTypeOK'
    BY <1>0, <1>10, <2>1 DEF OwnTypeOK, RoomTypeOK, StopTypeOK, BoundTypeOK, roomVars, stopVars
  <2> QED BY <2>1, <2>2, TypePartsNext
<1>11. CASE FlushSend(e)
  <2> DEFINE s == net[e].sess
             n == Written(s)
  <2>0. s \in Sess
    BY NetTyped
  <2>1. /\ sendQ' = [sendQ EXCEPT ![s] = SubSeq(@, n + 1, Len(@))]
        /\ kbuf' = [kbuf EXCEPT ![s] = @ + n]
        /\ wantWrite' = [wantWrite EXCEPT ![s] = sendQ[s] # <<>> /\ Armed(s, n)]
        /\ net' = net \/ net' = [net EXCEPT ![e] = Return(e)]
        /\ UNCHANGED <<poolVars, conns, snaps, fd, owner, roomVars, mySessions, dirty, game,
             stopVars>>
    BY <1>11 DEF FlushSend
  <2>2. n \in Nat /\ n <= Len(sendQ[s]) /\ kbuf[s] + n \in 0 .. KernelCap
    BY <1>0, <2>0, CapAssumption DEF Written, Min2, RingTypeOK
  <2> HIDE DEF n
  <2>3. RingTypeOK'
    <3>1. SubSeq(sendQ[s], n + 1, Len(sendQ[s])) \in Seq(Msg)
      BY <1>0, <2>0, <2>2 DEF RingTypeOK
    <3>2. Len(SubSeq(sendQ[s], n + 1, Len(sendQ[s]))) <= RingCap
      BY <1>0, <2>0, <2>2, CapAssumption DEF RingTypeOK
    <3> HIDE DEF s
    <3> QED BY <1>0, <2>0, <2>1, <2>2, <3>1, <3>2 DEF RingTypeOK
  <2>4. OwnTypeOK'
    BY <1>0, <2>1, ReturnTyped DEF OwnTypeOK
  <2>5. SockTypeOK'
    <3>1. (sendQ[s] # <<>> /\ Armed(s, n)) \in BOOLEAN
      OBVIOUS
    <3> HIDE DEF s
    <3> QED BY <1>0, <2>0, <2>1, <3>1 DEF SockTypeOK
  <2>6. PoolTypeOK' /\ RoomTypeOK' /\ StopTypeOK' /\ BoundTypeOK'
    BY <1>0, <2>1 DEF PoolTypeOK, RoomTypeOK, StopTypeOK, BoundTypeOK, poolVars, roomVars,
       stopVars
  <2> QED BY <2>3, <2>4, <2>5, <2>6, TypePartsNext
<1>12. CASE Drop(e)
  <2>0. net[e].sess \in Sess /\ gen[net[e].sess] \in Nat
    BY <1>0, NetTyped DEF PoolTypeOK
  <2>1. PoolTypeOK'
    BY <1>0, <1>12, <2>0, ReleaseTyped DEF Drop
  <2>2. OwnTypeOK'
    BY <1>0, <1>12, ReturnTyped DEF Drop, OwnTypeOK
  <2>3. RoomTypeOK'
    BY <1>0, <1>12, <2>0 DEF Drop, RoomTypeOK
  <2>4. SockTypeOK' /\ RingTypeOK' /\ StopTypeOK' /\ BoundTypeOK'
    BY <1>0, <1>12 DEF Drop, SockTypeOK, RingTypeOK, StopTypeOK, BoundTypeOK, sockVars, stopVars
  <2> QED BY <2>1, <2>2, <2>3, <2>4, TypePartsNext
<1>13. CASE Recheck(e)
  <2>1. (IF dead[net[e].sess] THEN Idle({}) ELSE [net[e] EXCEPT !.pc = "parse"]) \in NetFrame
    BY <1>0, IdleTyped, NetTyped, FrameTyped
  <2> QED BY <1>13, <2>1, FrameStepTyped DEF Recheck
<1>14. CASE DrainTake(e)
  <2>1. OwnTypeOK'
    <3>1. Idle(dirty[e]) \in NetFrame
      BY <1>0, IdleTyped DEF OwnTypeOK
    <3> QED BY <1>0, <1>14, <3>1 DEF DrainTake, OwnTypeOK
  <2>2. PoolTypeOK' /\ SockTypeOK' /\ RingTypeOK' /\ RoomTypeOK' /\ StopTypeOK' /\ BoundTypeOK'
    BY <1>0, <1>14 DEF DrainTake, PoolTypeOK, SockTypeOK, RingTypeOK, RoomTypeOK, StopTypeOK,
       BoundTypeOK,
                       poolVars, sockVars, roomVars, stopVars
  <2> QED BY <2>1, <2>2, TypePartsNext
<1>15. CASE LoopExit(e)
  <2>1. [Idle(Mine(e)) EXCEPT !.pc = "cleanup", !.ret = "cleanup"] \in NetFrame
    BY <1>0, IdleTyped DEF OwnTypeOK, Mine
  <2> QED BY <1>15, <2>1, FrameStepTyped DEF LoopExit
<1>16. CASE CleanupDone(e)
  <2>1. [net[e] EXCEPT !.pc = "exited"] \in NetFrame
    BY <1>0, NetTyped, FrameTyped
  <2> QED BY <1>16, <2>1, FrameStepTyped DEF CleanupDone
<1>17. ASSUME NEW s \in Sess, CleanupCut(e, s) PROVE TypeOK'
  <2>1. PoolTypeOK' /\ SockTypeOK'
    BY <1>0, <1>17 DEF CleanupCut, PoolTypeOK, SockTypeOK
  <2>2. OwnTypeOK'
    <3> DEFINE x == [net[e] EXCEPT !.bits = @ \ {s}, !.sess = s,
                 !.pc = IF dead[s] THEN "cleanup" ELSE "drop"]
    <3>1. x \in NetFrame
      BY NetTyped DEF NetFrame
    <3>2. net' = [net EXCEPT ![e] = x]
      BY <1>0, <1>17 DEF CleanupCut, OwnTypeOK
    <3> HIDE DEF x
    <3> QED BY <1>0, <1>17, <3>1, <3>2 DEF CleanupCut, OwnTypeOK
  <2>3. RingTypeOK'
    BY <1>0, <1>17, CapAssumption DEF CleanupCut, RingTypeOK
  <2>4. RoomTypeOK' /\ StopTypeOK' /\ BoundTypeOK'
    BY <1>0, <1>17 DEF CleanupCut, RoomTypeOK, StopTypeOK, BoundTypeOK, roomVars, stopVars
  <2> QED BY <2>1, <2>2, <2>3, <2>4, TypePartsNext
<1>18. ASSUME NEW s \in Sess, DrainVisit(e, s) PROVE TypeOK'
  <2>1. net[e].bits \ {s} \in SUBSET Sess
    BY NetTyped
  <2>2. (IF DrainTest(e, s) THEN [Idle(net[e].bits \ {s}) EXCEPT !.pc = "flush", !.sess = s]
                            ELSE Idle(net[e].bits \ {s})) \in NetFrame
    BY <1>0, <2>1, IdleTyped
  <2> QED BY <1>18, <2>2, FrameStepTyped DEF DrainVisit
<1>19. ASSUME NEW s \in Sess, HandleHangup(e, s) PROVE TypeOK'
  BY <1>6, <1>19 DEF HandleHangup
<1>20. CASE DispatchBad(e)
  BY <1>6, <1>20, NetTyped DEF DispatchBad
<1>21. CASE ReplyJoinOk(e)
  BY <1>10, <1>21 DEF ReplyJoinOk
<1>22. CASE DispatchReply(e)
  BY <1>10, <1>22 DEF DispatchReply
<1>23. CASE FlushFails(e)
  BY <1>6, <1>23, NetTyped DEF FlushFails
<1> QED BY <1>1, <1>2, <1>3, <1>4, <1>5, <1>7, <1>8, <1>9, <1>11, <1>12, <1>13, <1>14, <1>15,
           <1>16,
           <1>17, <1>18, <1>19, <1>20, <1>21, <1>22, <1>23 DEF NetEvent, NetContinues

(* Every step keeps the types.                                                  *)
LEMMA TypeStep == TypeOK /\ [Next]_vars => TypeOK'
<1> SUFFICES ASSUME TypeOK, [Next]_vars PROVE TypeOK'
  OBVIOUS
<1>0. PoolTypeOK /\ SockTypeOK /\ RingTypeOK /\ OwnTypeOK /\ RoomTypeOK /\ StopTypeOK /\ BoundTypeOK
  BY TypeParts
<1>1. ASSUME NEW m \in members, GameTest(m) PROVE TypeOK'
  <2>1. PoolTypeOK' /\ SockTypeOK' /\ RingTypeOK' /\ OwnTypeOK' /\ StopTypeOK'
    BY <1>0, <1>1 DEF GameTest, PoolTypeOK, SockTypeOK, RingTypeOK, OwnTypeOK, StopTypeOK,
       poolVars,
                      sockVars, stopVars
  <2>2. RoomTypeOK' /\ BoundTypeOK'
    BY <1>0, <1>1, BoundAssumption DEF GameTest, RoomTypeOK, BoundTypeOK, roomVars
  <2> QED BY <2>1, <2>2, TypePartsNext
<1>2. CASE GameEnqueue
  <2>1. PICK m \in game.m :
          /\ IF HasRoom(m.sess)
               THEN Enqueue(m.sess, "SNAPSHOT", m.gen) /\ game' = [game EXCEPT !.pc = "mark"]
               ELSE UNCHANGED sendQ /\ game' = GameIdle
          /\ UNCHANGED <<poolVars, conns, snaps, sockVars, roomVars, kbuf, mySessions, dirty,
               net, stopVars>>
    BY <1>2 DEF GameEnqueue
  <2>2. m.sess \in Sess /\ m.gen \in Nat
    BY <1>0 DEF RoomTypeOK, Member
  <2>3. RingTypeOK'
    <3>1. CASE HasRoom(m.sess)
      <4>1. Enqueue(m.sess, "SNAPSHOT", m.gen) /\ kbuf' = kbuf
        BY <2>1, <3>1
      <4> QED BY <1>0, <2>2, <3>1, <4>1, EnqueueTyped
    <3>2. CASE ~HasRoom(m.sess)
      BY <1>0, <2>1, <3>2 DEF RingTypeOK
    <3> QED BY <3>1, <3>2
  <2>4. RoomTypeOK'
    BY <1>0, <2>1 DEF RoomTypeOK, GameIdle, roomVars
  <2>5. PoolTypeOK' /\ SockTypeOK' /\ OwnTypeOK' /\ StopTypeOK' /\ BoundTypeOK'
    BY <1>0, <2>1 DEF PoolTypeOK, SockTypeOK, OwnTypeOK, StopTypeOK, BoundTypeOK, poolVars,
       sockVars, stopVars
  <2> QED BY <2>3, <2>4, <2>5, TypePartsNext
<1>3. CASE GameMark
  <2>1. PICK m \in game.m :
          /\ dirty' = [dirty EXCEPT ![MarkTarget(m)] = @ \cup {m.sess}]
          /\ game' = GameIdle
          /\ UNCHANGED <<poolVars, conns, snaps, sockVars, sendQ, roomVars, kbuf, mySessions,
               net, stopVars>>
    BY <1>3 DEF GameMark
  <2>2. m.sess \in Sess /\ m.owner \in Net
    BY <1>0 DEF RoomTypeOK, Member
  <2>3. OwnTypeOK' /\ RoomTypeOK'
    BY <1>0, <2>1, <2>2 DEF OwnTypeOK, RoomTypeOK, GameIdle, MarkTarget, roomVars
  <2>4. PoolTypeOK' /\ SockTypeOK' /\ RingTypeOK' /\ StopTypeOK' /\ BoundTypeOK'
    BY <1>0, <2>1 DEF PoolTypeOK, SockTypeOK, RingTypeOK, StopTypeOK, BoundTypeOK, poolVars,
       sockVars, stopVars
  <2> QED BY <2>3, <2>4, TypePartsNext
<1>4. ASSUME NEW m \in members, GameLeave(m) PROVE TypeOK'
  <2>1. m.sess \in Sess
    BY <1>0 DEF RoomTypeOK, Member
  <2>2. PoolTypeOK'
    BY <1>0, <1>4, <2>1, ReleaseTyped DEF GameLeave
  <2>3. SockTypeOK' /\ RingTypeOK' /\ OwnTypeOK' /\ RoomTypeOK' /\ StopTypeOK' /\ BoundTypeOK'
    BY <1>0, <1>4 DEF GameLeave, SockTypeOK, RingTypeOK, OwnTypeOK, RoomTypeOK, StopTypeOK,
       BoundTypeOK,
                      sockVars, stopVars
  <2> QED BY <2>2, <2>3, TypePartsNext
<1>5. CASE StopGame
  <2>1. PoolTypeOK' /\ SockTypeOK' /\ RingTypeOK' /\ OwnTypeOK' /\ RoomTypeOK' /\ StopTypeOK'
          /\ BoundTypeOK'
    BY <1>0, <1>5 DEF StopGame, PoolTypeOK, SockTypeOK, RingTypeOK, OwnTypeOK, RoomTypeOK,
       StopTypeOK,
                      BoundTypeOK, poolVars, sockVars, roomVars
  <2> QED BY <2>1, TypePartsNext
<1>6. ASSUME NEW e \in Net, StopNet(e) PROVE TypeOK'
  <2>1. PoolTypeOK' /\ SockTypeOK' /\ RingTypeOK' /\ OwnTypeOK' /\ RoomTypeOK' /\ StopTypeOK'
          /\ BoundTypeOK'
    BY <1>0, <1>6 DEF StopNet, PoolTypeOK, SockTypeOK, RingTypeOK, OwnTypeOK, RoomTypeOK,
       StopTypeOK,
                      BoundTypeOK, poolVars, sockVars, roomVars
  <2> QED BY <2>1, TypePartsNext
<1>7. ASSUME NEW s \in Sess, ClientReads(s) PROVE TypeOK'
  <2>1. PoolTypeOK' /\ SockTypeOK' /\ OwnTypeOK' /\ RoomTypeOK' /\ StopTypeOK' /\ BoundTypeOK'
    BY <1>0, <1>7 DEF ClientReads, PoolTypeOK, SockTypeOK, OwnTypeOK, RoomTypeOK, StopTypeOK,
                      BoundTypeOK, poolVars, sockVars, roomVars, stopVars
  <2>2. RingTypeOK'
    BY <1>0, <1>7, CapAssumption DEF ClientReads, RingTypeOK
  <2> QED BY <2>1, <2>2, TypePartsNext
<1>8. CASE UNCHANGED vars
  <2>1. PoolTypeOK' /\ SockTypeOK' /\ RingTypeOK' /\ OwnTypeOK' /\ RoomTypeOK' /\ StopTypeOK'
          /\ BoundTypeOK'
    BY <1>0, <1>8 DEF vars, PoolTypeOK, SockTypeOK, RingTypeOK, OwnTypeOK, RoomTypeOK,
       StopTypeOK,
                      BoundTypeOK, poolVars, sockVars, roomVars, stopVars
  <2> QED BY <2>1, TypePartsNext
<1> QED BY <1>1, <1>2, <1>3, <1>4, <1>5, <1>6, <1>7, <1>8, TypeStepNet DEF Next, GameStep

(* The types of EpollWorker hold in every reachable state, for every number     *)
(* of workers, sessions, connections and snapshots; no ring grows past its      *)
(* capacity (CRingBufferMT), no dirty bit is set for a worker or a slot that    *)
(* does not exist (Session.h: DirtyMap).                                        *)
THEOREM SendTypeCorrect == Spec => []TypeOK
BY TypeInit, TypeStep, PTL DEF Spec

--------------------------------------------------------------------------------
(* Who holds a session.                                                         *)

(* 1 or 0.                                                                      *)
One(b) == IF b THEN 1 ELSE 0

(* Whatever a worker parses, answers or flushes is a session of its own list.   *)
(* With one worker this holds (LoneWorker). With several it can fail in two     *)
(* places: a slot that was cut in the middle of ReadSession and accepted        *)
(* again by another worker (OwnParse, RecycledParse), and a dirty bit that      *)
(* outlives its session and meets the slot while another worker has connected   *)
(* it and not yet written its owner (EpollWorker.cpp: Loop, HandleAccept).      *)
(* The theorems below say what the send path promises as long as neither        *)
(* happens, and PatientAccept when that is.                                     *)
OwnWork == \A e \in Net : net[e].pc \in {"parse", "reply", "flush"}
          => net[e].sess \in mySessions[e]

(* Worker e is in HandleAccept with slot s.                                     *)
Accepting(e, s) == net[e].pc \in {"setFd", "setOwner"} /\ net[e].sess = s

(* Worker e is in the second half of Disconnect with slot s.                    *)
Dropping(e, s) == net[e].pc = "drop" /\ net[e].sess = s

(* Worker e has the netRef of s.                                                *)
Holds(e, s) == s \in mySessions[e] \/ Accepting(e, s) \/ Dropping(e, s)

(* Some worker has the netRef of s.                                             *)
NetHeld(s) == \E e \in Net : Holds(e, s)
InMembers(s)  == \E m \in members : m.sess = s

(* The reference count is the number of those who hold one, and the pool has    *)
(* exactly the slots nobody holds (Session.h: SessionPool).                     *)
RefsExact == \A s \in Sess : refs[s] = One(NetHeld(s)) + One(InMembers(s))
  /\ (s \in free <=> refs[s] = 0)

(* The netRef has one holder.                                                   *)
OneOwner == \A e, f \in Net, s \in Sess : Holds(e, s) /\ Holds(f, s) => e = f

(* A session has one entry, which names its generation and its owner.           *)
MembersOnce ==
    /\ \A m, n \in members : m.sess = n.sess => m = n
    /\ \A m \in members : m.gen = gen[m.sess] /\ m.owner = owner[m.sess]

(* A slot in HandleAccept is alive, empty, in no room and in no list, and has   *)
(* a socket once it was stored.                                                 *)
AcceptFresh == \A e \in Net, s \in Sess : Accepting(e, s) =>
    /\ ~dead[s] /\ sendQ[s] = <<>> /\ ~InMembers(s) /\ s \notin mySessions[e]
    /\ fd[s] <=> net[e].pc = "setOwner"

(* A session in the second half of Disconnect is dead.                          *)
DropDead == \A e \in Net, s \in Sess : Dropping(e, s) => dead[s]

(* A session of a worker's list has that worker as its owner, and is alive      *)
(* and open until it is cut.                                                    *)
OwnedOpen == \A e \in Net : \A s \in mySessions[e] :
    owner[s] = e /\ (~Dropping(e, s) => ~dead[s] /\ fd[s])

(* An open socket is that of a live session which a worker has or is            *)
(* accepting.                                                                   *)
OpenOwned == \A s \in Sess : fd[s] =>
    ~dead[s] /\ \E e \in Net : s \in mySessions[e] \/ Accepting(e, s)

(* What the game worker sends to is a member.                                   *)
GameHolds == game.pc # "idle" => \E m \in members : game.m = {m}

(* A session that is told it is in a room has an owner.                         *)
JoinedOwned == \A s \in Sess : inRoom[s] => \E e \in Net : s \in mySessions[e]

(* A live session that is not told it is in a room has no entry in it.          *)
NotJoined == \A e \in Net : \A s \in mySessions[e] : ~inRoom[s] /\ ~dead[s] => ~InMembers(s)

(* An entry whose session has left has its leave entry queued.                  *)
LeaveQueued == \A m \in members : inRoom[m.sess] \/ [sess |-> m.sess, gen |-> m.gen] \in leaving

(* A slot that only a room holds is dead.                                       *)
GoneDead == \A s \in Sess : s \notin free /\ ~NetHeld(s) => dead[s]

(* Who holds a session, from HandleAccept to the last reference.                *)
HoldInv ==
    /\ RefsExact /\ OneOwner /\ MembersOnce /\ AcceptFresh /\ DropDead /\ OwnedOpen /\ OpenOwned
    /\ GameHolds /\ JoinedOwned /\ NotJoined /\ LeaveQueued /\ GoneDead

(* Nobody holds anything at the start.                                          *)
LEMMA HoldInit == Init => HoldInv
<1> SUFFICES ASSUME Init PROVE HoldInv
  OBVIOUS
<1>1. /\ free = Sess /\ refs = [s \in Sess |-> 0] /\ fd = [s \in Sess |-> FALSE]
      /\ inRoom = [s \in Sess |-> FALSE] /\ mySessions = [e \in Net |-> {}] /\ members = {}
      /\ \A e \in Net : net[e].pc = "idle"
      /\ game.pc = "idle"
  BY DEF Init, PoolInit, Idle, GameIdle
<1>2. \A s \in Sess : ~NetHeld(s) /\ ~InMembers(s)
  BY <1>1 DEF NetHeld, Holds, Accepting, Dropping, InMembers
<1>3. RefsExact /\ GoneDead
  BY <1>1, <1>2 DEF RefsExact, One, GoneDead
<1>4. OneOwner /\ MembersOnce /\ AcceptFresh /\ DropDead /\ OwnedOpen /\ OpenOwned
  BY <1>1 DEF OneOwner, Holds, Accepting, Dropping, MembersOnce, AcceptFresh, DropDead,
     OwnedOpen, OpenOwned
<1>5. GameHolds /\ JoinedOwned /\ NotJoined /\ LeaveQueued
  BY <1>1 DEF GameHolds, JoinedOwned, NotJoined, LeaveQueued
<1> QED BY <1>3, <1>4, <1>5 DEF HoldInv

(* A step that moves no reference, no socket and no member keeps HoldInv:       *)
(* only rings of sessions that have an owner or an entry change.                *)
LEMMA HoldQuiet ==
    ASSUME HoldInv, GameHolds',
           \A f \in Net : \/ net'[f] = net[f]
                          \/ /\ net[f].pc \notin {"setFd", "setOwner", "drop"}
                             /\ net'[f].pc \notin {"setFd", "setOwner", "drop"},
           \A s \in Sess : sendQ'[s] = sendQ[s] \/ InMembers(s)
             \/ \E e \in Net : s \in mySessions[e],
           UNCHANGED <<free, gen, refs, dead, fd, owner, inRoom, mySessions, members, leaving>>
    PROVE  HoldInv'
<1>1. /\ \A f \in Net, s \in Sess : /\ Accepting(f, s)' <=> Accepting(f, s)
                                    /\ Dropping(f, s)' <=> Dropping(f, s)
                                    /\ Holds(f, s)' <=> Holds(f, s)
      /\ \A f \in Net : net'[f].pc = "setOwner" <=> net[f].pc = "setOwner"
  BY DEF Accepting, Dropping, Holds
<1>2. \A s \in Sess : (NetHeld(s)' <=> NetHeld(s)) /\ (InMembers(s)' <=> InMembers(s))
  BY <1>1 DEF NetHeld, InMembers
<1>3. RefsExact' /\ GoneDead'
  BY <1>2 DEF HoldInv, RefsExact, GoneDead, One
<1>4. OneOwner' /\ DropDead'
  BY <1>1 DEF HoldInv, OneOwner, DropDead
<1>5. MembersOnce' /\ JoinedOwned' /\ LeaveQueued'
  BY DEF HoldInv, MembersOnce, JoinedOwned, LeaveQueued
<1>6. NotJoined'
  BY <1>2 DEF HoldInv, NotJoined, InMembers
<1>7. OwnedOpen' /\ OpenOwned'
  <2>1. ASSUME NEW f \in Net, NEW s \in mySessions[f], ~Dropping(f, s)' PROVE ~Dropping(f, s)
    BY <2>1 DEF Dropping
  <2>2. OwnedOpen'
    BY <2>1 DEF HoldInv, OwnedOpen
  <2> QED BY <1>1, <2>2 DEF HoldInv, OpenOwned
<1>8. AcceptFresh'
  <2> SUFFICES ASSUME NEW f \in Net, NEW s \in Sess, Accepting(f, s)
               PROVE  /\ ~dead[s] /\ sendQ'[s] = <<>> /\ ~InMembers(s) /\ s \notin mySessions[f]
                      /\ fd[s] <=> net'[f].pc = "setOwner"
    BY <1>1, <1>2 DEF AcceptFresh
  <2>1. /\ ~dead[s] /\ sendQ[s] = <<>> /\ ~InMembers(s) /\ s \notin mySessions[f]
        /\ fd[s] <=> net[f].pc = "setOwner"
    BY DEF HoldInv, AcceptFresh
  <2>2. \A e \in Net : s \notin mySessions[e]
    BY <2>1 DEF HoldInv, OneOwner, Holds
  <2> QED BY <1>1, <2>1, <2>2
<1> QED BY <1>3, <1>4, <1>5, <1>6, <1>7, <1>8 DEF HoldInv

(* Worker e cuts a session of its own list: the first half of Disconnect.       *)
Cuts(e, s) ==
    /\ s \in mySessions[e] /\ net[e].pc \notin {"setFd", "setOwner", "drop"}
    /\ dead'[s] /\ ~fd'[s] /\ \A t \in Sess : t # s => dead'[t] = dead[t] /\ fd'[t] = fd[t]
    /\ net'[e].pc = "drop" /\ net'[e].sess = s
    /\ \A f \in Net : f # e => net'[f] = net[f]
    /\ UNCHANGED <<free, gen, refs, owner, sendQ, inRoom, mySessions, members, leaving>>

(* Cutting a session keeps HoldInv (EpollWorker.cpp: Disconnect).               *)
LEMMA HoldCuts ==
    ASSUME TypeOK, HoldInv, GameHolds', NEW e \in Net, NEW s \in Sess, Cuts(e, s)
    PROVE  HoldInv'
<1>1. \A f \in Net, t \in Sess : /\ Accepting(f, t)' <=> Accepting(f, t)
                                 /\ Dropping(f, t)' <=> Dropping(f, t) \/ (f = e /\ t = s)
                                 /\ Holds(f, t)' <=> Holds(f, t)
  BY DEF Accepting, Dropping, Holds, Cuts
<1>2. \A t \in Sess : (NetHeld(t)' <=> NetHeld(t)) /\ (InMembers(t)' <=> InMembers(t))
  BY <1>1 DEF NetHeld, InMembers, Cuts
<1>3. RefsExact' /\ GoneDead'
  BY <1>2 DEF HoldInv, RefsExact, GoneDead, One, Cuts
<1>4. OneOwner' /\ DropDead'
  BY <1>1 DEF HoldInv, OneOwner, DropDead, Cuts
<1>5. MembersOnce' /\ JoinedOwned' /\ LeaveQueued'
  BY DEF HoldInv, MembersOnce, JoinedOwned, LeaveQueued, Cuts
<1>6. NotJoined'
  <2> SUFFICES ASSUME NEW f \in Net, NEW t \in mySessions[f], ~inRoom[t], ~dead'[t] PROVE
                      ~InMembers(t)'
    BY DEF NotJoined, Cuts
  <2>1. t \in Sess /\ ~dead[t]
    BY DEF Cuts, TypeOK
  <2> QED BY <1>2, <2>1 DEF HoldInv, NotJoined
<1>7. OwnedOpen'
  <2> SUFFICES ASSUME NEW f \in Net, NEW t \in mySessions[f]
               PROVE  owner[t] = f /\ (~Dropping(f, t)' => ~dead'[t] /\ fd'[t])
    BY DEF OwnedOpen, Cuts
  <2>0. t \in Sess
    BY DEF TypeOK
  <2>1. owner[t] = f /\ (~Dropping(f, t) => ~dead[t] /\ fd[t])
    BY DEF HoldInv, OwnedOpen
  <2>2. CASE t = s
    <3>1. f = e
      BY <2>0, <2>2 DEF HoldInv, OneOwner, Holds, Cuts
    <3> QED BY <1>1, <2>0, <2>1, <2>2, <3>1
  <2>3. CASE t # s
    BY <1>1, <2>0, <2>1, <2>3 DEF Cuts
  <2> QED BY <2>2, <2>3
<1>8. OpenOwned'
  BY <1>1 DEF HoldInv, OpenOwned, Cuts
<1>9. AcceptFresh'
  <2> SUFFICES ASSUME NEW f \in Net, NEW t \in Sess, Accepting(f, t)
               PROVE  /\ ~dead'[t] /\ sendQ[t] = <<>> /\ ~InMembers(t)' /\ t \notin mySessions[f]
                      /\ fd'[t] <=> net'[f].pc = "setOwner"
    BY <1>1 DEF AcceptFresh, Cuts
  <2>1. /\ ~dead[t] /\ sendQ[t] = <<>> /\ ~InMembers(t) /\ t \notin mySessions[f]
        /\ fd[t] <=> net[f].pc = "setOwner"
    BY DEF HoldInv, AcceptFresh
  <2>2. f # e
    BY DEF Accepting, Cuts
  <2>3. t # s
    BY <2>2 DEF HoldInv, OneOwner, Holds, Cuts
  <2> QED BY <1>2, <2>1, <2>2, <2>3 DEF Cuts
<1> QED BY <1>3, <1>4, <1>5, <1>6, <1>7, <1>8, <1>9 DEF HoldInv

(* HandleAccept takes a slot that nobody holds.                                 *)
LEMMA HoldAcceptAlloc ==
    ASSUME TypeOK, HoldInv, NEW e \in Net, NEW s \in Sess, AcceptAlloc(e, s)
    PROVE  HoldInv'
<1>1. /\ s \in free /\ free' = free \ {s} /\ gen' = gen
      /\ refs'[s] = 1 /\ ~dead'[s] /\ ~fd'[s] /\ ~inRoom'[s] /\ sendQ'[s] = <<>>
      /\ \A t \in Sess : t # s => /\ refs'[t] = refs[t] /\ dead'[t] = dead[t] /\ fd'[t] = fd[t]
                                  /\ inRoom'[t] = inRoom[t] /\ sendQ'[t] = sendQ[t]
      /\ net[e].pc = "idle" /\ net'[e].pc = "setFd" /\ net'[e].sess = s
      /\ \A f \in Net : f # e => net'[f] = net[f]
      /\ UNCHANGED <<owner, mySessions, members, leaving, game>>
  BY DEF AcceptAlloc, Between, Alloc, ClearRings, Idle, TypeOK, PoolTypeOK
<1>2. ~NetHeld(s) /\ ~InMembers(s)
  BY <1>1 DEF HoldInv, RefsExact, One
<1>3. \A f \in Net, t \in Sess : /\ Accepting(f, t)' <=> Accepting(f, t) \/ (f = e /\ t = s)
                                 /\ Dropping(f, t)' <=> Dropping(f, t)
                                 /\ Holds(f, t)' <=> Holds(f, t) \/ (f = e /\ t = s)
  BY <1>1 DEF Accepting, Dropping, Holds
<1>4. \A t \in Sess : (NetHeld(t)' <=> NetHeld(t) \/ t = s) /\ (InMembers(t)' <=> InMembers(t))
  BY <1>1, <1>3 DEF NetHeld, InMembers
<1>5. \A f \in Net : ~Holds(f, s) /\ s \notin mySessions[f]
  BY <1>2 DEF NetHeld, Holds
<1>6. RefsExact' /\ GoneDead'
  BY <1>1, <1>2, <1>4 DEF HoldInv, RefsExact, GoneDead, One
<1>7. OneOwner' /\ DropDead'
  <2>1. \A f \in Net : ~Dropping(f, s)
    BY <1>5 DEF Holds
  <2> QED BY <1>1, <1>3, <1>5, <2>1 DEF HoldInv, OneOwner, DropDead
<1>8. MembersOnce' /\ LeaveQueued' /\ GameHolds'
  <2>1. \A m \in members : m.sess \in Sess /\ m.sess # s
    BY <1>2 DEF InMembers, TypeOK, Member
  <2> QED BY <1>1, <2>1 DEF HoldInv, MembersOnce, LeaveQueued, GameHolds
<1>9. JoinedOwned'
  BY <1>1 DEF HoldInv, JoinedOwned
<1>10. NotJoined' /\ OwnedOpen'
  <2>1. \A f \in Net : \A t \in mySessions[f] : t \in Sess /\ t # s
    BY <1>5 DEF TypeOK
  <2> QED BY <1>1, <1>3, <1>4, <2>1 DEF HoldInv, NotJoined, OwnedOpen
<1>11. OpenOwned'
  BY <1>1, <1>3 DEF HoldInv, OpenOwned
<1>12. AcceptFresh'
  <2>1. ASSUME NEW f \in Net, NEW t \in Sess, Accepting(f, t), f # e \/ t # s
        PROVE  t # s /\ f # e
    BY <1>1, <1>5, <2>1 DEF Accepting, Holds
  <2>2. ASSUME NEW f \in Net, NEW t \in Sess, Accepting(f, t)
        PROVE  /\ ~dead'[t] /\ sendQ'[t] = <<>> /\ ~InMembers(t)' /\ t \notin mySessions'[f]
               /\ fd'[t] <=> net'[f].pc = "setOwner"
    <3>1. t # s /\ f # e
      BY <1>1, <1>5, <2>2 DEF Accepting, Holds
    <3> QED BY <1>1, <1>4, <2>2, <3>1 DEF HoldInv, AcceptFresh
  <2>3. /\ ~dead'[s] /\ sendQ'[s] = <<>> /\ ~InMembers(s)' /\ s \notin mySessions'[e]
        /\ fd'[s] <=> net'[e].pc = "setOwner"
    BY <1>1, <1>2, <1>4, <1>5
  <2> QED BY <1>3, <2>2, <2>3 DEF AcceptFresh
<1> QED BY <1>6, <1>7, <1>8, <1>9, <1>10, <1>11, <1>12 DEF HoldInv

(* A slot in HandleAccept belongs to nobody else.                               *)
LEMMA AcceptAlone ==
    ASSUME HoldInv, NEW e \in Net, NEW s \in Sess, Accepting(e, s)
    PROVE  /\ ~dead[s] /\ sendQ[s] = <<>> /\ ~InMembers(s) /\ (fd[s] <=> net[e].pc = "setOwner")
           /\ \A f \in Net : s \notin mySessions[f] /\ (f # e
                     => ~Accepting(f, s)) /\ ~Dropping(f, s)
<1>1. /\ ~dead[s] /\ sendQ[s] = <<>> /\ ~InMembers(s) /\ s \notin mySessions[e]
      /\ fd[s] <=> net[e].pc = "setOwner"
  BY DEF HoldInv, AcceptFresh
<1>2. \A f \in Net : f # e => ~Holds(f, s)
  BY DEF HoldInv, OneOwner, Holds
<1> QED BY <1>1, <1>2 DEF Holds, Accepting, Dropping

(* HandleAccept stores the socket.                                              *)
LEMMA HoldAcceptFd ==
    ASSUME TypeOK, HoldInv, NEW e \in Net, AcceptFd(e)
    PROVE  HoldInv'
<1> DEFINE s == net[e].sess
<1>1. /\ net[e].pc = "setFd" /\ net'[e].pc = "setOwner" /\ net'[e].sess = s /\ s \in Sess
      /\ fd'[s] /\ \A t \in Sess : t # s => fd'[t] = fd[t]
      /\ \A f \in Net : f # e => net'[f] = net[f]
      /\ UNCHANGED <<free, gen, refs, dead, owner, sendQ, inRoom, mySessions, members, leaving,
           game>>
  BY NetTyped DEF AcceptFd, TypeOK, poolVars, roomVars
<1>2. Accepting(e, s)
  BY <1>1 DEF Accepting
<1> HIDE DEF s
<1>3. /\ ~dead[s] /\ sendQ[s] = <<>> /\ ~InMembers(s)
      /\ \A f \in Net : s \notin mySessions[f] /\ (f # e => ~Accepting(f, s))
  BY <1>1, <1>2, AcceptAlone
<1>4. \A f \in Net, t \in Sess : /\ Accepting(f, t)' <=> Accepting(f, t)
                                 /\ Dropping(f, t)' <=> Dropping(f, t)
                                 /\ Holds(f, t)' <=> Holds(f, t)
  BY <1>1 DEF Accepting, Dropping, Holds, s
<1>5. \A t \in Sess : (NetHeld(t)' <=> NetHeld(t)) /\ (InMembers(t)' <=> InMembers(t))
  BY <1>1, <1>4 DEF NetHeld, InMembers
<1>6. RefsExact' /\ GoneDead'
  BY <1>1, <1>5 DEF HoldInv, RefsExact, GoneDead, One
<1>7. OneOwner' /\ DropDead'
  BY <1>1, <1>4 DEF HoldInv, OneOwner, DropDead
<1>8. MembersOnce' /\ LeaveQueued' /\ GameHolds' /\ JoinedOwned'
  BY <1>1 DEF HoldInv, MembersOnce, LeaveQueued, GameHolds, JoinedOwned
<1>9. NotJoined' /\ OwnedOpen'
  <2>1. \A f \in Net : \A t \in mySessions[f] : t \in Sess /\ t # s
    BY <1>3 DEF TypeOK
  <2> QED BY <1>1, <1>4, <1>5, <2>1 DEF HoldInv, NotJoined, OwnedOpen
<1>10. OpenOwned'
  BY <1>1, <1>2, <1>3, <1>4 DEF HoldInv, OpenOwned
<1>11. AcceptFresh'
  <2> SUFFICES ASSUME NEW f \in Net, NEW t \in Sess, Accepting(f, t)
               PROVE  /\ ~dead'[t] /\ sendQ'[t] = <<>> /\ ~InMembers(t)' /\ t \notin mySessions'[f]
                      /\ fd'[t] <=> net'[f].pc = "setOwner"
    BY <1>4 DEF AcceptFresh
  <2>1. CASE t = s
    <3>1. f = e
      BY <1>3, <2>1
    <3> QED BY <1>1, <1>3, <1>5, <2>1, <3>1
  <2>2. CASE t # s
    <3>1. f # e
      BY <2>2 DEF Accepting, s
    <3> QED BY <1>1, <1>5, <2>2, <3>1 DEF HoldInv, AcceptFresh
  <2> QED BY <2>1, <2>2
<1> QED BY <1>6, <1>7, <1>8, <1>9, <1>10, <1>11 DEF HoldInv

(* A failed epoll_ctl(ADD) leaves the slot with the worker, dead, to be         *)
(* released.                                                                    *)
LEMMA HoldAcceptFails ==
    ASSUME TypeOK, HoldInv, NEW e \in Net, AcceptFails(e)
    PROVE  HoldInv'
<1> DEFINE s == net[e].sess
<1>1. /\ net[e].pc = "setOwner" /\ net'[e].pc = "drop" /\ net'[e].sess = s /\ s \in Sess
      /\ ~fd'[s] /\ dead'[s]
      /\ \A t \in Sess : t # s => fd'[t] = fd[t] /\ dead'[t] = dead[t] /\ owner'[t] = owner[t]
      /\ \A f \in Net : f # e => net'[f] = net[f]
      /\ UNCHANGED <<free, gen, refs, sendQ, inRoom, mySessions, members, leaving, game>>
  BY NetTyped DEF AcceptFails, TypeOK, PoolTypeOK, roomVars
<1>2. Accepting(e, s)
  BY <1>1 DEF Accepting
<1> HIDE DEF s
<1>3. /\ ~InMembers(s)
      /\ \A f \in Net : s \notin mySessions[f] /\ (f # e => ~Accepting(f, s))
  BY <1>1, <1>2, AcceptAlone
<1>4. \A f \in Net, t \in Sess : /\ Accepting(f, t)' <=> Accepting(f, t) /\ ~(f = e /\ t = s)
                                 /\ Dropping(f, t)' <=> Dropping(f, t) \/ (f = e /\ t = s)
                                 /\ Holds(f, t)' <=> Holds(f, t)
  BY <1>1 DEF Accepting, Dropping, Holds, s
<1>5. \A t \in Sess : (NetHeld(t)' <=> NetHeld(t)) /\ (InMembers(t)' <=> InMembers(t))
  BY <1>1, <1>4 DEF NetHeld, InMembers
<1>6. RefsExact' /\ GoneDead'
  BY <1>1, <1>5 DEF HoldInv, RefsExact, GoneDead, One
<1>7. OneOwner' /\ DropDead'
  BY <1>1, <1>4 DEF HoldInv, OneOwner, DropDead
<1>8. MembersOnce' /\ LeaveQueued' /\ GameHolds' /\ JoinedOwned'
  <2>1. \A m \in members : m.sess \in Sess /\ m.sess # s
    BY <1>3 DEF InMembers, TypeOK, Member
  <2> QED BY <1>1, <2>1 DEF HoldInv, MembersOnce, LeaveQueued, GameHolds, JoinedOwned
<1>9. NotJoined' /\ OwnedOpen'
  <2>1. \A f \in Net : \A t \in mySessions[f] : t \in Sess /\ t # s
    BY <1>3 DEF TypeOK
  <2> QED BY <1>1, <1>4, <1>5, <2>1 DEF HoldInv, NotJoined, OwnedOpen
<1>10. OpenOwned'
  BY <1>1, <1>4 DEF HoldInv, OpenOwned
<1>11. AcceptFresh'
  <2> SUFFICES ASSUME NEW f \in Net, NEW t \in Sess, Accepting(f, t), ~(f = e /\ t = s)
               PROVE  /\ ~dead'[t] /\ sendQ'[t] = <<>> /\ ~InMembers(t)' /\ t \notin mySessions'[f]
                      /\ fd'[t] <=> net'[f].pc = "setOwner"
    BY <1>4 DEF AcceptFresh
  <2>1. t # s
    BY <1>3
  <2>2. f # e
    BY <2>1 DEF Accepting, s
  <2> QED BY <1>1, <1>5, <2>1, <2>2 DEF HoldInv, AcceptFresh
<1> QED BY <1>6, <1>7, <1>8, <1>9, <1>10, <1>11 DEF HoldInv

(* HandleAccept ends: the session is in the worker's list.                      *)
LEMMA HoldAcceptOwner ==
    ASSUME TypeOK, HoldInv, NEW e \in Net, AcceptOwner(e)
    PROVE  HoldInv'
<1> DEFINE s == net[e].sess
<1>1. /\ net[e].pc = "setOwner" /\ net'[e].pc = "idle" /\ s \in Sess
      /\ owner'[s] = e /\ \A t \in Sess : t # s => owner'[t] = owner[t]
      /\ mySessions'[e] = mySessions[e] \cup {s}
      /\ \A f \in Net : f # e => net'[f] = net[f] /\ mySessions'[f] = mySessions[f]
      /\ UNCHANGED <<free, gen, refs, dead, fd, sendQ, inRoom, members, leaving, game>>
  BY NetTyped DEF AcceptOwner, Idle, TypeOK, poolVars, roomVars
<1>2. Accepting(e, s)
  BY <1>1 DEF Accepting
<1> HIDE DEF s
<1>3. /\ ~InMembers(s) /\ ~dead[s] /\ fd[s]
      /\ \A f \in Net : s \notin mySessions[f] /\ (f # e => ~Accepting(f, s)) /\ ~Dropping(f, s)
  BY <1>1, <1>2, AcceptAlone
<1>4. \A f \in Net, t \in Sess : /\ Accepting(f, t)' <=> Accepting(f, t) /\ ~(f = e /\ t = s)
                                 /\ Dropping(f, t)' <=> Dropping(f, t)
                                 /\ Holds(f, t)' <=> Holds(f, t)
  BY <1>1 DEF Accepting, Dropping, Holds, s
<1>5. \A t \in Sess : (NetHeld(t)' <=> NetHeld(t)) /\ (InMembers(t)' <=> InMembers(t))
  BY <1>1, <1>4 DEF NetHeld, InMembers
<1>6. RefsExact' /\ GoneDead'
  BY <1>1, <1>5 DEF HoldInv, RefsExact, GoneDead, One
<1>7. OneOwner' /\ DropDead'
  BY <1>1, <1>4 DEF HoldInv, OneOwner, DropDead
<1>8. MembersOnce' /\ LeaveQueued' /\ GameHolds'
  <2>1. \A m \in members : m.sess \in Sess /\ m.sess # s
    BY <1>3 DEF InMembers, TypeOK, Member
  <2> QED BY <1>1, <2>1 DEF HoldInv, MembersOnce, LeaveQueued, GameHolds
<1>9. JoinedOwned'
  BY <1>1 DEF HoldInv, JoinedOwned
<1>10. ASSUME NEW f \in Net, NEW t \in mySessions'[f]
       PROVE  t \in Sess /\ ((t \in mySessions[f] /\ t # s) \/ (t = s /\ f = e))
  <2>1. mySessions[f] \subseteq Sess
    BY DEF TypeOK
  <2>2. CASE f = e
    BY <1>1, <1>3, <2>1, <2>2
  <2>3. CASE f # e
    <3>1. mySessions'[f] = mySessions[f]
      BY <1>1, <2>3
    <3>2. t \in mySessions[f] /\ s \notin mySessions[f]
      BY <1>3, <3>1
    <3> QED BY <2>1, <3>2
  <2> QED BY <2>2, <2>3
<1>11. NotJoined' /\ OwnedOpen'
  BY <1>1, <1>3, <1>4, <1>5, <1>10 DEF HoldInv, NotJoined, OwnedOpen
<1>12. OpenOwned'
  <2> SUFFICES ASSUME NEW t \in Sess, fd[t]
               PROVE  ~dead[t] /\ \E f \in Net : t \in mySessions'[f] \/ Accepting(f, t)'
    BY <1>1 DEF OpenOwned
  <2>1. PICK f \in Net : t \in mySessions[f] \/ Accepting(f, t)
    BY DEF HoldInv, OpenOwned
  <2>2. t \in mySessions'[f] \/ Accepting(f, t)'
    BY <1>1, <1>4, <2>1
  <2> QED BY <2>2 DEF HoldInv, OpenOwned
<1>13. AcceptFresh'
  <2> SUFFICES ASSUME NEW f \in Net, NEW t \in Sess, Accepting(f, t), ~(f = e /\ t = s)
               PROVE  /\ ~dead'[t] /\ sendQ'[t] = <<>> /\ ~InMembers(t)' /\ t \notin mySessions'[f]
                      /\ fd'[t] <=> net'[f].pc = "setOwner"
    BY <1>4 DEF AcceptFresh
  <2>1. t # s
    BY <1>3
  <2>2. f # e
    BY <2>1 DEF Accepting, s
  <2> QED BY <1>1, <1>5, <2>1, <2>2 DEF HoldInv, AcceptFresh
<1> QED BY <1>6, <1>7, <1>8, <1>9, <1>11, <1>12, <1>13 DEF HoldInv

(* RoomManager::Join of a session of the worker's own list: an entry with a     *)
(* reference of its own.                                                        *)
LEMMA HoldDispatchJoin ==
    ASSUME TypeOK, HoldInv, OwnWork, NEW e \in Net, DispatchJoin(e)
    PROVE  HoldInv'
<1> DEFINE s == net[e].sess
           n == [sess |-> s, gen |-> gen[s], owner |-> owner[s]]
<1>1. /\ s \in Sess /\ net[e].pc = "parse" /\ net'[e].pc = "reply" /\ ~inRoom[s] /\ inRoom'[s]
      /\ refs'[s] = refs[s] + 1 /\ \A t \in Sess : t # s
                => refs'[t] = refs[t] /\ inRoom'[t] = inRoom[t]
      /\ members' = members \cup {n}
      /\ n.sess = s /\ n.gen = gen[s] /\ n.owner = owner[s]
      /\ \A f \in Net : f # e => net'[f] = net[f]
      /\ UNCHANGED <<free, gen, dead, fd, owner, sendQ, mySessions, leaving, game>>
  BY NetTyped DEF DispatchJoin, AddRef, TypeOK, PoolTypeOK, sockVars
<1>2. s \in mySessions[e]
  BY <1>1 DEF OwnWork
<1>3. NetHeld(s) /\ ~Dropping(e, s)
  BY <1>1, <1>2 DEF NetHeld, Holds, Dropping
<1> HIDE DEF s, n
<1>4. ~dead[s] /\ ~InMembers(s)
  BY <1>1, <1>2, <1>3 DEF HoldInv, OwnedOpen, NotJoined
<1>5. \A f \in Net, t \in Sess : /\ Accepting(f, t)' <=> Accepting(f, t)
                                 /\ Dropping(f, t)' <=> Dropping(f, t)
                                 /\ Holds(f, t)' <=> Holds(f, t)
  BY <1>1 DEF Accepting, Dropping, Holds
<1>6. \A t \in Sess : (NetHeld(t)' <=> NetHeld(t)) /\ (InMembers(t)' <=> InMembers(t) \/ t = s)
  BY <1>1, <1>5 DEF NetHeld, InMembers
<1>7. RefsExact' /\ GoneDead'
  BY <1>1, <1>3, <1>4, <1>6 DEF HoldInv, RefsExact, GoneDead, One
<1>8. OneOwner' /\ DropDead'
  BY <1>1, <1>5 DEF HoldInv, OneOwner, DropDead
<1>9. MembersOnce'
  <2>1. \A m \in members : m.sess # s
    BY <1>4 DEF InMembers
  <2> QED BY <1>1, <2>1 DEF HoldInv, MembersOnce
<1>10. GameHolds'
  BY <1>1 DEF HoldInv, GameHolds
<1>11. JoinedOwned'
  BY <1>1, <1>2 DEF HoldInv, JoinedOwned
<1>12. LeaveQueued'
  <2>1. \A m \in members : m.sess \in Sess
    BY DEF TypeOK, Member
  <2> QED BY <1>1, <2>1 DEF HoldInv, LeaveQueued
<1>13. NotJoined' /\ OwnedOpen' /\ OpenOwned'
  <2>1. \A f \in Net : \A t \in mySessions[f] : t \in Sess
    BY DEF TypeOK
  <2>2. NotJoined'
    BY <1>1, <1>6, <2>1 DEF HoldInv, NotJoined
  <2>3. OwnedOpen' /\ OpenOwned'
    BY <1>1, <1>5, <2>1 DEF HoldInv, OwnedOpen, OpenOwned
  <2> QED BY <2>2, <2>3
<1>14. AcceptFresh'
  <2> SUFFICES ASSUME NEW f \in Net, NEW t \in Sess, Accepting(f, t)
               PROVE  /\ ~dead[t] /\ sendQ[t] = <<>> /\ ~InMembers(t)' /\ t \notin mySessions[f]
                      /\ fd[t] <=> net'[f].pc = "setOwner"
    BY <1>1, <1>5 DEF AcceptFresh
  <2>1. t # s /\ f # e
    BY <1>1, <1>2, AcceptAlone DEF Accepting
  <2> QED BY <1>1, <1>6, <2>1 DEF HoldInv, AcceptFresh
<1> QED BY <1>7, <1>8, <1>9, <1>10, <1>11, <1>12, <1>13, <1>14 DEF HoldInv

(* Where Return leads, by what the frame says.                                  *)
LEMMA ReturnPc ==
    ASSUME TypeOK, NEW e \in Net
    PROVE  /\ Return(e).pc \in {"idle", "recheck", "cleanup"}
           /\ net[e].ret = "loop" => Return(e).pc = "idle" /\ Return(e).bits = net[e].bits
                                     /\ Return(e).ret = "loop"
           /\ net[e].ret = "parse" => Return(e).pc = "recheck" /\ Return(e).bits = net[e].bits
                                      /\ Return(e).ret = "parse" /\ Return(e).sess = net[e].sess
           /\ net[e].ret = "cleanup" => Return(e).pc = "cleanup" /\ Return(e).bits = net[e].bits
                                      /\ Return(e).ret = "cleanup" /\ Return(e).sess = net[e].sess
<1>1. net[e] \in NetFrame
  BY NetTyped
<1> QED BY <1>1 DEF Return, Idle, NetFrame

(* What SessionPool::Release does to each slot.                                 *)
LEMMA ReleaseEffect ==
    ASSUME PoolTypeOK, NEW s \in Sess, Release(s)
    PROVE  /\ refs'[s] = refs[s] - 1 /\ dead' = dead
           /\ refs[s] # 1 => free' = free /\ gen' = gen
           /\ refs[s] = 1 => free' = free \cup {s} /\ gen'[s] = gen[s] + 1
           /\ \A t \in Sess : t # s => refs'[t] = refs[t] /\ gen'[t] = gen[t]
BY DEF Release, PoolTypeOK

(* The second half of Disconnect gives the netRef back; the slot returns to     *)
(* the pool exactly if no room holds it.                                        *)
LEMMA HoldDrop ==
    ASSUME TypeOK, HoldInv, NEW e \in Net, Drop(e)
    PROVE  HoldInv'
<1> DEFINE s == net[e].sess
           l == [sess |-> s, gen |-> gen[s]]
<1>0. PoolTypeOK /\ s \in Sess
  BY NetTyped DEF TypeOK
<1>1. /\ net[e].pc = "drop" /\ net'[e] = Return(e)
      /\ leaving \subseteq leaving' /\ (inRoom[s] => l \in leaving')
      /\ ~inRoom'[s] /\ \A t \in Sess : t # s => inRoom'[t] = inRoom[t]
      /\ mySessions'[e] = mySessions[e] \ {s}
      /\ \A f \in Net : f # e => net'[f] = net[f] /\ mySessions'[f] = mySessions[f]
      /\ UNCHANGED <<fd, owner, sendQ, members, game>>
  BY <1>0 DEF Drop, TypeOK, sockVars
<1>2. /\ refs'[s] = refs[s] - 1 /\ dead' = dead
      /\ refs[s] # 1 => free' = free /\ gen' = gen
      /\ refs[s] = 1 => free' = free \cup {s} /\ gen'[s] = gen[s] + 1
      /\ \A t \in Sess : t # s => refs'[t] = refs[t] /\ gen'[t] = gen[t]
  BY <1>0, ReleaseEffect DEF Drop
<1>3. net'[e].pc \in {"idle", "recheck", "cleanup"}
  BY <1>1, ReturnPc
<1>4. Dropping(e, s)
  BY <1>1 DEF Dropping
<1>5. l.sess = s /\ l.gen = gen[s] /\ \A m \in members : m.sess = s
          => [sess |-> m.sess, gen |-> m.gen] = l
  BY DEF HoldInv, MembersOnce
<1> HIDE DEF s
<1>6. /\ dead[s] /\ NetHeld(s) /\ \A f \in Net : f # e => ~Holds(f, s)
      /\ \A f \in Net : ~Accepting(f, s)
  <2>1. Holds(e, s) /\ ~Accepting(e, s)
    BY <1>1, <1>4 DEF Holds, Accepting
  <2> QED BY <1>0, <1>4, <2>1 DEF HoldInv, DropDead, NetHeld, OneOwner, Holds
<1>7. \A f \in Net, t \in Sess : /\ Accepting(f, t)' <=> Accepting(f, t)
                                 /\ Dropping(f, t)' <=> Dropping(f, t) /\ ~(f = e /\ t = s)
                                 /\ Holds(f, t)' <=> Holds(f, t) /\ t # s
  <2>1. ASSUME NEW f \in Net, NEW t \in Sess, f # e
        PROVE  /\ Accepting(f, t)' <=> Accepting(f, t)
               /\ Dropping(f, t)' <=> Dropping(f, t)
               /\ Holds(f, t)' <=> Holds(f, t) /\ t # s
    BY <1>1, <1>6, <2>1 DEF Accepting, Dropping, Holds
  <2>2. ASSUME NEW t \in Sess
        PROVE  /\ Accepting(e, t)' <=> Accepting(e, t)
               /\ Dropping(e, t)' <=> Dropping(e, t) /\ t # s
               /\ Holds(e, t)' <=> Holds(e, t) /\ t # s
    BY <1>1, <1>3 DEF Accepting, Dropping, Holds, s
  <2> QED BY <1>6, <2>1, <2>2 DEF Holds
<1>8. \A t \in Sess : (NetHeld(t)' <=> NetHeld(t) /\ t # s) /\ (InMembers(t)' <=> InMembers(t))
  BY <1>1, <1>7 DEF NetHeld, InMembers
<1>9. refs[s] = 1 <=> ~InMembers(s)
  BY <1>0, <1>6 DEF HoldInv, RefsExact, One
<1>10. RefsExact'
  <2>1. refs[s] = 1 + One(InMembers(s)) /\ s \notin free
    BY <1>0, <1>6 DEF HoldInv, RefsExact, One
  <2>2. ASSUME NEW t \in Sess, t = s
        PROVE  refs'[t] = One(NetHeld(t))' + One(InMembers(t))' /\ (t \in free' <=> refs'[t] = 0)
    BY <1>2, <1>8, <2>1, <2>2 DEF One
  <2>3. ASSUME NEW t \in Sess, t # s
        PROVE  refs'[t] = One(NetHeld(t))' + One(InMembers(t))' /\ (t \in free' <=> refs'[t] = 0)
    BY <1>2, <1>8, <2>3 DEF HoldInv, RefsExact, One
  <2> QED BY <2>2, <2>3 DEF RefsExact
<1>11. GoneDead'
  BY <1>2, <1>6, <1>8 DEF HoldInv, GoneDead
<1>12. OneOwner' /\ DropDead'
  BY <1>2, <1>7 DEF HoldInv, OneOwner, DropDead
<1>13. MembersOnce'
  <2>1. \A m \in members : m.sess \in Sess /\ (gen'[m.sess] = gen[m.sess])
    <3>1. \A m \in members : m.sess \in Sess /\ (m.sess = s => InMembers(s))
      BY DEF InMembers, TypeOK, Member
    <3> QED BY <1>2, <1>9, <3>1
  <2> QED BY <1>1, <2>1 DEF HoldInv, MembersOnce
<1>14. GameHolds'
  BY <1>1 DEF HoldInv, GameHolds
<1>15. JoinedOwned'
  <2> SUFFICES ASSUME NEW t \in Sess, inRoom'[t] PROVE \E f \in Net : t \in mySessions'[f]
    BY DEF JoinedOwned
  <2>1. t # s /\ inRoom[t]
    BY <1>1
  <2>2. PICK f \in Net : t \in mySessions[f]
    BY <2>1 DEF HoldInv, JoinedOwned
  <2>3. t \in mySessions'[f]
    BY <1>1, <2>1, <2>2
  <2> QED BY <2>3
<1>16. LeaveQueued'
  <2> SUFFICES ASSUME NEW m \in members, ~inRoom'[m.sess]
               PROVE  [sess |-> m.sess, gen |-> m.gen] \in leaving'
    BY <1>1 DEF LeaveQueued
  <2>1. inRoom[m.sess] \/ [sess |-> m.sess, gen |-> m.gen] \in leaving
    BY DEF HoldInv, LeaveQueued
  <2>2. m.sess \in Sess
    BY DEF TypeOK, Member
  <2> QED BY <1>1, <1>5, <2>1, <2>2
<1>17. \A f \in Net : \A t \in mySessions'[f] : t \in Sess /\ t \in mySessions[f] /\ t # s
  <2>1. ASSUME NEW f \in Net, NEW t \in mySessions'[f], f = e
        PROVE  t \in Sess /\ t \in mySessions[f] /\ t # s
    BY <1>1, <2>1 DEF TypeOK
  <2>2. ASSUME NEW f \in Net, NEW t \in mySessions'[f], f # e
        PROVE  t \in Sess /\ t \in mySessions[f] /\ t # s
    <3>1. t \in mySessions[f] /\ s \notin mySessions[f]
      BY <1>1, <1>6, <2>2 DEF Holds
    <3> QED BY <3>1 DEF TypeOK
  <2> QED BY <2>1, <2>2
<1>18. NotJoined' /\ OwnedOpen'
  BY <1>1, <1>2, <1>7, <1>8, <1>17 DEF HoldInv, NotJoined, OwnedOpen
<1>19. OpenOwned'
  <2> SUFFICES ASSUME NEW t \in Sess, fd[t]
               PROVE  ~dead[t] /\ \E f \in Net : t \in mySessions'[f] \/ Accepting(f, t)'
    BY <1>1, <1>2 DEF OpenOwned
  <2>1. ~dead[t] /\ t # s
    BY <1>6 DEF HoldInv, OpenOwned
  <2>2. PICK f \in Net : t \in mySessions[f] \/ Accepting(f, t)
    BY DEF HoldInv, OpenOwned
  <2>3. t \in mySessions'[f] \/ Accepting(f, t)'
    BY <1>1, <1>7, <2>1, <2>2
  <2> QED BY <2>1, <2>3
<1>20. AcceptFresh'
  <2> SUFFICES ASSUME NEW f \in Net, NEW t \in Sess, Accepting(f, t)
               PROVE  /\ ~dead[t] /\ sendQ[t] = <<>> /\ ~InMembers(t)' /\ t \notin mySessions'[f]
                      /\ fd[t] <=> net'[f].pc = "setOwner"
    BY <1>1, <1>2, <1>7 DEF AcceptFresh
  <2>1. f # e
    BY <1>1 DEF Accepting
  <2> QED BY <1>1, <1>8, <2>1 DEF HoldInv, AcceptFresh
<1> QED BY <1>10, <1>11, <1>12, <1>13, <1>14, <1>15, <1>16, <1>18, <1>19, <1>20 DEF HoldInv

(* The leave entry gives the gameRef back; the slot returns to the pool         *)
(* exactly if no worker holds it.                                               *)
LEMMA HoldGameLeave ==
    ASSUME TypeOK, HoldInv, NEW m \in members, GameLeave(m)
    PROVE  HoldInv'
<1> DEFINE s == m.sess
           l == [sess |-> s, gen |-> m.gen]
<1>0. PoolTypeOK /\ s \in Sess /\ m.gen = gen[s]
  BY DEF TypeOK, Member, HoldInv, MembersOnce
<1>1. /\ game.pc = "idle" /\ members' = members \ {m} /\ leaving' = leaving \ {l}
      /\ l \in leaving
      /\ UNCHANGED <<fd, owner, sendQ, inRoom, mySessions, net, game>>
  BY DEF GameLeave, sockVars
<1>2. /\ refs'[s] = refs[s] - 1 /\ dead' = dead
      /\ refs[s] # 1 => free' = free /\ gen' = gen
      /\ refs[s] = 1 => free' = free \cup {s} /\ gen'[s] = gen[s] + 1
      /\ \A t \in Sess : t # s => refs'[t] = refs[t] /\ gen'[t] = gen[t]
  BY <1>0, ReleaseEffect DEF GameLeave
<1>3. InMembers(s) /\ \A n \in members' : n \in members /\ n.sess \in Sess /\ n.sess # s
  BY <1>1 DEF InMembers, HoldInv, MembersOnce, TypeOK, Member
<1>4. \A n \in members' : [sess |-> n.sess, gen |-> n.gen] # l
  BY <1>3
<1> HIDE DEF s, l
<1>5. \A f \in Net, t \in Sess : /\ Accepting(f, t)' <=> Accepting(f, t)
                                 /\ Dropping(f, t)' <=> Dropping(f, t)
                                 /\ Holds(f, t)' <=> Holds(f, t)
  BY <1>1 DEF Accepting, Dropping, Holds
<1>6. \A t \in Sess : (NetHeld(t)' <=> NetHeld(t)) /\ (InMembers(t)' <=> InMembers(t) /\ t # s)
  <2>1. ASSUME NEW t \in Sess, InMembers(t), t # s PROVE InMembers(t)'
    <3>1. PICK n \in members : n.sess = t
      BY <2>1 DEF InMembers
    <3>2. n # m
      BY <2>1, <3>1 DEF s
    <3> QED BY <1>1, <3>1, <3>2 DEF InMembers
  <2> QED BY <1>3, <1>5, <2>1 DEF NetHeld, InMembers
<1>7. refs[s] = 1 <=> ~NetHeld(s)
  BY <1>0, <1>3 DEF HoldInv, RefsExact, One
<1>8. RefsExact'
  <2>1. refs[s] = 1 + One(NetHeld(s)) /\ s \notin free
    BY <1>0, <1>3 DEF HoldInv, RefsExact, One
  <2>2. refs'[s] = One(NetHeld(s))' + One(InMembers(s))' /\ (s \in free' <=> refs'[s] = 0)
    BY <1>0, <1>2, <1>6, <2>1 DEF One
  <2>3. ASSUME NEW t \in Sess, t # s
        PROVE  refs'[t] = One(NetHeld(t))' + One(InMembers(t))' /\ (t \in free' <=> refs'[t] = 0)
    BY <1>2, <1>6, <2>3 DEF HoldInv, RefsExact, One
  <2> QED BY <2>2, <2>3 DEF RefsExact
<1>9. GoneDead'
  BY <1>0, <1>2, <1>6 DEF HoldInv, GoneDead
<1>10. OneOwner' /\ DropDead' /\ OpenOwned'
  BY <1>1, <1>2, <1>5 DEF HoldInv, OneOwner, DropDead, OpenOwned
<1>11. MembersOnce'
  BY <1>1, <1>2, <1>3 DEF HoldInv, MembersOnce
<1>12. GameHolds' /\ JoinedOwned'
  BY <1>1 DEF HoldInv, GameHolds, JoinedOwned
<1>13. LeaveQueued'
  BY <1>1, <1>3, <1>4 DEF HoldInv, LeaveQueued
<1>14. NotJoined' /\ OwnedOpen'
  <2>1. \A f \in Net : \A t \in mySessions[f] : t \in Sess
    BY DEF TypeOK
  <2> QED BY <1>1, <1>2, <1>5, <1>6, <2>1 DEF HoldInv, NotJoined, OwnedOpen
<1>15. AcceptFresh'
  BY <1>1, <1>2, <1>5, <1>6 DEF HoldInv, AcceptFresh
<1> QED BY <1>8, <1>9, <1>10, <1>11, <1>12, <1>13, <1>14, <1>15 DEF HoldInv

(* The program counters at which a frame holds a netRef outside the list.       *)
Held == {"setFd", "setOwner", "drop"}

(* What CleanupInThread has still to cut is what is left in the worker's        *)
(* list.                                                                        *)
CleanupOf(e) ==
    /\ net[e].pc = "cleanup" => net[e].ret = "cleanup" /\ net[e].bits = mySessions[e]
    /\ net[e].pc = "exited" => mySessions[e] = {}
    /\ net[e].ret = "cleanup" => net[e].pc \in {"cleanup", "drop", "exited"}
    /\ net[e].pc = "drop" /\ net[e].ret = "cleanup"
       => net[e].sess \notin net[e].bits /\ mySessions[e] = net[e].bits \cup {net[e].sess}

(* CleanupOf for every worker: an ended thread has an empty list.               *)
CleanupBits == \A e \in Net : CleanupOf(e)

(* A session of a worker that is not in Disconnect is alive, open and its       *)
(* own.                                                                         *)
LEMMA OwnedLive ==
    ASSUME TypeOK, HoldInv, NEW e \in Net, NEW s \in mySessions[e], net[e].pc # "drop"
    PROVE  /\ s \in Sess /\ owner[s] = e /\ ~dead[s] /\ fd[s] /\ s \notin free
<1>1. s \in Sess /\ ~Dropping(e, s) /\ NetHeld(s)
  BY DEF TypeOK, Dropping, NetHeld, Holds
<1>2. refs[s] # 0
  BY <1>1 DEF HoldInv, RefsExact, One
<1> QED BY <1>1, <1>2 DEF HoldInv, OwnedOpen, RefsExact

(* CleanupBits depends on each worker alone.                                    *)
LEMMA CleanupOther ==
    ASSUME CleanupBits, NEW e \in Net,
           \A f \in Net : f # e => net'[f] = net[f] /\ mySessions'[f] = mySessions[f],
           CleanupOf(e)'
    PROVE  CleanupBits'
BY DEF CleanupBits, CleanupOf

(* A step of a frame that stays outside HandleAccept, Disconnect and            *)
(* CleanupInThread.                                                             *)
LEMMA FrameStep ==
    ASSUME TypeOK, HoldInv, CleanupBits, NEW e \in Net, NEW x \in NetFrame,
           net' = [net EXCEPT ![e] = x],
           net[e].pc \notin Held, x.pc \notin Held \cup {"cleanup", "exited"}, x.ret # "cleanup",
           UNCHANGED <<poolVars, conns, snaps, sockVars, sendQ, roomVars, kbuf, mySessions,
                       game, stopVars>>
    PROVE  HoldInv' /\ CleanupBits'
<1>1. net'[e] = x /\ \A f \in Net : f # e => net'[f] = net[f]
  BY DEF TypeOK
<1>2. UNCHANGED <<free, gen, refs, dead, fd, owner, sendQ, inRoom, mySessions, members, leaving,
        game>>
  BY DEF poolVars, sockVars, roomVars
<1>3. HoldInv'
  <2>1. GameHolds'
    BY <1>2 DEF HoldInv, GameHolds
  <2> QED BY <1>1, <1>2, <2>1, HoldQuiet DEF Held
<1>4. CleanupBits'
  BY <1>1, <1>2, CleanupOther DEF CleanupOf
<1> QED BY <1>3, <1>4

(* What the first half of Disconnect does to a live session.                    *)
LEMMA DisconnectEffect ==
    ASSUME TypeOK, NEW e \in Net, NEW s \in Sess, ~dead[s], Disconnect(e, s)
    PROVE  /\ dead'[s] /\ ~fd'[s] /\ \A t \in Sess : t # s
              => /\ dead'[t] = dead[t] /\ fd'[t] = fd[t]
                                                             /\ kbuf'[t] = kbuf[t]
           /\ net'[e].pc = "drop" /\ net'[e].sess = s /\ net'[e].ret = net[e].ret
           /\ net'[e].bits = net[e].bits
           /\ \A f \in Net : f # e => net'[f] = net[f]
           /\ UNCHANGED <<free, gen, refs, owner, wantWrite>>
<1>1. net[e] \in NetFrame
  BY NetTyped
<1>2. net' = [net EXCEPT ![e] = [net[e] EXCEPT !.pc = "drop", !.sess = s]]
  BY DEF Disconnect, TypeOK
<1> DEFINE x == [net[e] EXCEPT !.pc = "drop", !.sess = s]
<1>3. x.pc = "drop" /\ x.sess = s /\ x.ret = net[e].ret /\ x.bits = net[e].bits
  BY <1>1 DEF NetFrame
<1> HIDE DEF x
<1>4. net'[e] = x /\ \A f \in Net : f # e => net'[f] = net[f]
  BY <1>2 DEF TypeOK, x
<1>5. dead'[s] /\ ~fd'[s] /\ \A t \in Sess : t # s => /\ dead'[t] = dead[t] /\ fd'[t] = fd[t]
                                                      /\ kbuf'[t] = kbuf[t]
  BY DEF Disconnect, TypeOK, PoolTypeOK
<1> QED BY <1>3, <1>4, <1>5 DEF Disconnect

(* Disconnect of a session of the worker's own list.                            *)
LEMMA CutStep ==
    ASSUME TypeOK, HoldInv, CleanupBits, NEW e \in Net, NEW s \in mySessions[e],
           net[e].pc \notin Held, net[e].ret # "cleanup", Disconnect(e, s),
           UNCHANGED <<conns, snaps, sendQ, roomVars, mySessions, dirty, game, stopVars>>
    PROVE  HoldInv' /\ CleanupBits' /\ Cuts(e, s)
<1>1. s \in Sess /\ ~dead[s]
  BY OwnedLive DEF Held
<1>2. /\ dead'[s] /\ ~fd'[s] /\ \A t \in Sess : t # s => dead'[t] = dead[t] /\ fd'[t] = fd[t]
      /\ net'[e].pc = "drop" /\ net'[e].sess = s /\ net'[e].ret = net[e].ret
      /\ net'[e].bits = net[e].bits
      /\ \A f \in Net : f # e => net'[f] = net[f]
      /\ UNCHANGED <<free, gen, refs, owner, wantWrite>>
  BY <1>1, DisconnectEffect
<1>3. UNCHANGED <<sendQ, inRoom, mySessions, members, leaving, game>>
  BY DEF roomVars
<1>4. Cuts(e, s)
  BY <1>2, <1>3 DEF Cuts, Held
<1>5. HoldInv'
  <2>1. GameHolds'
    BY <1>3 DEF HoldInv, GameHolds
  <2> QED BY <1>1, <1>4, <2>1, HoldCuts
<1>6. CleanupBits'
  <2>1. CleanupOf(e)'
    BY <1>2 DEF CleanupOf
  <2> QED BY <1>2, <1>3, <2>1, CleanupOther
<1> QED BY <1>4, <1>5, <1>6

(* Enqueue appends to one ring and leaves the others.                           *)
LEMMA EnqueueEffect ==
    ASSUME TypeOK, NEW s \in Sess, NEW kind, NEW g, Enqueue(s, kind, g)
    PROVE  /\ sendQ'[s] = Append(sendQ[s], [kind |-> kind, gen |-> g])
           /\ \A t \in Sess : t # s => sendQ'[t] = sendQ[t]
BY DEF Enqueue, TypeOK

(* SendBytes to a session of the worker's own list.                             *)
LEMMA SendStep ==
    ASSUME TypeOK, HoldInv, CleanupBits, NEW e \in Net, net[e].sess \in mySessions[e],
           net[e].pc \in {"parse", "reply"}, SendBytes(e),
           UNCHANGED <<conns, snaps, roomVars, mySessions, dirty, game, stopVars>>
    PROVE  HoldInv' /\ CleanupBits'
<1>0. net[e].pc \notin Held /\ net[e].ret # "cleanup"
  BY DEF CleanupBits, CleanupOf, Held
<1>1. net[e].sess \in Sess /\ net[e] \in NetFrame
  BY NetTyped
<1>2. CASE /\ Enqueue(net[e].sess, "REPLY", gen[net[e].sess])
           /\ net' = [net EXCEPT ![e].pc = "flush"] /\ UNCHANGED <<poolVars, sockVars, kbuf>>
  <2>1. /\ net'[e].pc = "flush" /\ net'[e].ret = net[e].ret
        /\ \A f \in Net : f # e => net'[f] = net[f]
    BY <1>1, <1>2 DEF TypeOK, NetFrame
  <2>2. UNCHANGED <<free, gen, refs, dead, fd, owner, inRoom, mySessions, members, leaving, game>>
    BY <1>2 DEF poolVars, sockVars, roomVars
  <2>3. \A t \in Sess : sendQ'[t] = sendQ[t] \/ t \in mySessions[e]
    BY <1>1, <1>2, EnqueueEffect
  <2>4. HoldInv'
    <3>1. GameHolds'
      BY <2>2 DEF HoldInv, GameHolds
    <3>2. \A f \in Net : \/ net'[f] = net[f]
                         \/ /\ net[f].pc \notin {"setFd", "setOwner", "drop"}
                            /\ net'[f].pc \notin {"setFd", "setOwner", "drop"}
      BY <1>0, <2>1 DEF Held
    <3> QED BY <2>2, <2>3, <3>1, <3>2, HoldQuiet
  <2>5. CleanupBits'
    <3>1. CleanupOf(e)'
      BY <1>0, <2>1 DEF CleanupOf
    <3> QED BY <2>1, <2>2, <3>1, CleanupOther
  <2> QED BY <2>4, <2>5
<1>3. CASE Disconnect(e, net[e].sess) /\ UNCHANGED sendQ
  BY <1>0, <1>3, CutStep
<1> QED BY <1>2, <1>3 DEF SendBytes

(* The fields of a frame that starts a new round.                               *)
LEMMA IdleFields ==
    ASSUME NEW b \in SUBSET Sess
    PROVE  /\ Idle(b).pc = "idle" /\ Idle(b).ret = "loop" /\ Idle(b).bits = b
           /\ \A p \in Pc, s \in Sess :
                /\ [Idle(b) EXCEPT !.pc = p, !.sess = s].pc = p
                /\ [Idle(b) EXCEPT !.pc = p, !.sess = s].ret = "loop"
                /\ [Idle(b) EXCEPT !.pc = p, !.sess = s].sess = s
                /\ [Idle(b) EXCEPT !.pc = p, !.sess = s].bits = b
           /\ \A p \in Pc, s \in Sess, t \in {"loop", "parse", "cleanup"} :
                /\ [Idle(b) EXCEPT !.pc = p, !.sess = s, !.ret = t].pc = p
                /\ [Idle(b) EXCEPT !.pc = p, !.sess = s, !.ret = t].ret = t
                /\ [Idle(b) EXCEPT !.pc = p, !.sess = s, !.ret = t].sess = s
                /\ [Idle(b) EXCEPT !.pc = p, !.sess = s, !.ret = t].bits = b
           /\ \A p \in Pc, t \in {"loop", "parse", "cleanup"} :
                /\ [Idle(b) EXCEPT !.pc = p, !.ret = t].pc = p
                /\ [Idle(b) EXCEPT !.pc = p, !.ret = t].ret = t
                /\ [Idle(b) EXCEPT !.pc = p, !.ret = t].bits = b
BY DEF Idle, Pc

(* The fields of a frame that gets another program counter.                     *)
LEMMA FrameFields ==
    ASSUME NEW x \in NetFrame, NEW p \in Pc
    PROVE  /\ [x EXCEPT !.pc = p].pc = p /\ [x EXCEPT !.pc = p].ret = x.ret
           /\ [x EXCEPT !.pc = p].sess = x.sess /\ [x EXCEPT !.pc = p].bits = x.bits
BY DEF NetFrame, Pc

(* The program counters, by name.                                               *)
LEMMA PcNames ==
    /\ \A p \in {"idle", "setFd", "setOwner", "parse", "reply", "flush", "drop", "recheck",
                 "cleanup", "exited"} : p \in Pc
    /\ {} \in SUBSET Sess
BY DEF Pc

(* FlushSend moves no reference.                                                *)
LEMMA HoldFlush ==
    ASSUME TypeOK, HoldInv, CleanupBits, OwnWork, NEW e \in Net, FlushSend(e)
    PROVE  HoldInv' /\ CleanupBits'
<1>1. /\ net[e].pc = "flush" /\ net[e].sess \in mySessions[e]
      /\ \A t \in Sess : t # net[e].sess => sendQ'[t] = sendQ[t]
      /\ net' = net \/ net' = [net EXCEPT ![e] = Return(e)]
      /\ UNCHANGED <<free, gen, refs, dead, fd, owner, inRoom, mySessions, members, leaving, game>>
  BY DEF FlushSend, OwnWork, TypeOK, poolVars, roomVars
<1>2. net[e].ret # "cleanup" /\ Return(e).pc \in {"idle", "recheck"} /\ Return(e).ret = net[e].ret
  <2>1. net[e].ret # "cleanup" /\ net[e].ret \in {"loop", "parse", "cleanup"}
    BY <1>1, NetTyped DEF CleanupBits, CleanupOf
  <2> QED BY <2>1, ReturnPc
<1>3. /\ \A f \in Net : f # e => net'[f] = net[f]
      /\ net'[e] = net[e] \/ net'[e] = Return(e)
  BY <1>1 DEF TypeOK
<1>4. HoldInv'
  <2>1. GameHolds'
    BY <1>1 DEF HoldInv, GameHolds
  <2>2. \A f \in Net : \/ net'[f] = net[f]
                       \/ /\ net[f].pc \notin {"setFd", "setOwner", "drop"}
                          /\ net'[f].pc \notin {"setFd", "setOwner", "drop"}
    BY <1>1, <1>2, <1>3
  <2>3. \A t \in Sess : sendQ'[t] = sendQ[t] \/ InMembers(t) \/ \E f \in Net : t \in mySessions[f]
    BY <1>1
  <2> QED BY <1>1, <2>1, <2>2, <2>3, HoldQuiet
<1>5. CleanupBits'
  <2>1. CleanupOf(e)'
    BY <1>1, <1>2, <1>3 DEF CleanupOf
  <2> QED BY <1>1, <1>3, <2>1, CleanupOther
<1> QED BY <1>4, <1>5

(* CleanupInThread cuts a live session of the worker's list.                    *)
LEMMA HoldCleanupCut ==
    ASSUME TypeOK, HoldInv, CleanupBits, NEW e \in Net, NEW s \in Sess, CleanupCut(e, s)
    PROVE  HoldInv' /\ CleanupBits' /\ Cuts(e, s)
<1>1. net[e].pc = "cleanup" /\ net[e].ret = "cleanup" /\ s \in mySessions[e]
        /\ net[e].bits = mySessions[e]
  BY DEF CleanupCut, CleanupBits, CleanupOf
<1>2. ~dead[s]
  BY <1>1, OwnedLive
<1> DEFINE x == [net[e] EXCEPT !.bits = @ \ {s}, !.sess = s, !.pc = "drop"]
<1>3. net' = [net EXCEPT ![e] = x]
  BY <1>2 DEF CleanupCut, TypeOK
<1>4. x.pc = "drop" /\ x.sess = s /\ x.ret = "cleanup" /\ x.bits = mySessions[e] \ {s}
  BY <1>1, NetTyped DEF NetFrame
<1> HIDE DEF x
<1>5. net'[e] = x /\ \A f \in Net : f # e => net'[f] = net[f]
  BY <1>3 DEF TypeOK
<1>6. Cuts(e, s)
  BY <1>1, <1>2, <1>4, <1>5 DEF CleanupCut, Cuts, roomVars, TypeOK, PoolTypeOK
<1>7. mySessions' = mySessions /\ game' = game /\ members' = members
  BY DEF CleanupCut, roomVars
<1>8. HoldInv'
  <2>1. GameHolds'
    BY <1>7 DEF HoldInv, GameHolds
  <2> QED BY <1>6, <2>1, HoldCuts
<1>9. CleanupBits'
  <2>1. CleanupOf(e)'
    BY <1>1, <1>4, <1>5, <1>7 DEF CleanupOf
  <2> QED BY <1>5, <1>7, <2>1, CleanupOther
<1> QED BY <1>6, <1>8, <1>9

(* CleanupInThread ends with an empty list.                                     *)
LEMMA HoldCleanupDone ==
    ASSUME TypeOK, HoldInv, CleanupBits, NEW e \in Net, CleanupDone(e)
    PROVE  HoldInv' /\ CleanupBits'
<1>1. net[e].pc = "cleanup" /\ mySessions[e] = {} /\ net[e].ret = "cleanup"
  BY DEF CleanupDone, CleanupBits, CleanupOf
<1>2. /\ net'[e].pc = "exited" /\ net'[e].ret = net[e].ret
      /\ \A f \in Net : f # e => net'[f] = net[f]
  BY NetTyped DEF CleanupDone, TypeOK, NetFrame
<1>3. UNCHANGED <<free, gen, refs, dead, fd, owner, sendQ, inRoom, mySessions, members, leaving,
        game>>
  BY DEF CleanupDone, poolVars, sockVars, roomVars
<1>4. HoldInv'
  <2>1. GameHolds'
    BY <1>3 DEF HoldInv, GameHolds
  <2> QED BY <1>1, <1>2, <1>3, <2>1, HoldQuiet
<1>5. CleanupBits'
  <2>1. CleanupOf(e)'
    BY <1>1, <1>2, <1>3 DEF CleanupOf
  <2> QED BY <1>2, <1>3, <2>1, CleanupOther
<1> QED BY <1>4, <1>5

(* CleanupInThread begins with a copy of the list.                              *)
LEMMA HoldLoopExit ==
    ASSUME TypeOK, HoldInv, CleanupBits, NEW e \in Net, LoopExit(e)
    PROVE  HoldInv' /\ CleanupBits'
<1> DEFINE x == [Idle(Mine(e)) EXCEPT !.pc = "cleanup", !.ret = "cleanup"]
<1>0. mySessions[e] \in SUBSET Sess
  BY DEF TypeOK
<1>1. x.pc = "cleanup" /\ x.ret = "cleanup" /\ x.bits = mySessions[e]
  BY <1>0, IdleFields, PcNames DEF Mine
<1> HIDE DEF x
<1>2. net[e].pc = "idle" /\ net'[e] = x /\ \A f \in Net : f # e => net'[f] = net[f]
  BY DEF LoopExit, Between, TypeOK, x
<1>3. UNCHANGED <<free, gen, refs, dead, fd, owner, sendQ, inRoom, mySessions, members, leaving,
        game>>
  BY DEF LoopExit, poolVars, sockVars, roomVars
<1>4. HoldInv'
  <2>1. GameHolds'
    BY <1>3 DEF HoldInv, GameHolds
  <2> QED BY <1>1, <1>2, <1>3, <2>1, HoldQuiet
<1>5. CleanupBits'
  <2>1. CleanupOf(e)'
    BY <1>1, <1>2, <1>3 DEF CleanupOf
  <2> QED BY <1>2, <1>3, <2>1, CleanupOther
<1> QED BY <1>4, <1>5

(* The second half of Disconnect takes the session off the list.                *)
LEMMA CleanupDrop ==
    ASSUME TypeOK, CleanupBits, NEW e \in Net, Drop(e)
    PROVE  CleanupBits'
<1>1. /\ net[e].pc = "drop" /\ net'[e] = Return(e) /\ mySessions'[e] = mySessions[e] \ {net[e].sess}
      /\ \A f \in Net : f # e => net'[f] = net[f] /\ mySessions'[f] = mySessions[f]
  BY DEF Drop, TypeOK
<1>2. CleanupOf(e)'
  <2>1. CASE net[e].ret = "cleanup"
    <3>1. net'[e].pc = "cleanup" /\ net'[e].bits = net[e].bits /\ net'[e].ret = "cleanup"
      BY <1>1, <2>1, ReturnPc
    <3>2. mySessions'[e] = net[e].bits
      BY <1>1, <2>1 DEF CleanupBits, CleanupOf
    <3> QED BY <3>1, <3>2 DEF CleanupOf
  <2>2. CASE net[e].ret # "cleanup"
    <3>1. net'[e].ret # "cleanup" /\ net'[e].pc \in {"idle", "recheck"}
      BY <1>1, <2>2, ReturnPc, NetTyped
    <3> QED BY <3>1 DEF CleanupOf
  <2> QED BY <2>1, <2>2
<1> QED BY <1>1, <1>2, CleanupOther

(* Every step of an epoll worker keeps HoldInv and CleanupBits.                 *)
LEMMA HoldStepNet ==
    ASSUME TypeOK, HoldInv, CleanupBits, OwnWork, NEW e \in Net, NetEvent(e) \/ NetContinues(e)
    PROVE  HoldInv' /\ CleanupBits'
<1>0. net[e] \in NetFrame /\ net[e].sess \in Sess /\ net[e].bits \in SUBSET Sess
  BY NetTyped
<1>1. ASSUME net[e].pc \notin {"cleanup", "drop", "exited"} PROVE net[e].ret # "cleanup"
  BY <1>1 DEF CleanupBits, CleanupOf
<1>2. ASSUME NEW s \in Sess, AcceptAlloc(e, s) PROVE HoldInv' /\ CleanupBits'
  <2> DEFINE x == [Idle({}) EXCEPT !.pc = "setFd", !.sess = s]
  <2>1. x.pc = "setFd" /\ x.ret = "loop"
    BY IdleFields, PcNames
  <2> HIDE DEF x
  <2>2. net'[e] = x /\ (\A f \in Net : f # e => net'[f] = net[f]) /\ mySessions' = mySessions
    BY <1>2 DEF AcceptAlloc, TypeOK, x
  <2> QED BY <1>2, <2>1, <2>2, HoldAcceptAlloc, CleanupOther DEF CleanupOf
<1>3. CASE AcceptFd(e)
  <2>1. /\ net'[e].pc = "setOwner" /\ net'[e].ret = net[e].ret
        /\ net[e].pc = "setFd" /\ (\A f \in Net : f # e
                  => net'[f] = net[f]) /\ mySessions' = mySessions
    BY <1>0, <1>3 DEF AcceptFd, TypeOK, NetFrame
  <2> QED BY <1>1, <1>3, <2>1, HoldAcceptFd, CleanupOther DEF CleanupOf
<1>4. CASE AcceptFails(e)
  <2>1. /\ net'[e].pc = "drop" /\ net'[e].ret = net[e].ret
        /\ net[e].pc = "setOwner" /\ (\A f \in Net : f # e
                  => net'[f] = net[f]) /\ mySessions' = mySessions
    BY <1>0, <1>4 DEF AcceptFails, TypeOK, NetFrame
  <2> QED BY <1>1, <1>4, <2>1, HoldAcceptFails, CleanupOther DEF CleanupOf
<1>5. CASE AcceptOwner(e)
  <2>1. /\ net'[e] = Idle({})
        /\ \A f \in Net : f # e => net'[f] = net[f] /\ mySessions'[f] = mySessions[f]
    BY <1>5 DEF AcceptOwner, TypeOK
  <2>2. net'[e].pc = "idle" /\ net'[e].ret = "loop"
    BY <2>1, IdleFields, PcNames
  <2> QED BY <1>5, <2>1, <2>2, HoldAcceptOwner, CleanupOther DEF CleanupOf
<1>6. ASSUME NEW s \in Sess, HandleReadable(e, s) PROVE HoldInv' /\ CleanupBits'
  <2> DEFINE x == [Idle({}) EXCEPT !.pc = "parse", !.sess = s, !.ret = "parse"]
  <2>1. x \in NetFrame /\ x.pc = "parse" /\ x.ret = "parse"
    BY DEF Idle, NetFrame
  <2>2. net' = [net EXCEPT ![e] = x] /\ net[e].pc = "idle"
    BY <1>6 DEF HandleReadable, Between
  <2> HIDE DEF x
  <2> QED BY <1>6, <2>1, <2>2, FrameStep DEF HandleReadable, Held
<1>7. ASSUME NEW s \in Sess, HandleHangup(e, s) PROVE HoldInv' /\ CleanupBits'
  BY <1>1, <1>7, CutStep DEF HandleHangup, Between, Registered, Held
<1>8. ASSUME NEW s \in Sess, HandleWritable(e, s) PROVE HoldInv' /\ CleanupBits'
  <2> DEFINE x == [Idle({}) EXCEPT !.pc = "flush", !.sess = s]
  <2>1. x \in NetFrame /\ x.pc = "flush" /\ x.ret = "loop"
    BY DEF Idle, NetFrame
  <2>2. net' = [net EXCEPT ![e] = x] /\ net[e].pc = "idle"
    BY <1>8 DEF HandleWritable, Between
  <2> HIDE DEF x
  <2> QED BY <1>8, <2>1, <2>2, FrameStep DEF HandleWritable, Held
<1>9. CASE ParseDone(e)
  <2>1. Idle({}) \in NetFrame /\ Idle({}).pc = "idle" /\ Idle({}).ret = "loop"
    BY IdleTyped, IdleFields, PcNames
  <2> QED BY <1>9, <2>1, FrameStep DEF ParseDone, Held
<1>10. CASE DispatchBad(e)
  <2>1. net[e].sess \in mySessions[e]
    BY <1>10 DEF DispatchBad, OwnWork
  <2> QED BY <1>1, <1>10, <2>1, CutStep DEF DispatchBad, Held
<1>11. CASE DispatchJoin(e)
  <2>1. /\ net'[e].pc = "reply" /\ net'[e].ret = net[e].ret
        /\ net[e].pc = "parse" /\ (\A f \in Net : f # e
                  => net'[f] = net[f]) /\ mySessions' = mySessions
    BY <1>0, <1>11 DEF DispatchJoin, TypeOK, NetFrame
  <2> QED BY <1>1, <1>11, <2>1, HoldDispatchJoin, CleanupOther DEF CleanupOf
<1>12. CASE ReplyJoinOk(e)
  <2>1. net[e].sess \in mySessions[e] /\ net[e].pc = "reply"
    BY <1>12 DEF ReplyJoinOk, OwnWork
  <2> QED BY <1>12, <2>1, SendStep DEF ReplyJoinOk
<1>13. CASE DispatchReply(e)
  <2>1. net[e].sess \in mySessions[e] /\ net[e].pc = "parse"
    BY <1>13 DEF DispatchReply, OwnWork
  <2> QED BY <1>13, <2>1, SendStep DEF DispatchReply
<1>14. CASE FlushFails(e)
  <2>1. net[e].sess \in mySessions[e]
    BY <1>14 DEF FlushFails, OwnWork
  <2> QED BY <1>1, <1>14, <2>1, CutStep DEF FlushFails, Held
<1>15. CASE Recheck(e)
  <2> DEFINE x == IF dead[net[e].sess] THEN Idle({}) ELSE [net[e] EXCEPT !.pc = "parse"]
  <2>1. x \in NetFrame /\ x.pc \in {"idle", "parse"} /\ x.ret \in {"loop", net[e].ret}
    <3>1. NoSess \in Sess
      BY SessAssumption DEF NoSess
    <3> QED BY <1>0, <3>1 DEF Idle, NetFrame
  <2>2. net' = [net EXCEPT ![e] = x] /\ net[e].pc = "recheck" /\ net[e].ret # "cleanup"
    BY <1>1, <1>15 DEF Recheck
  <2> HIDE DEF x
  <2> QED BY <1>15, <2>1, <2>2, FrameStep DEF Recheck, Held
<1>16. CASE DrainTake(e)
  <2>1. dirty[e] \in SUBSET Sess
    BY DEF TypeOK
  <2>2. Idle(dirty[e]) \in NetFrame /\ Idle(dirty[e]).pc = "idle" /\ Idle(dirty[e]).ret = "loop"
    BY <2>1, IdleTyped, IdleFields
  <2>3. net[e].pc = "idle" /\ net' = [net EXCEPT ![e] = Idle(dirty[e])]
        /\ UNCHANGED <<poolVars, conns, snaps, sockVars, sendQ, roomVars, kbuf, mySessions, game,
             stopVars>>
    BY <1>16 DEF DrainTake, Between
  <2> QED BY <2>2, <2>3, FrameStep DEF Held
<1>17. ASSUME NEW s \in Sess, DrainVisit(e, s) PROVE HoldInv' /\ CleanupBits'
  <2> DEFINE b == net[e].bits \ {s}
             x == IF DrainTest(e, s) THEN [Idle(b) EXCEPT !.pc = "flush", !.sess = s] ELSE Idle(b)
  <2>1. b \in SUBSET Sess
    BY <1>0
  <2> HIDE DEF b
  <2>2. x \in NetFrame /\ x.pc \in {"flush", "idle"} /\ x.ret = "loop"
    <3>1. NoSess \in Sess
      BY SessAssumption DEF NoSess
    <3> QED BY <2>1, <3>1 DEF Idle, NetFrame
  <2>3. net[e].pc = "idle" /\ net' = [net EXCEPT ![e] = x]
    BY <1>17 DEF DrainVisit, b
  <2> HIDE DEF x
  <2> QED BY <1>17, <2>2, <2>3, FrameStep DEF DrainVisit, Held
<1>18. CASE FlushSend(e)
  BY <1>18, HoldFlush
<1>19. CASE Drop(e)
  BY <1>19, HoldDrop, CleanupDrop
<1>20. CASE LoopExit(e)
  BY <1>20, HoldLoopExit
<1>21. CASE CleanupDone(e)
  BY <1>21, HoldCleanupDone
<1>22. ASSUME NEW s \in Sess, CleanupCut(e, s) PROVE HoldInv' /\ CleanupBits'
  BY <1>22, HoldCleanupCut
<1> QED BY <1>2, <1>3, <1>4, <1>5, <1>6, <1>7, <1>8, <1>9, <1>10, <1>11, <1>12, <1>13, <1>14,
           <1>15,
           <1>16, <1>17, <1>18, <1>19, <1>20, <1>21, <1>22 DEF NetEvent, NetContinues

(* A step of the game worker or of main that moves no reference.                *)
LEMMA GameStepHolds ==
    ASSUME TypeOK, HoldInv, CleanupBits, UNCHANGED <<net, mySessions>>,
           UNCHANGED <<free, gen, refs, dead, fd, owner, inRoom, members, leaving>>,
           game'.pc # "idle" => \E m \in members : game'.m = {m},
           \A s \in Sess : sendQ'[s] = sendQ[s] \/ InMembers(s)
    PROVE  HoldInv' /\ CleanupBits'
<1>1. GameHolds'
  BY DEF GameHolds
<1>2. HoldInv'
  BY <1>1, HoldQuiet
<1>3. CleanupBits'
  BY DEF CleanupBits, CleanupOf
<1> QED BY <1>2, <1>3

(* Every step keeps HoldInv and CleanupBits.                                    *)
LEMMA HoldStep ==
    TypeOK /\ HoldInv /\ CleanupBits /\ OwnWork /\ [Next]_vars => HoldInv' /\ CleanupBits'
<1> SUFFICES ASSUME TypeOK, HoldInv, CleanupBits, OwnWork, [Next]_vars PROVE HoldInv' /\
                    CleanupBits'
  OBVIOUS
<1>0. GameHolds /\ \A m \in members : m.sess \in Sess /\ m.gen \in Nat
  BY DEF HoldInv, TypeOK, Member
<1>1. ASSUME NEW m \in members, GameTest(m) PROVE HoldInv' /\ CleanupBits'
  <2>1. game'.m = {m}
    BY <1>1 DEF GameTest
  <2>2. /\ UNCHANGED <<net, mySessions>> /\ sendQ' = sendQ
        /\ UNCHANGED <<free, gen, refs, dead, fd, owner, inRoom, members, leaving>>
    BY <1>1 DEF GameTest, poolVars, sockVars, roomVars
  <2> QED BY <2>1, <2>2, GameStepHolds
<1>2. CASE GameEnqueue
  <2>1. PICK m \in game.m :
          /\ game.pc = "enqueue"
          /\ IF HasRoom(m.sess)
               THEN Enqueue(m.sess, "SNAPSHOT", m.gen) /\ game' = [game EXCEPT !.pc = "mark"]
               ELSE UNCHANGED sendQ /\ game' = GameIdle
          /\ UNCHANGED <<poolVars, conns, snaps, sockVars, roomVars, kbuf, mySessions, dirty,
               net, stopVars>>
    BY <1>2 DEF GameEnqueue
  <2>2. m \in members /\ game.m = {m}
    BY <1>0, <2>1 DEF GameHolds
  <2>3. /\ UNCHANGED <<net, mySessions>>
        /\ UNCHANGED <<free, gen, refs, dead, fd, owner, inRoom, members, leaving>>
    BY <2>1 DEF poolVars, sockVars, roomVars
  <2>4. \A s \in Sess : sendQ'[s] = sendQ[s] \/ InMembers(s)
    <3>1. \A s \in Sess : sendQ'[s] = sendQ[s] \/ s = m.sess
      BY <1>0, <2>1, <2>2, EnqueueEffect
    <3> QED BY <2>2, <3>1 DEF InMembers
  <2>5. game'.pc # "idle" => game'.m = {m}
    <3>1. game \in [pc : {"idle", "enqueue", "mark"}, m : SUBSET Member]
      BY DEF TypeOK
    <3>2. [game EXCEPT !.pc = "mark"].m = {m} /\ GameIdle.pc = "idle"
      BY <2>2, <3>1 DEF GameIdle
    <3>3. game' = [game EXCEPT !.pc = "mark"] \/ game' = GameIdle
      BY <2>1
    <3> QED BY <3>2, <3>3
  <2> QED BY <2>2, <2>3, <2>4, <2>5, GameStepHolds
<1>3. CASE GameMark
  <2>1. /\ game' = GameIdle /\ UNCHANGED <<net, mySessions>> /\ sendQ' = sendQ
        /\ UNCHANGED <<free, gen, refs, dead, fd, owner, inRoom, members, leaving>>
    BY <1>3 DEF GameMark, poolVars, sockVars, roomVars
  <2>2. game'.pc = "idle"
    BY <2>1 DEF GameIdle
  <2> QED BY <2>1, <2>2, GameStepHolds
<1>4. ASSUME NEW m \in members, GameLeave(m) PROVE HoldInv' /\ CleanupBits'
  BY <1>4, HoldGameLeave DEF GameLeave, CleanupBits, CleanupOf
<1>5. ASSUME StopGame \/ (\E e \in Net : StopNet(e)) \/ (\E s \in Sess : ClientReads(s))
               \/ UNCHANGED vars
      PROVE  HoldInv' /\ CleanupBits'
  <2>1. /\ UNCHANGED <<net, mySessions>> /\ sendQ' = sendQ /\ game' = game
        /\ UNCHANGED <<free, gen, refs, dead, fd, owner, inRoom, members, leaving>>
    BY <1>5 DEF StopGame, StopNet, ClientReads, vars, poolVars, sockVars, roomVars
  <2>2. game'.pc # "idle" => \E m \in members : game'.m = {m}
    BY <1>0, <2>1 DEF GameHolds
  <2> QED BY <2>1, <2>2, GameStepHolds
<1> QED BY <1>1, <1>2, <1>3, <1>4, <1>5, HoldStepNet DEF Next, GameStep

(* No worker is in CleanupInThread at the start.                                *)
LEMMA CleanupInit == Init => CleanupBits
BY DEF Init, Idle, CleanupBits, CleanupOf

(* References, owners, sockets and members agree in every reachable state       *)
(* (Session.h: SessionPool; EpollWorker.cpp: HandleAccept, Disconnect,          *)
(* CleanupInThread).                                                            *)
THEOREM SendHolds == Spec /\ []OwnWork => [](TypeOK /\ HoldInv /\ CleanupBits)
<1>1. Init => TypeOK /\ HoldInv /\ CleanupBits
  BY TypeInit, HoldInit, CleanupInit
<1>2. (TypeOK /\ HoldInv /\ CleanupBits) /\ OwnWork /\ [Next]_vars
          => (TypeOK /\ HoldInv /\ CleanupBits)'
  BY TypeStep, HoldStep
<1> QED BY <1>1, <1>2, PTL DEF Spec

(* ShutdownLedger follows from who holds what.                                  *)
LEMMA LedgerFromHolds == TypeOK /\ HoldInv /\ CleanupBits => ShutdownLedger
<1> SUFFICES ASSUME TypeOK, HoldInv, CleanupBits, \A e \in Net : net[e].pc = "exited",
                    NEW s \in Sess \ free
             PROVE  /\ dead[s] /\ ~fd[s] /\ refs[s] = 1
                    /\ \E m \in members : m.sess = s /\ m.gen = gen[s]
                    /\ [sess |-> s, gen |-> gen[s]] \in leaving
  BY DEF ShutdownLedger
<1>1. ~NetHeld(s) /\ \A e \in Net : s \notin mySessions[e]
  BY DEF NetHeld, Holds, Accepting, Dropping, CleanupBits, CleanupOf
<1>2. dead[s] /\ ~fd[s] /\ ~inRoom[s]
  BY <1>1 DEF HoldInv, GoneDead, OpenOwned, JoinedOwned
<1>3. InMembers(s) /\ refs[s] = 1
  BY <1>1 DEF HoldInv, RefsExact, One
<1>4. PICK m \in members : m.sess = s
  BY <1>3 DEF InMembers
<1>5. m.gen = gen[s]
  BY <1>4 DEF HoldInv, MembersOnce
<1>6. [sess |-> s, gen |-> gen[s]] \in leaving
  BY <1>2, <1>4, <1>5 DEF HoldInv, LeaveQueued
<1> QED BY <1>2, <1>3, <1>4, <1>5, <1>6

(* A shutdown leaves what ShutdownLedger says, however many workers, sessions   *)
(* and rooms there are: no open socket, no live session, and no slot out of     *)
(* the pool but those that a room holds with a leave entry nobody will read     *)
(* (main.cpp:160).                                                              *)
THEOREM ShutdownLedgerHolds == Spec /\ []OwnWork => []ShutdownLedger
BY SendHolds, LedgerFromHolds, PTL

--------------------------------------------------------------------------------
(* No wakeup is lost.                                                           *)

(* A worker in HandleAccept or ReadSession has no dirty bits in its hand.       *)
BitsOf(e) ==
    net[e].pc \in {"setFd", "setOwner", "parse", "reply", "recheck"} \/ net[e].ret = "parse"
      => net[e].bits = {}

(* BitsOf for every worker: the rounds that end in the event loop forget no     *)
(* bit.                                                                         *)
ParseBits == \A e \in Net : BitsOf(e)

(* NoLostWakeup for one session.                                                *)
Due(s) == Live(s) /\ sendQ[s] # <<>> => FlushDue(s)

(* The inductive invariant of the send path.                                    *)
SendInv == TypeOK /\ HoldInv /\ CleanupBits /\ ParseBits /\ NoLostWakeup

(* All rings are empty at the start.                                            *)
LEMMA DueInit == Init => ParseBits /\ NoLostWakeup
BY DEF Init, Idle, ParseBits, BitsOf, NoLostWakeup

(* A live session with something to send is in its owner's list.                *)
LEMMA WaitingOwned ==
    ASSUME TypeOK, HoldInv, NEW s \in Sess, Live(s), sendQ[s] # <<>>
    PROVE  s \in mySessions[owner[s]]
<1>1. PICK e \in Net : s \in mySessions[e] \/ Accepting(e, s)
  BY DEF Live, HoldInv, OpenOwned
<1>2. ~Accepting(e, s)
  BY DEF HoldInv, AcceptFresh
<1> QED BY <1>1, <1>2 DEF HoldInv, OwnedOpen

(* Who is on the way to a ring stays so when a worker that is not flushing it   *)
(* takes a step.                                                                *)
LEMMA DueKept ==
    ASSUME NEW s \in Sess, NEW e \in Net, Due(s),
           Live(s)' => Live(s), sendQ'[s] = sendQ[s],
           owner'[s] = owner[s], wantWrite'[s] = wantWrite[s], owner[s] \in Net,
           \A f \in Net : f # e => net'[f] = net[f],
           net[e].pc \in {"flush", "drop"} => net[e].sess # s,
           net[e].bits \subseteq net'[e].bits, UNCHANGED <<dirty, game>>
    PROVE  Due(s)'
<1> SUFFICES ASSUME Live(s), sendQ[s] # <<>> PROVE FlushDue(s)'
  BY DEF Due
<1>1. FlushDue(s)
  BY DEF Due
<1>2. CASE owner[s] = e
  BY <1>1, <1>2 DEF FlushDue
<1>3. CASE owner[s] # e
  BY <1>1, <1>3 DEF FlushDue
<1> QED BY <1>2, <1>3

(* ParseBits depends on each worker alone.                                      *)
LEMMA BitsOther ==
    ASSUME ParseBits, NEW e \in Net, \A f \in Net : f # e => net'[f] = net[f], BitsOf(e)'
    PROVE  ParseBits'
BY DEF ParseBits, BitsOf

(* A step of a frame alone loses no wakeup.                                     *)
LEMMA DueFrame ==
    ASSUME SendInv, NEW e \in Net, \A f \in Net : f # e => net'[f] = net[f],
           net[e].pc \notin {"flush", "drop"}, net[e].bits \subseteq net'[e].bits, BitsOf(e)',
           UNCHANGED <<poolVars, sockVars, sendQ, dirty, game>>
    PROVE  ParseBits' /\ NoLostWakeup'
<1>1. \A s \in Sess : (Live(s)' <=> Live(s)) /\ owner[s] \in Net /\ Due(s)
  BY DEF Live, poolVars, sockVars, SendInv, TypeOK, NoLostWakeup, Due
<1>2. \A s \in Sess : Due(s)'
  BY <1>1, DueKept DEF sockVars
<1>3. ParseBits'
  BY BitsOther DEF SendInv
<1> QED BY <1>2, <1>3 DEF NoLostWakeup, Due

(* Cutting a session loses no wakeup of another one.                            *)
LEMMA DueCut ==
    ASSUME SendInv, NEW e \in Net, NEW c \in Sess, ~dead[c],
           dead'[c] /\ \A t \in Sess : t # c => dead'[t] = dead[t] /\ fd'[t] = fd[t],
           \A f \in Net : f # e => net'[f] = net[f],
           net[e].pc \in {"flush", "drop"} => net[e].sess = c,
           net[e].bits \ {c} \subseteq net'[e].bits, BitsOf(e)',
           UNCHANGED <<free, owner, wantWrite, sendQ, dirty, game>>
    PROVE  ParseBits' /\ NoLostWakeup'
<1>1. \A s \in Sess : s # c => (Live(s)' => Live(s)) /\ owner[s] \in Net /\ Due(s)
  BY DEF Live, SendInv, TypeOK, NoLostWakeup, Due
<1>2. ASSUME NEW s \in Sess, s # c PROVE Due(s)'
  <2>1. CASE owner[s] = e
    BY <1>1, <1>2, <2>1 DEF Due, FlushDue
  <2>2. CASE owner[s] # e
    BY <1>1, <1>2, <2>2 DEF Due, FlushDue
  <2> QED BY <2>1, <2>2
<1>3. Due(c)'
  BY DEF Due, Live
<1>4. ParseBits'
  BY BitsOther DEF SendInv
<1> QED BY <1>2, <1>3, <1>4 DEF NoLostWakeup, Due

(* HandleAccept on a fresh slot loses no wakeup.                                *)
LEMMA DueAcceptAlloc ==
    ASSUME SendInv, NEW e \in Net, NEW s \in Sess, AcceptAlloc(e, s)
    PROVE  ParseBits' /\ NoLostWakeup'
<1>1. net'[e] = [Idle({}) EXCEPT !.pc = "setFd", !.sess = s] /\ \A f \in Net : f # e
          => net'[f] = net[f]
  BY DEF AcceptAlloc, SendInv, TypeOK
<1>2. net'[e].bits = {} /\ net[e].pc = "idle" /\ net[e].bits = {}
  BY <1>1 DEF Idle, AcceptAlloc, Between
<1>3. /\ free' = free \ {s} /\ ~fd'[s]
      /\ \A t \in Sess : t # s => /\ dead'[t] = dead[t] /\ fd'[t] = fd[t]
           /\ wantWrite'[t] = wantWrite[t]
                                  /\ sendQ'[t] = sendQ[t]
      /\ UNCHANGED <<owner, dirty, game>>
  BY DEF AcceptAlloc, Alloc, ClearRings, SendInv, TypeOK, PoolTypeOK
<1>4. ASSUME NEW t \in Sess, t # s PROVE Due(t)'
  <2>1. Due(t) /\ owner[t] \in Net /\ (Live(t)' => Live(t))
    BY <1>3, <1>4 DEF Live, SendInv, TypeOK, NoLostWakeup, Due
  <2> QED BY <1>1, <1>2, <1>3, <1>4, <2>1, DueKept
<1>5. Due(s)'
  BY <1>3 DEF Due, Live
<1>6. ParseBits'
  BY <1>1, <1>2, BitsOther DEF SendInv, BitsOf
<1> QED BY <1>4, <1>5, <1>6 DEF NoLostWakeup, Due

(* A session that becomes live has an empty ring.                               *)
LEMMA DueAcceptFd ==
    ASSUME SendInv, NEW e \in Net, AcceptFd(e)
    PROVE  ParseBits' /\ NoLostWakeup'
<1>1. /\ net[e].pc = "setFd" /\ net'[e].pc = "setOwner" /\ net'[e].bits = net[e].bits
      /\ net'[e].ret = net[e].ret /\ \A f \in Net : f # e => net'[f] = net[f]
  BY NetTyped DEF AcceptFd, SendInv, TypeOK, NetFrame
<1>2. PICK s \in Sess : s = net[e].sess
  BY NetTyped DEF SendInv
<1>3. sendQ[s] = <<>>
  BY <1>1, <1>2 DEF SendInv, HoldInv, AcceptFresh, Accepting
<1>4. /\ \A t \in Sess : t # s => fd'[t] = fd[t]
      /\ UNCHANGED <<free, dead, owner, wantWrite, sendQ, dirty, game>>
  BY <1>2 DEF AcceptFd, poolVars, SendInv, TypeOK
<1>5. ASSUME NEW t \in Sess, t # s PROVE Due(t)'
  <2>1. Due(t) /\ owner[t] \in Net /\ (Live(t)' => Live(t))
    BY <1>4, <1>5 DEF Live, SendInv, TypeOK, NoLostWakeup, Due
  <2> QED BY <1>1, <1>4, <1>5, <2>1, DueKept
<1>6. Due(s)'
  BY <1>3, <1>4 DEF Due
<1>7. ParseBits'
  BY <1>1, BitsOther DEF SendInv, ParseBits, BitsOf
<1> QED BY <1>5, <1>6, <1>7 DEF NoLostWakeup, Due

(* The end of HandleAccept loses no wakeup, whether epoll_ctl(ADD) succeeds     *)
(* or fails.                                                                    *)
LEMMA DueAcceptEnd ==
    ASSUME SendInv, NEW e \in Net, AcceptFails(e) \/ AcceptOwner(e)
    PROVE  ParseBits' /\ NoLostWakeup'
<1>0. PICK s \in Sess : s = net[e].sess
  BY NetTyped DEF SendInv
<1>1. /\ net[e].pc = "setOwner" /\ net[e].bits = {} /\ net'[e].bits = {}
      /\ \A f \in Net : f # e => net'[f] = net[f]
  <2>1. net[e].pc = "setOwner" /\ net[e].bits = {}
    BY DEF AcceptFails, AcceptOwner, SendInv, ParseBits, BitsOf
  <2>2. CASE AcceptFails(e)
    BY <2>1, <2>2, NetTyped DEF AcceptFails, SendInv, TypeOK, NetFrame
  <2>3. CASE AcceptOwner(e)
    BY <2>1, <2>3 DEF AcceptOwner, SendInv, TypeOK, Idle
  <2> QED BY <2>1, <2>2, <2>3
<1>2. sendQ[s] = <<>>
  BY <1>0, <1>1 DEF SendInv, HoldInv, AcceptFresh, Accepting
<1>3. /\ \A t \in Sess : t # s => fd'[t] = fd[t] /\ dead'[t] = dead[t] /\ owner'[t] = owner[t]
      /\ UNCHANGED <<free, wantWrite, sendQ, dirty, game>>
  BY <1>0 DEF AcceptFails, AcceptOwner, poolVars, SendInv, TypeOK, PoolTypeOK
<1>4. ASSUME NEW t \in Sess, t # s PROVE Due(t)'
  <2>1. Due(t) /\ owner[t] \in Net /\ (Live(t)' => Live(t))
    BY <1>3, <1>4 DEF Live, SendInv, TypeOK, NoLostWakeup, Due
  <2> QED BY <1>1, <1>3, <1>4, <2>1, DueKept
<1>5. Due(s)'
  BY <1>2, <1>3 DEF Due
<1>6. ParseBits'
  BY <1>1, BitsOther DEF SendInv, BitsOf
<1> QED BY <1>4, <1>5, <1>6 DEF NoLostWakeup, Due

(* Disconnect loses no wakeup.                                                  *)
LEMMA DueDisconnect ==
    ASSUME SendInv, NEW e \in Net, NEW s \in mySessions[e], net[e].pc # "drop",
           net[e].pc = "flush" => net[e].sess = s, Disconnect(e, s),
           UNCHANGED <<conns, snaps, sendQ, roomVars, mySessions, dirty, game, stopVars>>
    PROVE  ParseBits' /\ NoLostWakeup'
<1>1. s \in Sess /\ ~dead[s]
  BY OwnedLive DEF SendInv
<1>2. /\ dead'[s] /\ ~fd'[s] /\ \A t \in Sess : t # s => dead'[t] = dead[t] /\ fd'[t] = fd[t]
      /\ net'[e].pc = "drop" /\ net'[e].ret = net[e].ret /\ net'[e].bits = net[e].bits
      /\ \A f \in Net : f # e => net'[f] = net[f]
      /\ UNCHANGED <<free, owner, wantWrite>>
  BY <1>1, DisconnectEffect DEF SendInv
<1>3. BitsOf(e)'
  BY <1>2 DEF BitsOf, SendInv, ParseBits
<1> QED BY <1>1, <1>2, <1>3, DueCut

(* SendBytes goes on to FlushSend.                                              *)
LEMMA DueSend ==
    ASSUME SendInv, NEW e \in Net, net[e].sess \in mySessions[e],
           net[e].pc \in {"parse", "reply"}, SendBytes(e),
           UNCHANGED <<conns, snaps, roomVars, mySessions, dirty, game, stopVars>>
    PROVE  ParseBits' /\ NoLostWakeup'
<1>0. PICK s \in Sess : s = net[e].sess
  BY NetTyped DEF SendInv
<1>1. CASE /\ Enqueue(net[e].sess, "REPLY", gen[net[e].sess])
           /\ net' = [net EXCEPT ![e].pc = "flush"] /\ UNCHANGED <<poolVars, sockVars, kbuf>>
  <2>1. /\ net'[e].pc = "flush" /\ net'[e].sess = s /\ net'[e].ret = net[e].ret
        /\ net'[e].bits = net[e].bits /\ net[e].bits = {}
        /\ \A f \in Net : f # e => net'[f] = net[f]
    BY <1>0, <1>1, NetTyped DEF SendInv, TypeOK, NetFrame, ParseBits, BitsOf
  <2>2. owner[s] = e
    BY <1>0, OwnedLive DEF SendInv
  <2>3. \A t \in Sess : t # s => sendQ'[t] = sendQ[t]
    BY <1>0, <1>1, EnqueueEffect DEF SendInv
  <2>4. ASSUME NEW t \in Sess, t # s PROVE Due(t)'
    <3>1. Due(t) /\ owner[t] \in Net /\ (Live(t)' => Live(t))
      BY <1>1 DEF Live, SendInv, TypeOK, NoLostWakeup, Due, poolVars, sockVars
    <3>2. /\ sendQ'[t] = sendQ[t] /\ owner'[t] = owner[t] /\ wantWrite'[t] = wantWrite[t]
          /\ net[e].pc \notin {"flush", "drop"} /\ UNCHANGED <<dirty, game>>
      BY <1>1, <2>3, <2>4 DEF sockVars
    <3> QED BY <2>1, <3>1, <3>2, DueKept
  <2>5. Due(s)'
    BY <1>1, <2>1, <2>2 DEF Due, FlushDue, sockVars
  <2>6. ParseBits'
    BY <2>1, BitsOther DEF SendInv, BitsOf
  <2> QED BY <2>4, <2>5, <2>6 DEF NoLostWakeup, Due
<1>2. CASE Disconnect(e, net[e].sess) /\ UNCHANGED sendQ
  BY <1>2, DueDisconnect
<1> QED BY <1>1, <1>2 DEF SendBytes

(* FlushSend takes a prefix of one ring, and arms EPOLLOUT unless it takes      *)
(* all.                                                                         *)
LEMMA FlushEffect ==
    ASSUME TypeOK, NEW e \in Net, NEW s \in Sess, s = net[e].sess, FlushSend(e)
    PROVE  /\ Written(s) \in 0 .. Len(sendQ[s])
           /\ sendQ'[s] = SubSeq(sendQ[s], Written(s) + 1, Len(sendQ[s]))
           /\ Written(s) < Len(sendQ[s]) => wantWrite'[s]
           /\ \A t \in Sess : t # s => sendQ'[t] = sendQ[t] /\ wantWrite'[t] = wantWrite[t]
<1> DEFINE n == Written(s)
<1>1. /\ sendQ' = [sendQ EXCEPT ![s] = SubSeq(sendQ[s], n + 1, Len(sendQ[s]))]
      /\ wantWrite' = [wantWrite EXCEPT ![s] = sendQ[s] # <<>> /\ Armed(s, n)]
  BY DEF FlushSend
<1>2. n \in 0 .. Len(sendQ[s])
  BY CapAssumption DEF Written, Min2, TypeOK
<1> HIDE DEF n
<1>3. n < Len(sendQ[s]) => wantWrite'[s]
  <2>1. wantWrite'[s] = (sendQ[s] # <<>> /\ Armed(s, n))
    BY <1>1 DEF TypeOK
  <2>2. n < Len(sendQ[s]) => sendQ[s] # <<>> /\ Armed(s, n)
    BY <1>2 DEF Armed, TypeOK
  <2> QED BY <2>1, <2>2
<1>4. sendQ'[s] = SubSeq(sendQ[s], n + 1, Len(sendQ[s]))
  BY <1>1 DEF TypeOK
<1>5. \A t \in Sess : t # s => sendQ'[t] = sendQ[t] /\ wantWrite'[t] = wantWrite[t]
  BY <1>1 DEF TypeOK
<1> QED BY <1>2, <1>3, <1>4, <1>5 DEF n

(* FlushSend leaves EPOLLOUT armed, or the ring empty.                          *)
LEMMA DueFlush ==
    ASSUME SendInv, OwnWork, NEW e \in Net, FlushSend(e)
    PROVE  ParseBits' /\ NoLostWakeup'
<1>0. PICK s \in Sess : s = net[e].sess
  BY NetTyped DEF SendInv
<1> DEFINE n == Written(s)
<1>1. /\ n \in 0 .. Len(sendQ[s]) /\ sendQ'[s] = SubSeq(sendQ[s], n + 1, Len(sendQ[s]))
      /\ n < Len(sendQ[s]) => wantWrite'[s]
  BY <1>0, FlushEffect DEF SendInv
<1> HIDE DEF n
<1>2. /\ \A t \in Sess : t # s => sendQ'[t] = sendQ[t] /\ wantWrite'[t] = wantWrite[t]
      /\ UNCHANGED <<free, dead, fd, owner, dirty, game>>
  BY <1>0, FlushEffect DEF SendInv, FlushSend, poolVars
<1>3. /\ net[e].pc = "flush" /\ net'[e].bits = net[e].bits
      /\ \A f \in Net : f # e => net'[f] = net[f]
      /\ net'[e] = net[e] \/ net'[e] = Return(e)
  <2>1. net[e].pc = "flush" /\ (net' = net \/ net' = [net EXCEPT ![e] = Return(e)])
    BY DEF FlushSend
  <2>2. Return(e).bits = net[e].bits
    BY ReturnPc, NetTyped DEF SendInv
  <2> QED BY <2>1, <2>2 DEF SendInv, TypeOK
<1>4. Due(s)'
  <2>1. n = Len(sendQ[s]) => sendQ'[s] = <<>>
    BY <1>1 DEF SendInv, TypeOK
  <2> QED BY <1>1, <2>1 DEF Due, FlushDue
<1>5. ASSUME NEW t \in Sess, t # s PROVE Due(t)'
  <2>1. Due(t) /\ owner[t] \in Net /\ (Live(t)' => Live(t))
    BY <1>2 DEF Live, SendInv, TypeOK, NoLostWakeup, Due
  <2> QED BY <1>0, <1>2, <1>3, <1>5, <2>1, DueKept
<1>6. ParseBits'
  <2>1. BitsOf(e)'
    <3>1. CASE net[e].ret = "parse"
      BY <1>3, <3>1 DEF SendInv, ParseBits, BitsOf
    <3>2. CASE net[e].ret # "parse"
      <4>1. Return(e).pc # "recheck" /\ Return(e).pc \in {"idle", "recheck",
              "cleanup"} /\ Return(e).ret # "parse"
        BY <3>2, ReturnPc, NetTyped DEF SendInv
      <4> QED BY <1>3, <3>2, <4>1 DEF BitsOf
    <3> QED BY <3>1, <3>2
  <2> QED BY <1>3, <2>1, BitsOther DEF SendInv
<1> QED BY <1>4, <1>5, <1>6 DEF NoLostWakeup, Due

(* The second half of Disconnect returns with the bits it came with.            *)
LEMMA DueDrop ==
    ASSUME SendInv, NEW e \in Net, Drop(e)
    PROVE  ParseBits' /\ NoLostWakeup'
<1>0. PICK s \in Sess : s = net[e].sess
  BY NetTyped DEF SendInv
<1>1. /\ net[e].pc = "drop" /\ net'[e] = Return(e) /\ \A f \in Net : f # e => net'[f] = net[f]
      /\ UNCHANGED <<fd, owner, wantWrite, sendQ, dirty, game>>
  BY DEF Drop, SendInv, TypeOK, sockVars
<1>2. net'[e].bits = net[e].bits
  BY <1>1, ReturnPc, NetTyped DEF SendInv
<1>3. dead' = dead /\ free \subseteq free'
  BY DEF Drop, Release
<1>4. Due(s)'
  BY <1>0, <1>1, <1>3 DEF Due, Live, SendInv, HoldInv, DropDead, Dropping
<1>5. ASSUME NEW t \in Sess, t # s PROVE Due(t)'
  <2>1. Due(t) /\ owner[t] \in Net /\ (Live(t)' => Live(t))
    BY <1>1, <1>3 DEF Live, SendInv, TypeOK, NoLostWakeup, Due
  <2> QED BY <1>0, <1>1, <1>2, <1>5, <2>1, DueKept
<1>6. ParseBits'
  <2>1. BitsOf(e)'
    <3>1. CASE net[e].ret = "parse"
      BY <1>2, <3>1 DEF SendInv, ParseBits, BitsOf
    <3>2. CASE net[e].ret # "parse"
      <4>1. Return(e).pc # "recheck" /\ Return(e).pc \in {"idle", "recheck",
              "cleanup"} /\ Return(e).ret # "parse"
        BY <3>2, ReturnPc, NetTyped DEF SendInv
      <4> QED BY <1>1, <4>1 DEF BitsOf
    <3> QED BY <3>1, <3>2
  <2> QED BY <1>1, <2>1, BitsOther DEF SendInv
<1> QED BY <1>4, <1>5, <1>6 DEF NoLostWakeup, Due

(* DirtyMap::Drain: the bits that leave the dirty word are in the worker's      *)
(* hand.                                                                        *)
LEMMA DueDrainTake ==
    ASSUME SendInv, NEW e \in Net, DrainTake(e)
    PROVE  ParseBits' /\ NoLostWakeup'
<1>1. /\ net'[e] = Idle(dirty[e]) /\ \A f \in Net : f # e
          => net'[f] = net[f] /\ dirty'[f] = dirty[f]
      /\ net[e].pc = "idle" /\ net[e].bits = {}
      /\ UNCHANGED <<free, dead, fd, owner, wantWrite, sendQ, game>>
  BY DEF DrainTake, Between, SendInv, TypeOK, poolVars, sockVars
<1>2. net'[e].bits = dirty[e] /\ net'[e].pc = "idle" /\ net'[e].ret = "loop"
  BY <1>1 DEF Idle
<1>3. ASSUME NEW t \in Sess PROVE Due(t)'
  <2>1. Due(t) /\ owner[t] \in Net /\ (Live(t)' => Live(t))
    BY <1>1 DEF Live, SendInv, TypeOK, NoLostWakeup, Due
  <2>2. CASE owner[t] = e
    BY <1>1, <1>2, <2>1, <2>2 DEF Due, FlushDue
  <2>3. CASE owner[t] # e
    BY <1>1, <2>1, <2>3 DEF Due, FlushDue
  <2> QED BY <2>2, <2>3
<1>4. ParseBits'
  BY <1>1, <1>2, BitsOther DEF SendInv, BitsOf
<1> QED BY <1>3, <1>4 DEF NoLostWakeup, Due

(* The drain callback flushes the session of a bit it forgets, if that          *)
(* session is live and its own.                                                 *)
LEMMA DueDrainVisit ==
    ASSUME SendInv, NEW e \in Net, NEW s \in Sess, DrainVisit(e, s)
    PROVE  ParseBits' /\ NoLostWakeup'
<1> DEFINE b == net[e].bits \ {s}
           x == IF DrainTest(e, s) THEN [Idle(b) EXCEPT !.pc = "flush", !.sess = s] ELSE Idle(b)
<1>1. /\ net[e].pc = "idle" /\ net'[e] = x /\ \A f \in Net : f # e => net'[f] = net[f]
      /\ UNCHANGED <<free, dead, fd, owner, wantWrite, sendQ, dirty, game>>
  BY DEF DrainVisit, SendInv, TypeOK, poolVars, sockVars
<1>2. x.bits = b /\ x.ret = "loop" /\ x.pc \in {"idle", "flush"}
      /\ (DrainTest(e, s) => x.pc = "flush" /\ x.sess = s)
  BY DEF Idle
<1> HIDE DEF x
<1>3. ASSUME NEW t \in Sess PROVE Due(t)'
  <2>1. Due(t) /\ owner[t] \in Net /\ (Live(t)' => Live(t))
    BY <1>1 DEF Live, SendInv, TypeOK, NoLostWakeup, Due
  <2>2. CASE owner[t] = e /\ t = s
    BY <1>1, <1>2, <2>1, <2>2 DEF Due, FlushDue, DrainTest, Live
  <2>3. CASE owner[t] = e /\ t # s
    BY <1>1, <1>2, <2>1, <2>3 DEF Due, FlushDue
  <2>4. CASE owner[t] # e
    BY <1>1, <2>1, <2>4 DEF Due, FlushDue
  <2> QED BY <2>2, <2>3, <2>4
<1>4. ParseBits'
  BY <1>1, <1>2, BitsOther DEF SendInv, BitsOf
<1> QED BY <1>3, <1>4 DEF NoLostWakeup, Due

(* CleanupInThread forgets a session as it cuts it.                             *)
LEMMA DueCleanupCut ==
    ASSUME SendInv, NEW e \in Net, NEW s \in Sess, CleanupCut(e, s)
    PROVE  ParseBits' /\ NoLostWakeup'
<1>1. Cuts(e, s) /\ net[e].pc = "cleanup" /\ net[e].ret = "cleanup" /\ ~dead[s]
  <2>1. Cuts(e, s) /\ net[e].pc = "cleanup" /\ net[e].ret = "cleanup"
    BY HoldCleanupCut DEF SendInv, CleanupCut, CleanupBits, CleanupOf
  <2> QED BY <2>1, OwnedLive DEF Cuts, SendInv
<1> DEFINE x == [net[e] EXCEPT !.bits = @ \ {s}, !.sess = s, !.pc = "drop"]
<1>2. net' = [net EXCEPT ![e] = x]
  BY <1>1 DEF CleanupCut, SendInv, TypeOK
<1>3. x.pc = "drop" /\ x.ret = "cleanup" /\ x.bits = net[e].bits \ {s}
  BY <1>1, NetTyped DEF NetFrame, SendInv
<1> HIDE DEF x
<1>4. net'[e] = x /\ \A f \in Net : f # e => net'[f] = net[f]
  BY <1>2 DEF SendInv, TypeOK
<1>5. BitsOf(e)'
  BY <1>3, <1>4 DEF BitsOf
<1>6. UNCHANGED <<free, owner, wantWrite, sendQ, dirty, game>>
  BY DEF CleanupCut
<1>7. dead'[s] /\ \A t \in Sess : t # s => dead'[t] = dead[t] /\ fd'[t] = fd[t]
  BY <1>1 DEF Cuts
<1> QED BY <1>1, <1>3, <1>4, <1>5, <1>6, <1>7, DueCut

(* No step of an epoll worker loses a wakeup.                                   *)
LEMMA DueStepNet ==
    ASSUME SendInv, OwnWork, NEW e \in Net, NetEvent(e) \/ NetContinues(e)
    PROVE  ParseBits' /\ NoLostWakeup'
<1>0. net[e] \in NetFrame /\ net[e].sess \in Sess /\ net[e].bits \in SUBSET Sess
  BY NetTyped DEF SendInv
<1>1. ASSUME NEW s \in Sess, AcceptAlloc(e, s) PROVE ParseBits' /\ NoLostWakeup'
  BY <1>1, DueAcceptAlloc
<1>2. CASE AcceptFd(e)
  BY <1>2, DueAcceptFd
<1>3. CASE AcceptOwner(e) \/ AcceptFails(e)
  BY <1>3, DueAcceptEnd
<1>4. ASSUME NEW s \in Sess, HandleReadable(e, s) \/ HandleWritable(e, s)
      PROVE  ParseBits' /\ NoLostWakeup'
  <2>1. /\ net[e].pc = "idle" /\ net[e].bits = {} /\ net'[e].bits = {}
        /\ \A f \in Net : f # e => net'[f] = net[f]
    <3>1. CASE HandleReadable(e, s)
      BY <3>1 DEF HandleReadable, Between, Idle, SendInv, TypeOK
    <3>2. CASE HandleWritable(e, s)
      BY <3>2 DEF HandleWritable, Between, Idle, SendInv, TypeOK
    <3> QED BY <1>4, <3>1, <3>2
  <2> QED BY <1>4, <2>1, DueFrame DEF HandleReadable, HandleWritable, BitsOf
<1>5. ASSUME NEW s \in Sess, HandleHangup(e, s) PROVE ParseBits' /\ NoLostWakeup'
  <2>1. s \in mySessions[e] /\ net[e].pc = "idle"
    BY <1>5 DEF HandleHangup, Registered, Between
  <2> QED BY <1>5, <2>1, DueDisconnect DEF HandleHangup
<1>6. CASE ParseDone(e)
  <2>1. /\ net[e].pc = "parse" /\ net[e].bits = {} /\ net'[e].bits = {}
        /\ \A f \in Net : f # e => net'[f] = net[f]
    BY <1>6 DEF ParseDone, Idle, SendInv, TypeOK, ParseBits, BitsOf
  <2> QED BY <1>6, <2>1, DueFrame DEF ParseDone, BitsOf
<1>7. CASE DispatchBad(e) \/ FlushFails(e)
  <2>1. net[e].sess \in mySessions[e] /\ net[e].pc \in {"parse", "flush"}
    BY <1>7 DEF DispatchBad, FlushFails, OwnWork
  <2> QED BY <1>7, <2>1, DueDisconnect DEF DispatchBad, FlushFails
<1>8. CASE DispatchJoin(e)
  <2>1. /\ net[e].pc = "parse" /\ net[e].bits = {} /\ net'[e].bits = {}
        /\ \A f \in Net : f # e => net'[f] = net[f]
    BY <1>0, <1>8 DEF DispatchJoin, NetFrame, SendInv, TypeOK, ParseBits, BitsOf
  <2>2. /\ UNCHANGED <<free, gen, dead>> /\ UNCHANGED sockVars /\ UNCHANGED <<sendQ, dirty, game>>
    BY <1>8 DEF DispatchJoin, AddRef
  <2>3. ASSUME NEW s \in Sess PROVE Due(s)'
    <3>1. Due(s) /\ owner[s] \in Net /\ (Live(s)' => Live(s))
      BY <2>2 DEF Live, SendInv, TypeOK, NoLostWakeup, Due, sockVars
    <3> QED BY <2>1, <2>2, <3>1, DueKept DEF sockVars
  <2>4. ParseBits'
    BY <2>1, BitsOther DEF SendInv, BitsOf
  <2> QED BY <2>3, <2>4 DEF NoLostWakeup, Due
<1>9. CASE ReplyJoinOk(e) \/ DispatchReply(e)
  <2>1. net[e].sess \in mySessions[e] /\ net[e].pc \in {"parse", "reply"}
    BY <1>9 DEF ReplyJoinOk, DispatchReply, OwnWork
  <2> QED BY <1>9, <2>1, DueSend DEF ReplyJoinOk, DispatchReply
<1>10. CASE FlushSend(e)
  BY <1>10, DueFlush
<1>11. CASE Drop(e)
  BY <1>11, DueDrop
<1>12. CASE Recheck(e)
  <2>1. net[e].pc = "recheck" /\ net[e].bits = {} /\ \A f \in Net : f # e => net'[f] = net[f]
    BY <1>12 DEF Recheck, SendInv, TypeOK, ParseBits, BitsOf
  <2>2. net'[e] = IF dead[net[e].sess] THEN Idle({}) ELSE [net[e] EXCEPT !.pc = "parse"]
    BY <1>12 DEF Recheck, SendInv, TypeOK
  <2>3. net'[e].bits = {}
    BY <1>0, <2>1, <2>2 DEF Idle, NetFrame
  <2> QED BY <1>12, <2>1, <2>3, DueFrame DEF Recheck, BitsOf
<1>13. CASE DrainTake(e)
  BY <1>13, DueDrainTake
<1>14. ASSUME NEW s \in Sess, DrainVisit(e, s) PROVE ParseBits' /\ NoLostWakeup'
  BY <1>14, DueDrainVisit
<1>15. CASE LoopExit(e)
  <2>1. /\ net[e].pc = "idle" /\ net[e].bits = {} /\ net'[e].pc = "cleanup"
             /\ net'[e].ret = "cleanup"
        /\ \A f \in Net : f # e => net'[f] = net[f]
    BY <1>15 DEF LoopExit, Between, Idle, SendInv, TypeOK
  <2> QED BY <1>15, <2>1, DueFrame DEF LoopExit, BitsOf
<1>16. CASE CleanupDone(e)
  <2>1. /\ net[e].pc = "cleanup" /\ net[e].bits = {} /\ net'[e].bits = {}
        /\ \A f \in Net : f # e => net'[f] = net[f]
    BY <1>0, <1>16 DEF CleanupDone, SendInv, TypeOK, NetFrame
  <2> QED BY <1>16, <2>1, DueFrame DEF CleanupDone, BitsOf
<1>17. ASSUME NEW s \in Sess, CleanupCut(e, s) PROVE ParseBits' /\ NoLostWakeup'
  BY <1>17, DueCleanupCut
<1> QED BY <1>1, <1>2, <1>3, <1>4, <1>5, <1>6, <1>7, <1>8, <1>9, <1>10, <1>11, <1>12, <1>13,
           <1>14,
           <1>15, <1>16, <1>17 DEF NetEvent, NetContinues

(* A step that touches neither rings nor bits nor frames loses no wakeup.       *)
LEMMA DueSame ==
    ASSUME SendInv, UNCHANGED <<dead, owner, wantWrite, fd, net, game>>, UNCHANGED <<sendQ,
           dirty>>,
           free \subseteq free'
    PROVE  ParseBits' /\ NoLostWakeup'
<1>1. ParseBits'
  BY DEF SendInv, ParseBits, BitsOf
<1>2. NoLostWakeup'
  BY DEF SendInv, NoLostWakeup, Live, FlushDue
<1> QED BY <1>1, <1>2

(* No step loses a wakeup: the game worker's Enqueue is followed by its Mark,   *)
(* which reaches the owner.                                                     *)
LEMMA DueStep ==
    SendInv /\ OwnWork /\ [Next]_vars => ParseBits' /\ NoLostWakeup'
<1> SUFFICES ASSUME SendInv, OwnWork, [Next]_vars PROVE ParseBits' /\ NoLostWakeup'
  OBVIOUS
<1>0. GameHolds /\ TypeOK /\ \A m \in members : m.sess \in Sess /\ m.gen \in Nat
        /\ m.owner = owner[m.sess]
  BY DEF SendInv, HoldInv, MembersOnce, TypeOK, Member
<1>1. ASSUME NEW m \in members, GameTest(m) PROVE ParseBits' /\ NoLostWakeup'
  <2>1. /\ UNCHANGED <<free, dead, owner, wantWrite, fd, net>> /\ UNCHANGED <<sendQ, dirty>>
        /\ game.pc = "idle"
    BY <1>1 DEF GameTest, poolVars, sockVars
  <2>2. ParseBits'
    BY <2>1 DEF SendInv, ParseBits, BitsOf
  <2>3. NoLostWakeup'
    BY <2>1 DEF SendInv, NoLostWakeup, Live, FlushDue
  <2> QED BY <2>2, <2>3
<1>2. CASE GameEnqueue
  <2>1. PICK m \in game.m :
          /\ game.pc = "enqueue"
          /\ IF HasRoom(m.sess)
               THEN Enqueue(m.sess, "SNAPSHOT", m.gen) /\ game' = [game EXCEPT !.pc = "mark"]
               ELSE UNCHANGED sendQ /\ game' = GameIdle
          /\ UNCHANGED <<poolVars, conns, snaps, sockVars, roomVars, kbuf, mySessions, dirty,
               net, stopVars>>
    BY <1>2 DEF GameEnqueue
  <2>2. m \in members /\ game.m = {m} /\ m.sess \in Sess
    BY <1>0, <2>1 DEF GameHolds
  <2>3. UNCHANGED <<free, dead, owner, wantWrite, fd, net>> /\ UNCHANGED dirty
    BY <2>1 DEF poolVars, sockVars
  <2>4. ParseBits'
    BY <2>3 DEF SendInv, ParseBits, BitsOf
  <2>5. ASSUME NEW s \in Sess, sendQ'[s] = sendQ[s] PROVE Due(s)'
    <3>1. Due(s)
      BY DEF SendInv, NoLostWakeup, Due
    <3> QED BY <2>1, <2>3, <2>5, <3>1 DEF Due, Live, FlushDue
  <2>6. CASE HasRoom(m.sess)
    <3>1. game'.pc = "mark" /\ game'.m = {m}
      BY <1>0, <2>1, <2>2, <2>6 DEF TypeOK
    <3>2. Due(m.sess)'
      BY <3>1 DEF Due, FlushDue
    <3>3. \A s \in Sess : s # m.sess => sendQ'[s] = sendQ[s]
      BY <1>0, <2>1, <2>2, <2>6, EnqueueEffect
    <3> QED BY <2>4, <2>5, <3>2, <3>3 DEF NoLostWakeup, Due
  <2>7. CASE ~HasRoom(m.sess)
    BY <2>1, <2>4, <2>5, <2>7 DEF NoLostWakeup, Due
  <2> QED BY <2>6, <2>7
<1>3. CASE GameMark
  <2>1. PICK m \in game.m :
          /\ game.pc = "mark"
          /\ dirty' = [dirty EXCEPT ![MarkTarget(m)] = @ \cup {m.sess}]
          /\ UNCHANGED <<poolVars, conns, snaps, sockVars, sendQ, roomVars, kbuf, mySessions,
               net, stopVars>>
    BY <1>3 DEF GameMark
  <2>2. m \in members /\ game.m = {m} /\ m.sess \in Sess /\ m.owner = owner[m.sess]
    BY <1>0, <2>1 DEF GameHolds
  <2>3. UNCHANGED <<free, dead, owner, wantWrite, fd, net>> /\ sendQ' = sendQ
    BY <2>1 DEF poolVars, sockVars
  <2>4. (\A f \in Net : dirty[f] \subseteq dirty'[f]) /\ m.sess \in dirty'[owner[m.sess]]
    BY <1>0, <2>1, <2>2 DEF MarkTarget, TypeOK
  <2>5. ParseBits'
    BY <2>3 DEF SendInv, ParseBits, BitsOf
  <2>6. ASSUME NEW s \in Sess PROVE Due(s)'
    <3>1. Due(s) /\ owner[s] \in Net
      BY <1>0 DEF SendInv, NoLostWakeup, Due, TypeOK
    <3>2. CASE s = m.sess
      BY <2>3, <2>4, <3>2 DEF Due, FlushDue
    <3>3. CASE s # m.sess
      BY <2>1, <2>2, <2>3, <2>4, <3>1, <3>3 DEF Due, Live, FlushDue
    <3> QED BY <3>2, <3>3
  <2> QED BY <2>5, <2>6 DEF NoLostWakeup, Due
<1>4. ASSUME NEW m \in members, GameLeave(m) PROVE ParseBits' /\ NoLostWakeup'
  <2>1. /\ UNCHANGED <<dead, owner, wantWrite, fd, net, game>> /\ UNCHANGED <<sendQ, dirty>>
        /\ free \subseteq free'
    BY <1>4 DEF GameLeave, Release, sockVars
  <2> QED BY <2>1, DueSame
<1>5. ASSUME StopGame \/ (\E e \in Net : StopNet(e)) \/ (\E s \in Sess : ClientReads(s))
               \/ UNCHANGED vars
      PROVE  ParseBits' /\ NoLostWakeup'
  <2>1. /\ UNCHANGED <<dead, owner, wantWrite, fd, net, game>> /\ UNCHANGED <<sendQ, dirty>>
        /\ free \subseteq free'
    BY <1>5 DEF StopGame, StopNet, ClientReads, vars, poolVars, sockVars
  <2> QED BY <2>1, DueSame
<1> QED BY <1>1, <1>2, <1>3, <1>4, <1>5, DueStepNet DEF Next, GameStep

(* The inductive invariant holds in every reachable state.                      *)
THEOREM SendInvHolds == Spec /\ []OwnWork => []SendInv
<1>1. Init => SendInv
  BY TypeInit, HoldInit, CleanupInit, DueInit DEF SendInv
<1>2. SendInv /\ OwnWork /\ [Next]_vars => SendInv'
  BY TypeStep, HoldStep, DueStep DEF SendInv
<1> QED BY <1>1, <1>2, PTL DEF Spec

(* No wakeup is lost, however many workers, sessions and snapshots there are    *)
(* and however short the writes: bytes in the ring of a live session have       *)
(* somebody on the way to flush them (EpollWorker.cpp: Loop, FlushSend;         *)
(* Session.h: DirtyMap; GameWorker's Enqueue and Mark).                         *)
THEOREM WakeupHolds == Spec /\ []OwnWork => []NoLostWakeup
<1>1. SendInv => NoLostWakeup
  BY DEF SendInv
<1> QED BY <1>1, SendInvHolds, PTL

--------------------------------------------------------------------------------
(* The refinement of Outbox.                                                    *)

(* What Outbox sees of a slot: its connection.                                  *)
Conn(s) == IF Live(s) THEN gen[s] ELSE -1

(* What Outbox sees of a slot: its queue.                                       *)
Queue(s) == IF Live(s) THEN sendQ[s] ELSE <<>>

(* The refinement mapping of Sending, as functions.                             *)
OutConn == [s \in Sess |-> Conn(s)]

OutQueue == [s \in Sess |-> Queue(s)]

(* Outbox sees no change of slot t.                                             *)
OutSame(t) == Conn(t)' = Conn(t) /\ Queue(t)' = Queue(t)

(* A step of Outbox, or a stutter.                                              *)
OutStep == Sending!Next \/ UNCHANGED Sending!vars

(* If no slot changes, Outbox stutters.                                         *)
LEMMA OutStutter ==
    ASSUME \A t \in Sess : OutSame(t)
    PROVE  OutStep
<1>1. OutConn' = OutConn /\ OutQueue' = OutQueue
  BY DEF OutConn, OutQueue, OutSame
<1> QED BY <1>1 DEF OutStep, Sending!vars, OutConn, OutQueue, Conn, Queue

(* A slot gets a connection.                                                    *)
LEMMA OutOpen ==
    ASSUME NEW s \in Sess, Conn(s) = -1, Conn(s)' # -1, Queue(s)' = Queue(s),
           \A t \in Sess : t # s => OutSame(t)
    PROVE  OutStep
<1>1. OutConn[s] = -1 /\ OutConn'[s] # -1
  BY DEF OutConn
<1>2. OutConn' = [OutConn EXCEPT ![s] = OutConn'[s]] /\ OutQueue' = OutQueue
  BY DEF OutConn, OutQueue, OutSame
<1>3. Sending!Open(s)
  BY <1>1, <1>2 DEF Sending!Open, OutConn, OutQueue, Conn, Queue
<1> QED BY <1>3 DEF OutStep, Sending!Next

(* A slot loses its connection and its queue.                                   *)
LEMMA OutCut ==
    ASSUME NEW s \in Sess, Conn(s) # -1, Conn(s)' = -1, Queue(s)' = <<>>,
           \A t \in Sess : t # s => OutSame(t)
    PROVE  OutStep
<1>1. OutConn[s] # -1
  BY DEF OutConn
<1>2. OutConn' = [OutConn EXCEPT ![s] = -1] /\ OutQueue' = [OutQueue EXCEPT ![s] = <<>>]
  BY DEF OutConn, OutQueue, OutSame
<1>3. Sending!Cut(s)
  BY <1>1, <1>2 DEF Sending!Cut, OutConn, OutQueue, Conn, Queue
<1> QED BY <1>3 DEF OutStep, Sending!Next

(* A message is put at the end of a connection's queue.                         *)
LEMMA OutPut ==
    ASSUME NEW s \in Sess, NEW m \in Msg, Queue(s) \in Seq(Msg), Conn(s) # -1, Conn(s)' =
           Conn(s),
           m.gen = Conn(s), Queue(s)' = Append(Queue(s), m),
           \A t \in Sess : t # s => OutSame(t)
    PROVE  OutStep
<1>1. OutConn[s] = Conn(s) /\ OutQueue'[s] = Append(Queue(s), m) /\ OutQueue[s] = Queue(s)
  BY DEF OutConn, OutQueue
<1>2. OutQueue'[s] # <<>> /\ OutQueue'[s][Len(OutQueue'[s])] = m
  BY <1>1
<1>3. OutQueue' = [OutQueue EXCEPT ![s] = Append(OutQueue[s], m)] /\ OutConn' = OutConn
  BY <1>1 DEF OutConn, OutQueue, OutSame
<1>4. Sending!Put(s)
  BY <1>1, <1>2, <1>3 DEF Sending!Put, OutConn, OutQueue, Conn, Queue
<1> QED BY <1>4 DEF OutStep, Sending!Next

(* Messages leave from the front of a queue.                                    *)
LEMMA OutTake ==
    ASSUME NEW s \in Sess, NEW n \in 1 .. Len(Queue(s)), Conn(s)' = Conn(s),
           Queue(s)' = SubSeq(Queue(s), n + 1, Len(Queue(s))),
           \A t \in Sess : t # s => OutSame(t)
    PROVE  OutStep
<1>1. OutQueue'[s] = SubSeq(OutQueue[s], n + 1, Len(OutQueue[s])) /\ n \in 1 .. Len(OutQueue[s])
  BY DEF OutQueue
<1>2. /\ OutQueue' = [OutQueue EXCEPT ![s] = SubSeq(OutQueue[s], n + 1, Len(OutQueue[s]))]
      /\ OutConn' = OutConn
  BY <1>1 DEF OutConn, OutQueue, OutSame
<1>3. Sending!Take(s)
  BY <1>1, <1>2 DEF Sending!Take, OutConn, OutQueue, Conn, Queue
<1> QED BY <1>3 DEF OutStep, Sending!Next

(* All slots are down at the start.                                             *)
LEMMA OutInit == Init => Sending!Init
<1> SUFFICES ASSUME Init PROVE Sending!Init
  OBVIOUS
<1>1. \A s \in Sess : ~Live(s)
  BY DEF Init, PoolInit, Live
<1> QED BY <1>1 DEF Sending!Init

(* Steps that change no socket, flag, generation, ring or place in the pool     *)
(* are stutters.                                                                *)
LEMMA OutQuiet ==
    ASSUME UNCHANGED <<free, gen, dead, fd, sendQ>>
    PROVE  OutStep
BY OutStutter DEF OutSame, Conn, Queue, Live

(* A slot whose socket, flag, generation, ring and place in the pool are        *)
(* kept.                                                                        *)
LEMMA OutSlotKept ==
    ASSUME NEW t \in Sess, (t \in free') <=> (t \in free), gen'[t] = gen[t], dead'[t] = dead[t],
           fd'[t] = fd[t], sendQ'[t] = sendQ[t]
    PROVE  OutSame(t)
BY DEF OutSame, Conn, Queue, Live

(* A slot that serves nobody before and after.                                  *)
LEMMA OutDown ==
    ASSUME NEW t \in Sess, ~Live(t), ~Live(t)'
    PROVE  OutSame(t)
BY DEF OutSame, Conn, Queue

(* Cutting a session of the worker's list is Cut.                               *)
LEMMA OutCuts ==
    ASSUME SendInv, NEW e \in Net, NEW s \in Sess, Cuts(e, s)
    PROVE  OutStep
<1>1. s \in mySessions[e] /\ net[e].pc # "drop"
  BY DEF Cuts
<1>2. Live(s) /\ gen[s] \in Nat
  BY <1>1, OwnedLive DEF Live, SendInv, TypeOK, PoolTypeOK
<1>3. ~Live(s)'
  BY DEF Cuts, Live
<1>4. ASSUME NEW t \in Sess, t # s PROVE OutSame(t)
  BY <1>4, OutSlotKept DEF Cuts
<1>5. Conn(s) # -1 /\ Conn(s)' = -1 /\ Queue(s)' = <<>>
  BY <1>2, <1>3 DEF Conn, Queue
<1> QED BY <1>4, <1>5, OutCut

(* Enqueue for a live session is Put; for a dead one Outbox sees nothing.       *)
LEMMA OutEnqueue ==
    ASSUME SendInv, NEW s \in Sess, NEW kind \in {"REPLY", "SNAPSHOT"}, Enqueue(s, kind,
           gen[s]),
           UNCHANGED <<free, gen, dead, fd>>
    PROVE  OutStep
<1> DEFINE m == [kind |-> kind, gen |-> gen[s]]
<1>1. m \in Msg /\ m.gen = gen[s] /\ gen[s] \in Nat /\ sendQ[s] \in Seq(Msg)
  BY DEF Msg, SendInv, TypeOK, PoolTypeOK
<1>2. sendQ'[s] = Append(sendQ[s], m) /\ \A t \in Sess : t # s => sendQ'[t] = sendQ[t]
  BY EnqueueEffect DEF SendInv
<1> HIDE DEF m
<1>3. ASSUME NEW t \in Sess, t # s PROVE OutSame(t)
  BY <1>2, <1>3, OutSlotKept
<1>4. CASE Live(s)
  <2>1. Conn(s) = gen[s] /\ Queue(s) = sendQ[s] /\ Conn(s)' = gen[s] /\ Queue(s)' = sendQ'[s]
    BY <1>4 DEF Conn, Queue, Live
  <2>2. Conn(s) # -1 /\ m.gen = Conn(s) /\ Queue(s)' = Append(Queue(s), m) /\ Queue(s) \in Seq(Msg)
        /\ Conn(s)' = Conn(s)
    BY <1>1, <1>2, <2>1
  <2> QED BY <1>1, <1>3, <2>2, OutPut
<1>5. CASE ~Live(s)
  <2>1. OutSame(s)
    BY <1>5, OutDown DEF Live
  <2> QED BY <1>3, <2>1, OutStutter
<1> QED BY <1>4, <1>5

(* A write of at least one message is Take.                                     *)
LEMMA OutFlush ==
    ASSUME SendInv, OwnWork, NEW e \in Net, FlushSend(e)
    PROVE  OutStep
<1>0. PICK s \in Sess : s = net[e].sess
  BY NetTyped DEF SendInv
<1> DEFINE n == Written(s)
<1>1. n \in 0 .. Len(sendQ[s]) /\ sendQ'[s] = SubSeq(sendQ[s], n + 1, Len(sendQ[s]))
  BY <1>0, FlushEffect DEF SendInv
<1> HIDE DEF n
<1>2. /\ \A t \in Sess : t # s => sendQ'[t] = sendQ[t]
      /\ UNCHANGED <<free, gen, dead, fd>>
  BY <1>0, FlushEffect DEF SendInv, FlushSend, poolVars
<1>3. ASSUME NEW t \in Sess, t # s PROVE OutSame(t)
  BY <1>2, <1>3, OutSlotKept
<1>4. Live(s)
  <2>1. s \in mySessions[e] /\ net[e].pc # "drop"
    BY <1>0 DEF OwnWork, FlushSend
  <2> QED BY <2>1, OwnedLive DEF SendInv, Live
<1>5. Conn(s)' = Conn(s) /\ Queue(s) = sendQ[s] /\ Queue(s)' = sendQ'[s]
  BY <1>2, <1>4 DEF Conn, Queue, Live
<1>6. CASE n = 0
  <2>1. sendQ'[s] = sendQ[s]
    BY <1>1, <1>6 DEF SendInv, TypeOK
  <2> QED BY <1>3, <1>5, <2>1, OutStutter DEF OutSame
<1>7. CASE n # 0
  <2>1. n \in 1 .. Len(Queue(s)) /\ Queue(s)' = SubSeq(Queue(s), n + 1, Len(Queue(s)))
    BY <1>1, <1>5, <1>7 DEF SendInv, TypeOK
  <2> QED BY <1>3, <1>5, <2>1, OutTake
<1> QED BY <1>6, <1>7

(* Only a slot that serves nobody gets a new generation.                        *)
LEMMA OutRelease ==
    ASSUME SendInv, NEW s \in Sess, refs[s] = 1 => dead[s], Release(s), UNCHANGED <<fd, sendQ>>
    PROVE  OutStep
<1>1. /\ dead' = dead
      /\ refs[s] # 1 => free' = free /\ gen' = gen
      /\ refs[s] = 1 => free' = free \cup {s}
      /\ \A t \in Sess : t # s => gen'[t] = gen[t]
  BY ReleaseEffect DEF SendInv, TypeOK
<1>2. ASSUME NEW t \in Sess, t # s PROVE OutSame(t)
  BY <1>1, <1>2, OutSlotKept
<1>3. OutSame(s)
  <2>1. CASE refs[s] = 1
    BY <1>1, <2>1, OutDown DEF Live
  <2>2. CASE refs[s] # 1
    BY <1>1, <2>2, OutSlotKept
  <2> QED BY <2>1, <2>2
<1> QED BY <1>2, <1>3, OutStutter

(* Storing the socket is Open, a failed epoll_ctl(ADD) is Cut.                  *)
LEMMA OutAccept ==
    ASSUME SendInv, NEW e \in Net, AcceptFd(e) \/ AcceptFails(e)
    PROVE  OutStep
<1>0. PICK s \in Sess : s = net[e].sess
  BY NetTyped DEF SendInv
<1>1. Accepting(e, s) /\ (AcceptFd(e) => net[e].pc = "setFd") /\ (AcceptFails(e)
          => net[e].pc = "setOwner")
  BY <1>0 DEF AcceptFd, AcceptFails, Accepting
<1>2. ~dead[s] /\ sendQ[s] = <<>> /\ (fd[s] <=> net[e].pc = "setOwner") /\ s \notin free
        /\ gen[s] \in Nat
  <2>1. NetHeld(s)
    BY <1>1 DEF NetHeld, Holds
  <2>2. refs[s] # 0
    BY <2>1 DEF SendInv, HoldInv, RefsExact, One
  <2> QED BY <1>1, <2>2, AcceptAlone DEF SendInv, HoldInv, RefsExact, TypeOK, PoolTypeOK
<1>3. CASE AcceptFd(e)
  <2>1. /\ fd'[s] /\ \A t \in Sess : t # s => fd'[t] = fd[t]
        /\ UNCHANGED <<free, gen, dead, sendQ>>
    BY <1>0, <1>3 DEF AcceptFd, SendInv, TypeOK, poolVars
  <2>2. ~Live(s) /\ Live(s)' /\ sendQ'[s] = <<>> /\ gen'[s] \in Nat
    BY <1>1, <1>2, <1>3, <2>1 DEF Live
  <2>3. Conn(s) = -1 /\ Conn(s)' # -1 /\ Queue(s)' = Queue(s)
    BY <2>2 DEF Conn, Queue
  <2>4. ASSUME NEW t \in Sess, t # s PROVE OutSame(t)
    BY <2>1, <2>4, OutSlotKept
  <2> QED BY <2>3, <2>4, OutOpen
<1>4. CASE AcceptFails(e)
  <2>1. /\ dead'[s] /\ \A t \in Sess : t # s => fd'[t] = fd[t] /\ dead'[t] = dead[t]
        /\ UNCHANGED <<free, gen, sendQ>>
    BY <1>0, <1>4 DEF AcceptFails, SendInv, TypeOK, PoolTypeOK
  <2>2. Live(s) /\ ~Live(s)'
    BY <1>1, <1>2, <1>4, <2>1 DEF Live
  <2>3. Conn(s) # -1 /\ Conn(s)' = -1 /\ Queue(s)' = <<>>
    BY <1>2, <2>2 DEF Conn, Queue
  <2>4. ASSUME NEW t \in Sess, t # s PROVE OutSame(t)
    BY <2>1, <2>4, OutSlotKept
  <2> QED BY <2>3, <2>4, OutCut
<1> QED BY <1>3, <1>4

(* A slot that HandleAccept takes serves nobody yet.                            *)
LEMMA OutAcceptAlloc ==
    ASSUME SendInv, NEW e \in Net, NEW s \in Sess, AcceptAlloc(e, s)
    PROVE  OutStep
<1>1. /\ s \in free /\ free' = free \ {s} /\ gen' = gen /\ ~fd'[s]
      /\ \A t \in Sess : t # s => dead'[t] = dead[t] /\ fd'[t] = fd[t] /\ sendQ'[t] = sendQ[t]
  BY DEF AcceptAlloc, Alloc, ClearRings, SendInv, TypeOK, PoolTypeOK
<1>2. ASSUME NEW t \in Sess, t # s PROVE OutSame(t)
  BY <1>1, <1>2, OutSlotKept
<1>3. OutSame(s)
  BY <1>1, OutDown DEF Live
<1> QED BY <1>2, <1>3, OutStutter

(* Every step of an epoll worker is a step of Outbox or a stutter.              *)
LEMMA OutStepNet ==
    ASSUME SendInv, OwnWork, NEW e \in Net, NetEvent(e) \/ NetContinues(e)
    PROVE  OutStep
<1>0. TypeOK /\ HoldInv /\ CleanupBits
  BY DEF SendInv
<1>1. net[e].pc \notin {"cleanup", "drop", "exited"} => net[e].ret # "cleanup"
  BY <1>0 DEF CleanupBits, CleanupOf
<1>2. ASSUME NEW s \in Sess, AcceptAlloc(e, s) PROVE OutStep
  BY <1>2, OutAcceptAlloc
<1>3. CASE AcceptFd(e) \/ AcceptFails(e)
  BY <1>3, OutAccept
<1>4. ASSUME NEW s \in mySessions[e], net[e].pc \in {"idle", "parse", "reply", "flush"},
               Disconnect(e, s),
             UNCHANGED <<conns, snaps, sendQ, roomVars, mySessions, dirty, game, stopVars>>
      PROVE  OutStep
  <2>1. Cuts(e, s) /\ s \in Sess
    BY <1>0, <1>1, <1>4, CutStep DEF Held, TypeOK
  <2> QED BY <2>1, OutCuts
<1>5. ASSUME NEW s \in Sess, HandleHangup(e, s) PROVE OutStep
  BY <1>4, <1>5 DEF HandleHangup, Between, Registered
<1>6. CASE DispatchBad(e) \/ FlushFails(e)
  <2>1. net[e].sess \in mySessions[e] /\ net[e].pc \in {"parse", "flush"}
    BY <1>6 DEF DispatchBad, FlushFails, OwnWork
  <2> QED BY <1>4, <1>6, <2>1 DEF DispatchBad, FlushFails
<1>7. CASE ReplyJoinOk(e) \/ DispatchReply(e)
  <2>1. net[e].sess \in mySessions[e] /\ net[e].pc \in {"parse", "reply"} /\ net[e].sess \in Sess
    BY <1>0, <1>7, NetTyped DEF ReplyJoinOk, DispatchReply, OwnWork
  <2>2. CASE Enqueue(net[e].sess, "REPLY", gen[net[e].sess]) /\ UNCHANGED <<poolVars, sockVars,
          kbuf>>
    BY <2>1, <2>2, OutEnqueue DEF poolVars, sockVars
  <2>3. CASE Disconnect(e, net[e].sess) /\ UNCHANGED sendQ
    BY <1>4, <1>7, <2>1, <2>3 DEF ReplyJoinOk, DispatchReply
  <2> QED BY <1>7, <2>2, <2>3 DEF ReplyJoinOk, DispatchReply, SendBytes
<1>8. CASE FlushSend(e)
  BY <1>8, OutFlush
<1>9. CASE Drop(e)
  <2>1. PICK s \in Sess : s = net[e].sess
    BY <1>0, NetTyped
  <2>2. dead[s] /\ Release(s) /\ UNCHANGED <<fd, sendQ>>
    BY <1>0, <1>9, <2>1 DEF HoldInv, DropDead, Dropping, Drop, sockVars
  <2> QED BY <2>2, OutRelease
<1>10. ASSUME NEW s \in Sess, CleanupCut(e, s) PROVE OutStep
  BY <1>0, <1>10, HoldCleanupCut, OutCuts
<1>11. ASSUME \/ AcceptOwner(e) \/ ParseDone(e) \/ DispatchJoin(e) \/ Recheck(e) \/ DrainTake(e)
              \/ LoopExit(e) \/ CleanupDone(e)
              \/ \E s \in Sess : HandleReadable(e, s) \/ HandleWritable(e, s) \/ DrainVisit(e, s)
       PROVE  OutStep
  <2>1. UNCHANGED <<free, gen, dead, fd, sendQ>>
    BY <1>11 DEF AcceptOwner, ParseDone, DispatchJoin, AddRef, Recheck, DrainTake, LoopExit,
       CleanupDone,
                 HandleReadable, HandleWritable, DrainVisit, poolVars, sockVars
  <2> QED BY <2>1, OutQuiet
<1> QED BY <1>2, <1>3, <1>5, <1>6, <1>7, <1>8, <1>9, <1>10, <1>11 DEF NetEvent, NetContinues

(* Every step is a step of Outbox or a stutter.                                 *)
LEMMA OutNext == SendInv /\ OwnWork /\ [Next]_vars => OutStep
<1> SUFFICES ASSUME SendInv, OwnWork, [Next]_vars PROVE OutStep
  OBVIOUS
<1>0. HoldInv /\ GameHolds /\ \A m \in members : m.sess \in Sess /\ m.gen = gen[m.sess]
  BY DEF SendInv, HoldInv, MembersOnce, TypeOK, Member
<1>1. CASE GameEnqueue
  <2>1. PICK m \in game.m :
          /\ game.pc = "enqueue"
          /\ Enqueue(m.sess, "SNAPSHOT", m.gen) \/ UNCHANGED sendQ
          /\ UNCHANGED <<free, gen, dead, fd>>
    BY <1>1 DEF GameEnqueue, poolVars, sockVars
  <2>2. m \in members
    BY <1>0, <2>1 DEF GameHolds
  <2>3. m.sess \in Sess /\ m.gen = gen[m.sess]
    BY <1>0, <2>2
  <2>4. CASE Enqueue(m.sess, "SNAPSHOT", m.gen)
    BY <2>1, <2>3, <2>4, OutEnqueue
  <2>5. CASE UNCHANGED sendQ
    BY <2>1, <2>5, OutQuiet
  <2> QED BY <2>1, <2>4, <2>5
<1>2. ASSUME NEW m \in members, GameLeave(m) PROVE OutStep
  <2>1. PICK s \in Sess : s = m.sess
    BY <1>0
  <2>2. InMembers(s)
    BY <2>1 DEF InMembers
  <2>3. refs[s] = 1 => dead[s]
    BY <1>0, <2>2 DEF HoldInv, RefsExact, One, GoneDead
  <2>4. Release(s) /\ UNCHANGED <<fd, sendQ>>
    BY <1>2, <2>1 DEF GameLeave, sockVars
  <2> QED BY <2>3, <2>4, OutRelease
<1>3. ASSUME \/ (\E m \in members : GameTest(m)) \/ GameMark \/ StopGame
             \/ (\E e \in Net : StopNet(e)) \/ (\E s \in Sess : ClientReads(s)) \/ UNCHANGED vars
      PROVE  OutStep
  <2>1. UNCHANGED <<free, gen, dead, fd, sendQ>>
    BY <1>3 DEF GameTest, GameMark, StopGame, StopNet, ClientReads, vars, poolVars, sockVars
  <2> QED BY <2>1, OutQuiet
<1> QED BY <1>1, <1>2, <1>3, OutStepNet DEF Next, GameStep

(* The send path implements Outbox for every number of workers, sessions and    *)
(* messages: a live session's ring holds only what was put for it, in order,    *)
(* and nothing leaves it unsent but by a cut (EpollWorker.cpp: HandleAccept,    *)
(* SendBytes, FlushSend, Disconnect).                                           *)
THEOREM SendContractHolds == Spec /\ []OwnWork => SendContract
<1>1. Init => Sending!Init
  BY OutInit
<1>2. SendInv /\ OwnWork /\ [Next]_vars => [Sending!Next]_(Sending!vars)
  BY OutNext DEF OutStep
<1> QED BY <1>1, <1>2, SendInvHolds, PTL DEF Spec, SendContract, Sending!Spec

--------------------------------------------------------------------------------
(* Several workers.                                                             *)

(* Worker f may still come back to slot s when the slot has returned to the     *)
(* pool: a dirty bit of s is set for it or in its hand, or it is about to make  *)
(* the dead test of ParseFrames, ReadSession and HandleSession on s.            *)
Unfinished(f, s) ==
    s \in dirty[f] \cup net[f].bits \/ (net[f].pc = "recheck" /\ net[f].sess = s)

(* A slot is accepted by the worker that had it last, or when that worker has   *)
(* finished with it.  HandleAccept does not see to that: the pool hands a slot  *)
(* out as soon as the last reference is returned (Session.h: Release, Alloc).   *)
AcceptsAfter ==
    \A e \in Net, s \in Sess : AcceptAlloc(e, s) => e = owner[s] \/ ~Unfinished(owner[s], s)

(* So it stays until HandleAccept has written the new owner.                    *)
AcceptClear ==
    \A e, f \in Net, s \in Sess : Accepting(e, s) /\ f = owner[s] => e = f \/ ~Unfinished(f, s)

(* What a worker works on is its own: it parses, answers and flushes sessions   *)
(* of its list; a session it cut and has still to look at was its own, and if   *)
(* it finds it alive it was not cut at all.                                     *)
Working(e) ==
    /\ net[e].pc \in {"parse", "reply", "flush"} => net[e].sess \in mySessions[e]
    /\ net[e].pc \in {"drop", "recheck"} => owner[net[e].sess] = e
    /\ net[e].pc = "recheck" /\ ~dead[net[e].sess] => net[e].sess \in mySessions[e]

(* The inductive invariant of OwnWork.                                          *)
WorkInv == AcceptClear /\ \A e \in Net : Working(e)

(* A worker's step, seen by the others: their frames, lists and dirty words     *)
(* stay; owner and dead change as HandleAccept and Disconnect change them; and  *)
(* it begins nothing with a slot that it does not hold.                         *)
ActsAlone(e) ==
    /\ \A f \in Net : f # e => /\ net'[f] = net[f] /\ mySessions'[f] = mySessions[f]
                              /\ dirty'[f] = dirty[f]
    /\ \A s \in Sess :
         /\ owner'[s] = owner[s] \/ Accepting(e, s)
         /\ dead[s] => dead'[s] \/ AcceptAlloc(e, s)
         /\ Accepting(e, s)' => AcceptAlloc(e, s) \/ (Accepting(e, s) /\ owner'[s] = owner[s])
         /\ Unfinished(e, s)' => Unfinished(e, s) \/ Holds(e, s)

(* The slot that stands in an idle frame is one.                                *)
LEMMA NoSessIn == NoSess \in Sess
BY SessAssumption DEF NoSess

(* A step in which the worker takes no slot, cuts at most a session of its      *)
(* list, and goes on with one of its list or with none.                         *)
LEMMA ActsOnOwn ==
    ASSUME SendInv, NEW e \in Net,
           \A f \in Net : f # e => net'[f] = net[f] /\ dirty'[f] = dirty[f],
           owner' = owner, mySessions' = mySessions, \A s \in Sess : dead[s] => dead'[s],
           net'[e].bits \cup dirty'[e] \subseteq net[e].bits \cup dirty[e] \cup mySessions[e],
           \/ net'[e].pc \in {"idle", "cleanup", "exited"}
           \/ /\ net'[e].pc \in {"parse", "reply", "flush", "recheck", "drop"}
              /\ net'[e].sess \in mySessions[e]
    PROVE  ActsAlone(e) /\ Working(e)'
<1>1. \A s \in Sess : ~Accepting(e, s)'
  BY DEF Accepting
<1>2. \A s \in Sess : Unfinished(e, s)' => Unfinished(e, s) \/ Holds(e, s)
  BY DEF Unfinished, Holds
<1>3. ActsAlone(e)
  BY <1>1, <1>2 DEF ActsAlone
<1>4. Working(e)'
  <2>1. \A s \in mySessions[e] : owner[s] = e
    BY DEF SendInv, HoldInv, OwnedOpen
  <2> QED BY <2>1 DEF Working
<1> QED BY <1>3, <1>4

(* HandleAccept acts on the slot it took.                                       *)
LEMMA ActsAccept ==
    ASSUME SendInv, NEW e \in Net,
           (\E s \in Sess : AcceptAlloc(e, s)) \/ AcceptFd(e) \/ AcceptFails(e) \/ AcceptOwner(e)
    PROVE  ActsAlone(e) /\ Working(e)'
<1>0. TypeOK /\ HoldInv /\ ParseBits /\ net[e] \in NetFrame /\ net[e].sess \in Sess
  BY NetTyped DEF SendInv
<1>1. ASSUME NEW s \in Sess, AcceptAlloc(e, s) PROVE ActsAlone(e) /\ Working(e)'
  <2>1. /\ net'[e].pc = "setFd" /\ net'[e].sess = s /\ net'[e].bits = {}
        /\ \A f \in Net : f # e => net'[f] = net[f]
        /\ \A t \in Sess : dead[t] => dead'[t] \/ t = s
        /\ UNCHANGED <<owner, mySessions, dirty>>
    BY <1>0, <1>1 DEF AcceptAlloc, Alloc, Idle, TypeOK, PoolTypeOK
  <2> QED BY <1>1, <2>1 DEF ActsAlone, Working, Accepting, Unfinished
<1>2. CASE AcceptFd(e)
  <2>1. /\ net[e].pc = "setFd" /\ net'[e].pc = "setOwner"
        /\ net'[e].sess = net[e].sess /\ net'[e].bits = net[e].bits
        /\ \A f \in Net : f # e => net'[f] = net[f]
        /\ UNCHANGED <<owner, dead, mySessions, dirty>>
    BY <1>0, <1>2 DEF AcceptFd, TypeOK, NetFrame, poolVars
  <2> QED BY <2>1 DEF ActsAlone, Working, Accepting, Unfinished
<1>3. CASE AcceptFails(e)
  <2>1. /\ net[e].pc = "setOwner" /\ net'[e].pc = "drop"
        /\ net'[e].sess = net[e].sess /\ net'[e].bits = net[e].bits
        /\ \A f \in Net : f # e => net'[f] = net[f]
        /\ owner'[net[e].sess] = e /\ \A t \in Sess : t # net[e].sess => owner'[t] = owner[t]
        /\ \A t \in Sess : dead[t] => dead'[t]
        /\ UNCHANGED <<mySessions, dirty>>
    BY <1>0, <1>3 DEF AcceptFails, TypeOK, NetFrame, PoolTypeOK
  <2> QED BY <2>1 DEF ActsAlone, Working, Accepting, Unfinished
<1>4. CASE AcceptOwner(e)
  <2>1. /\ net[e].pc = "setOwner" /\ net'[e].pc = "idle" /\ net'[e].bits = {}
        /\ \A f \in Net : f # e => net'[f] = net[f] /\ mySessions'[f] = mySessions[f]
        /\ \A t \in Sess : t # net[e].sess => owner'[t] = owner[t]
        /\ UNCHANGED <<dead, dirty>>
    BY <1>0, <1>4 DEF AcceptOwner, Idle, TypeOK, NetFrame, poolVars
  <2> QED BY <2>1 DEF ActsAlone, Working, Accepting, Unfinished
<1> QED BY <1>1, <1>2, <1>3, <1>4

(* The second half of Disconnect: the worker may look at the session again.     *)
LEMMA ActsDrop ==
    ASSUME SendInv, NEW e \in Net, Working(e), Drop(e)
    PROVE  ActsAlone(e) /\ Working(e)'
<1>0. TypeOK /\ HoldInv /\ net[e] \in NetFrame /\ net[e].sess \in Sess /\ net[e].bits \in SUBSET Sess
  BY NetTyped DEF SendInv
<1> DEFINE s == net[e].sess
<1>1. /\ net[e].pc = "drop" /\ net'[e] = Return(e) /\ dead' = dead
      /\ \A f \in Net : f # e => net'[f] = net[f] /\ mySessions'[f] = mySessions[f]
      /\ UNCHANGED <<owner, dirty>>
  BY <1>0, ReleaseEffect DEF Drop, TypeOK, sockVars
<1>2. Dropping(e, s) /\ dead[s] /\ owner[s] = e
  BY <1>0, <1>1 DEF Dropping, HoldInv, DropDead, Working
<1>3. /\ Return(e).pc \in {"idle", "recheck", "cleanup"} /\ Return(e).bits \subseteq net[e].bits
      /\ Return(e).pc = "recheck" => Return(e).sess = s
  BY <1>0, ReturnPc, NetTyped
<1> HIDE DEF s
<1>4. ActsAlone(e)
  BY <1>1, <1>2, <1>3 DEF ActsAlone, Accepting, Unfinished, Holds
<1>5. Working(e)'
  BY <1>1, <1>2, <1>3 DEF Working
<1> QED BY <1>4, <1>5

(* Every step of a worker.                                                      *)
LEMMA ActsStep ==
    ASSUME SendInv, OwnWork, AcceptClear, NEW e \in Net, Working(e), NetEvent(e) \/ NetContinues(e)
    PROVE  ActsAlone(e) /\ Working(e)'
<1>0. /\ TypeOK /\ HoldInv /\ CleanupBits
      /\ net[e] \in NetFrame /\ net[e].sess \in Sess /\ net[e].bits \in SUBSET Sess
  BY NetTyped DEF SendInv
<1>1. ASSUME NEW x \in NetFrame, net' = [net EXCEPT ![e] = x], dirty' = dirty,
             UNCHANGED <<owner, mySessions, dead>>,
             x.bits \subseteq net[e].bits \cup mySessions[e],
             \/ x.pc \in {"idle", "cleanup", "exited"}
             \/ x.pc \in {"parse", "reply", "flush", "recheck"} /\ x.sess \in mySessions[e]
      PROVE  ActsAlone(e) /\ Working(e)'
  <2>1. net'[e] = x /\ \A f \in Net : f # e => net'[f] = net[f]
    BY <1>0, <1>1 DEF TypeOK
  <2> QED BY <1>1, <2>1, ActsOnOwn
<1>2. ASSUME NEW s \in mySessions[e], net[e].pc # "drop", Disconnect(e, s), UNCHANGED <<mySessions, dirty>>
      PROVE  ActsAlone(e) /\ Working(e)'
  <2>1. s \in Sess /\ ~dead[s]
    BY <1>0, <1>2, OwnedLive
  <2>2. /\ dead'[s] /\ \A t \in Sess : t # s => dead'[t] = dead[t]
        /\ net'[e].pc = "drop" /\ net'[e].sess = s /\ net'[e].bits = net[e].bits
        /\ \A f \in Net : f # e => net'[f] = net[f]
        /\ owner' = owner
    BY <1>0, <1>2, <2>1, DisconnectEffect
  <2> QED BY <1>2, <2>2, ActsOnOwn
<1>3. ASSUME (\E s \in Sess : AcceptAlloc(e, s)) \/ AcceptFd(e) \/ AcceptFails(e) \/ AcceptOwner(e)
      PROVE  ActsAlone(e) /\ Working(e)'
  BY <1>3, ActsAccept
<1>4. ASSUME NEW s \in Sess, HandleReadable(e, s) PROVE ActsAlone(e) /\ Working(e)'
  <2> DEFINE x == [Idle({}) EXCEPT !.pc = "parse", !.sess = s, !.ret = "parse"]
  <2>1. x \in NetFrame /\ x.pc = "parse" /\ x.sess = s /\ x.bits = {}
    BY NoSessIn DEF Idle, NetFrame
  <2> HIDE DEF x
  <2>2. s \in mySessions[e] /\ net' = [net EXCEPT ![e] = x] /\ UNCHANGED <<owner, mySessions, dead, dirty>>
    BY <1>4 DEF HandleReadable, Registered, poolVars, sockVars, x
  <2> QED BY <1>1, <2>1, <2>2
<1>5. ASSUME NEW s \in Sess, HandleWritable(e, s) PROVE ActsAlone(e) /\ Working(e)'
  <2> DEFINE x == [Idle({}) EXCEPT !.pc = "flush", !.sess = s]
  <2>1. x \in NetFrame /\ x.pc = "flush" /\ x.sess = s /\ x.bits = {}
    BY NoSessIn DEF Idle, NetFrame
  <2> HIDE DEF x
  <2>2. s \in mySessions[e] /\ net' = [net EXCEPT ![e] = x] /\ UNCHANGED <<owner, mySessions, dead, dirty>>
    BY <1>5 DEF HandleWritable, Registered, poolVars, sockVars, x
  <2> QED BY <1>1, <2>1, <2>2
<1>6. ASSUME NEW s \in Sess, HandleHangup(e, s) PROVE ActsAlone(e) /\ Working(e)'
  BY <1>2, <1>6 DEF HandleHangup, Between, Registered
<1>7. CASE DispatchBad(e) \/ FlushFails(e)
  BY <1>0, <1>2, <1>7 DEF DispatchBad, FlushFails, OwnWork
<1>8. CASE ParseDone(e)
  <2>1. Idle({}) \in NetFrame /\ Idle({}).pc = "idle" /\ Idle({}).bits = {}
    BY IdleTyped, IdleFields, PcNames
  <2>2. net' = [net EXCEPT ![e] = Idle({})] /\ UNCHANGED <<owner, mySessions, dead, dirty>>
    BY <1>8 DEF ParseDone, poolVars, sockVars
  <2> QED BY <1>1, <2>1, <2>2
<1>9. CASE DrainTake(e)
  <2>1. dirty[e] \in SUBSET Sess
    BY <1>0 DEF TypeOK
  <2>2. Idle(dirty[e]).pc = "idle" /\ Idle(dirty[e]).bits = dirty[e]
    BY <2>1, IdleFields
  <2>3. /\ net'[e] = Idle(dirty[e]) /\ dirty'[e] = {}
        /\ \A f \in Net : f # e => net'[f] = net[f] /\ dirty'[f] = dirty[f]
        /\ UNCHANGED <<owner, mySessions, dead>>
    BY <1>0, <1>9 DEF DrainTake, TypeOK, poolVars, sockVars
  <2> QED BY <2>2, <2>3, ActsOnOwn
<1>10. CASE LoopExit(e)
  <2> DEFINE x == [Idle(Mine(e)) EXCEPT !.pc = "cleanup", !.ret = "cleanup"]
  <2>1. x \in NetFrame /\ x.pc = "cleanup" /\ x.bits = mySessions[e]
    <3>1. Mine(e) = mySessions[e] /\ Mine(e) \in SUBSET Sess
      BY <1>0 DEF Mine, TypeOK
    <3> QED BY <3>1, NoSessIn DEF Idle, NetFrame
  <2> HIDE DEF x
  <2>2. net' = [net EXCEPT ![e] = x] /\ UNCHANGED <<owner, mySessions, dead, dirty>>
    BY <1>10 DEF LoopExit, poolVars, sockVars, x
  <2> QED BY <1>1, <2>1, <2>2
<1>11. CASE CleanupDone(e)
  <2> DEFINE x == [net[e] EXCEPT !.pc = "exited"]
  <2>1. x \in NetFrame /\ x.pc = "exited" /\ x.bits = net[e].bits
    BY <1>0 DEF NetFrame
  <2>2. net' = [net EXCEPT ![e] = x] /\ UNCHANGED <<owner, mySessions, dead, dirty>>
    BY <1>11 DEF CleanupDone, poolVars, sockVars
  <2> HIDE DEF x
  <2> QED BY <1>1, <2>1, <2>2
<1>12. CASE DispatchJoin(e)
  <2> DEFINE x == [net[e] EXCEPT !.pc = "reply"]
  <2>1. x \in NetFrame /\ x.pc = "reply" /\ x.bits = net[e].bits /\ x.sess = net[e].sess
    BY <1>0 DEF NetFrame
  <2>2. /\ net[e].sess \in mySessions[e] /\ net' = [net EXCEPT ![e] = x]
        /\ UNCHANGED <<owner, mySessions, dead, dirty>>
    BY <1>12 DEF DispatchJoin, OwnWork, AddRef, sockVars
  <2> HIDE DEF x
  <2> QED BY <1>1, <2>1, <2>2
<1>13. CASE ReplyJoinOk(e) \/ DispatchReply(e)
  <2>1. /\ net[e].sess \in mySessions[e] /\ net[e].pc \in {"parse", "reply"}
        /\ UNCHANGED <<mySessions, dirty>> /\ SendBytes(e)
    BY <1>13 DEF ReplyJoinOk, DispatchReply, OwnWork
  <2>2. CASE Disconnect(e, net[e].sess)
    BY <1>2, <2>1, <2>2
  <2>3. CASE ~Disconnect(e, net[e].sess)
    <3> DEFINE x == [net[e] EXCEPT !.pc = "flush"]
    <3>1. x \in NetFrame /\ x.pc = "flush" /\ x.bits = net[e].bits /\ x.sess = net[e].sess
      BY <1>0 DEF NetFrame
    <3>2. net' = [net EXCEPT ![e] = x] /\ UNCHANGED <<owner, dead>>
      BY <2>1, <2>3 DEF SendBytes, poolVars, sockVars
    <3> HIDE DEF x
    <3> QED BY <1>1, <2>1, <3>1, <3>2
  <2> QED BY <2>2, <2>3
<1>14. CASE FlushSend(e)
  <2>1. /\ net[e].sess \in mySessions[e] /\ net[e].pc = "flush"
        /\ UNCHANGED <<owner, mySessions, dead, dirty>>
        /\ net' = net \/ net' = [net EXCEPT ![e] = Return(e)]
    BY <1>14 DEF FlushSend, OwnWork, poolVars
  <2>2. CASE net' = net
    BY <2>1, <2>2, ActsOnOwn
  <2>3. CASE net' = [net EXCEPT ![e] = Return(e)]
    <3>1. Return(e) \in NetFrame
      BY <1>0, ReturnTyped
    <3>2. /\ Return(e).pc \in {"idle", "recheck", "cleanup"} /\ Return(e).bits = net[e].bits
          /\ Return(e).pc = "recheck" => Return(e).sess = net[e].sess
      BY <1>0, ReturnPc, NetTyped
    <3> QED BY <1>1, <2>1, <2>3, <3>1, <3>2
  <2> QED BY <2>1, <2>2, <2>3
<1>15. CASE Drop(e)
  BY <1>15, ActsDrop
<1>16. CASE Recheck(e)
  <2>1. net[e].pc = "recheck" /\ UNCHANGED <<owner, mySessions, dead, dirty>>
    BY <1>16 DEF Recheck, poolVars, sockVars
  <2>2. CASE dead[net[e].sess]
    <3>1. Idle({}) \in NetFrame /\ Idle({}).pc = "idle" /\ Idle({}).bits = {}
      BY IdleTyped, IdleFields, PcNames
    <3>2. net' = [net EXCEPT ![e] = Idle({})]
      BY <1>16, <2>2 DEF Recheck
    <3> QED BY <1>1, <2>1, <3>1, <3>2
  <2>3. CASE ~dead[net[e].sess]
    <3> DEFINE x == [net[e] EXCEPT !.pc = "parse"]
    <3>1. x \in NetFrame /\ x.pc = "parse" /\ x.bits = net[e].bits /\ x.sess = net[e].sess
      BY <1>0 DEF NetFrame
    <3>2. net' = [net EXCEPT ![e] = x] /\ net[e].sess \in mySessions[e]
      BY <1>16, <2>1, <2>3 DEF Recheck, Working
    <3> HIDE DEF x
    <3> QED BY <1>1, <2>1, <3>1, <3>2
  <2> QED BY <2>2, <2>3
<1>17. ASSUME NEW s \in Sess, DrainVisit(e, s) PROVE ActsAlone(e) /\ Working(e)'
  <2> DEFINE b == net[e].bits \ {s}
  <2>1. /\ b \in SUBSET Sess /\ b \subseteq net[e].bits /\ s \in net[e].bits /\ net[e].pc = "idle"
        /\ UNCHANGED <<owner, mySessions, dead, dirty>>
        /\ net' = [net EXCEPT ![e] = IF DrainTest(e, s) THEN [Idle(b) EXCEPT !.pc = "flush", !.sess = s]
                                                        ELSE Idle(b)]
    BY <1>0, <1>17 DEF DrainVisit, poolVars, sockVars
  <2> HIDE DEF b
  <2>2. CASE DrainTest(e, s)
    <3> DEFINE x == [Idle(b) EXCEPT !.pc = "flush", !.sess = s]
    <3>1. x \in NetFrame /\ x.pc = "flush" /\ x.sess = s /\ x.bits = b
      BY <2>1, NoSessIn DEF Idle, NetFrame
    <3>2. net' = [net EXCEPT ![e] = x]
      BY <2>1, <2>2
    <3> HIDE DEF x
    <3>3. PICK f \in Net : s \in mySessions[f] \/ Accepting(f, s)
      BY <1>0, <2>2 DEF DrainTest, HoldInv, OpenOwned
    <3>4. owner[s] = e /\ Unfinished(e, s)
      BY <2>1, <2>2 DEF DrainTest, Unfinished
    <3>5. s \in mySessions[e]
      <4>1. CASE s \in mySessions[f]
        BY <1>0, <3>4, <4>1 DEF HoldInv, OwnedOpen
      <4>2. CASE Accepting(f, s)
        <5>1. f # e
          BY <2>1, <4>2 DEF Accepting
        <5> QED BY <3>4, <4>2, <5>1 DEF AcceptClear
      <4> QED BY <3>3, <4>1, <4>2
    <3> QED BY <1>1, <2>1, <3>1, <3>2, <3>5
  <2>3. CASE ~DrainTest(e, s)
    <3>1. Idle(b) \in NetFrame /\ Idle(b).pc = "idle" /\ Idle(b).bits = b
      BY <2>1, IdleTyped, IdleFields
    <3>2. net' = [net EXCEPT ![e] = Idle(b)]
      BY <2>1, <2>3
    <3> QED BY <1>1, <2>1, <3>1, <3>2
  <2> QED BY <2>2, <2>3
<1>18. ASSUME NEW s \in Sess, CleanupCut(e, s) PROVE ActsAlone(e) /\ Working(e)'
  <2>1. Cuts(e, s)
    BY <1>0, <1>18, HoldCleanupCut
  <2>2. net'[e].bits \subseteq net[e].bits /\ dirty' = dirty
    <3>1. net'[e] = [net[e] EXCEPT !.bits = @ \ {s}, !.sess = s,
                                   !.pc = IF dead[s] THEN "cleanup" ELSE "drop"]
      BY <1>0, <1>18 DEF CleanupCut, TypeOK
    <3>2. net'[e].bits = net[e].bits \ {s}
      BY <1>0, <3>1 DEF NetFrame
    <3> QED BY <1>18, <3>2 DEF CleanupCut
  <2> QED BY <2>1, <2>2, ActsOnOwn DEF Cuts
<1> QED BY <1>3, <1>4, <1>5, <1>6, <1>7, <1>8, <1>9, <1>10, <1>11, <1>12, <1>13, <1>14, <1>15,
           <1>16, <1>17, <1>18 DEF NetEvent, NetContinues

(* A worker's step leaves the work of the others theirs.                        *)
LEMMA WorkStepNet ==
    ASSUME SendInv, WorkInv, AcceptsAfter, NEW e \in Net, NetEvent(e) \/ NetContinues(e)
    PROVE  WorkInv'
<1>0. HoldInv /\ OwnWork /\ AcceptClear /\ \A f \in Net : Working(f) /\ net[f].sess \in Sess
  BY NetTyped DEF SendInv, WorkInv, OwnWork, Working
<1>1. ActsAlone(e) /\ Working(e)'
  BY <1>0, ActsStep
<1>2. ASSUME NEW f \in Net, f # e PROVE Working(f)'
  <2> DEFINE s == net[f].sess
  <2>1. /\ net'[f] = net[f] /\ mySessions'[f] = mySessions[f] /\ s \in Sess /\ Working(f)
        /\ owner'[s] = owner[s] \/ Accepting(e, s)
        /\ dead[s] => dead'[s] \/ AcceptAlloc(e, s)
    BY <1>0, <1>1, <1>2 DEF ActsAlone
  <2>2. ASSUME net[f].pc \in {"drop", "recheck"}, owner[s] = f PROVE ~Accepting(e, s)
    <3>1. CASE net[f].pc = "drop"
      BY <1>0, <1>2, <3>1 DEF HoldInv, OneOwner, Holds, Dropping
    <3>2. CASE net[f].pc = "recheck"
      BY <1>0, <1>2, <2>1, <2>2, <3>2 DEF AcceptClear, Unfinished
    <3> QED BY <2>2, <3>1, <3>2
  <2>3. ASSUME net[f].pc = "recheck", owner[s] = f PROVE ~AcceptAlloc(e, s)
    BY <1>2, <2>1, <2>3 DEF AcceptsAfter, Unfinished
  <2> HIDE DEF s
  <2> QED BY <2>1, <2>2, <2>3 DEF Working, s
<1>3. AcceptClear'
  <2> SUFFICES ASSUME NEW f \in Net, NEW g \in Net, NEW s \in Sess, Accepting(f, s)', g = owner'[s]
               PROVE  f = g \/ ~Unfinished(g, s)'
    BY DEF AcceptClear
  <2>0. owner[s] \in Net /\ \A h \in Net : h # e => (Unfinished(h, s)' <=> Unfinished(h, s))
    BY <1>1 DEF ActsAlone, Unfinished, SendInv, TypeOK
  <2>1. CASE f # e
    <3>1. Accepting(f, s) /\ ~Holds(e, s) /\ owner'[s] = owner[s]
      <4>1. Accepting(f, s)
        BY <1>1, <2>1 DEF ActsAlone, Accepting
      <4>2. ~Holds(e, s)
        BY <1>0, <2>1, <4>1 DEF HoldInv, OneOwner, Holds
      <4> QED BY <1>1, <4>1, <4>2 DEF ActsAlone, Holds
    <3>2. Unfinished(e, s)' => Unfinished(e, s)
      BY <1>1, <3>1 DEF ActsAlone
    <3> QED BY <1>0, <2>0, <3>1, <3>2 DEF AcceptClear
  <2>2. CASE f = e
    <3>1. CASE AcceptAlloc(e, s)
      <4>1. owner' = owner
        BY <3>1 DEF AcceptAlloc
      <4> QED BY <2>0, <2>2, <3>1, <4>1 DEF AcceptsAfter
    <3>2. CASE Accepting(e, s) /\ owner'[s] = owner[s]
      BY <1>0, <2>0, <2>2, <3>2 DEF AcceptClear
    <3> QED BY <1>1, <2>2, <3>1, <3>2 DEF ActsAlone
  <2> QED BY <2>1, <2>2
<1> QED BY <1>1, <1>2, <1>3 DEF WorkInv

(* The game worker, main and the clients take no slot; a dirty bit is set only  *)
(* for a session in a room, which nobody is accepting.                          *)
LEMMA WorkStep == SendInv /\ WorkInv /\ AcceptsAfter /\ [Next]_vars => WorkInv'
<1> SUFFICES ASSUME SendInv, WorkInv, AcceptsAfter, [Next]_vars PROVE WorkInv'
  OBVIOUS
<1>0. HoldInv /\ AcceptClear /\ \A f \in Net : Working(f)
  BY DEF SendInv, WorkInv
<1>1. CASE GameMark
  <2>1. PICK m \in game.m : /\ game.pc = "mark" /\ dirty' = [dirty EXCEPT ![MarkTarget(m)] = @ \cup {m.sess}]
                            /\ UNCHANGED <<poolVars, sockVars, mySessions, net>>
    BY <1>1 DEF GameMark
  <2>2. m \in members
    BY <1>0, <2>1 DEF HoldInv, GameHolds
  <2>3. UNCHANGED <<dead, owner, mySessions, net>>
    BY <2>1 DEF poolVars, sockVars
  <2>4. \A e \in Net, s \in Sess : Accepting(e, s) => s # m.sess
    BY <1>0, <2>2 DEF HoldInv, AcceptFresh, InMembers
  <2>5. \A e \in Net, s \in Sess : s # m.sess => (Unfinished(e, s)' <=> Unfinished(e, s))
    BY <2>1, <2>3 DEF Unfinished, SendInv, TypeOK
  <2>6. AcceptClear'
    <3>1. \A s \in Sess : owner[s] \in Net
      BY DEF SendInv, TypeOK
    <3> QED BY <1>0, <2>3, <2>4, <2>5, <3>1 DEF AcceptClear, Accepting
  <2> QED BY <1>0, <2>3, <2>6 DEF WorkInv, Working
<1>2. CASE GameEnqueue \/ (\E m \in members : GameTest(m) \/ GameLeave(m)) \/ StopGame
           \/ (\E e \in Net : StopNet(e)) \/ (\E s \in Sess : ClientReads(s)) \/ UNCHANGED vars
  <2>1. UNCHANGED <<dead, owner, mySessions, net, dirty>>
    BY <1>2 DEF GameEnqueue, GameTest, GameLeave, Release, StopGame, StopNet, ClientReads, vars,
                poolVars, sockVars
  <2> QED BY <1>0, <2>1 DEF WorkInv, Working, AcceptClear, Accepting, Unfinished
<1> QED BY <1>1, <1>2, WorkStepNet DEF Next, GameStep

(* However many epoll workers there are: if no slot is accepted while the       *)
(* worker that had it last may still come back to it, every worker works on     *)
(* sessions of its own list only.  So the two ways in which OwnWork fails       *)
(* (RecycledParse, and a dirty bit that outlives its session) are the only ones,*)
(* and both begin with a slot that was accepted too early (Session.h: Alloc).   *)
THEOREM PatientAccept == Spec /\ [][AcceptsAfter]_vars => []OwnWork
<1>1. Init => SendInv /\ WorkInv
  <2>1. Init => SendInv
    BY TypeInit, HoldInit, CleanupInit, DueInit DEF SendInv
  <2>2. Init => WorkInv
    <3> SUFFICES ASSUME Init PROVE \A e \in Net : net[e].pc = "idle"
      BY DEF WorkInv, Working, AcceptClear, Accepting
    <3> QED BY DEF Init, Idle
  <2> QED BY <2>1, <2>2
<1>2. WorkInv => OwnWork
  BY DEF WorkInv, Working, OwnWork
<1>3. (SendInv /\ WorkInv) /\ [Next]_vars /\ [AcceptsAfter]_vars => (SendInv /\ WorkInv)'
  <2> SUFFICES ASSUME SendInv, WorkInv, [Next]_vars, [AcceptsAfter]_vars PROVE SendInv' /\ WorkInv'
    OBVIOUS
  <2>1. SendInv'
    BY <1>2, TypeStep, HoldStep, DueStep DEF SendInv
  <2>2. WorkInv'
    <3>1. CASE AcceptsAfter
      BY <3>1, WorkStep
    <3>2. CASE UNCHANGED vars
      BY <3>2 DEF WorkInv, Working, AcceptClear, Accepting, Unfinished, vars, poolVars, sockVars
    <3> QED BY <3>1, <3>2
  <2> QED BY <2>1, <2>2
<1> QED BY <1>1, <1>2, <1>3, PTL DEF Spec

(* So the send path of any number of workers loses no wakeup, leaves the        *)
(* shutdown ledger and implements Outbox, unless a slot is accepted too early.  *)
THEOREM PatientSends ==
    Spec /\ [][AcceptsAfter]_vars => []NoLostWakeup /\ []ShutdownLedger /\ SendContract
BY PatientAccept, WakeupHolds, ShutdownLedgerHolds, SendContractHolds, PTL

(* One worker is always the one that had the slot last.                         *)
THEOREM LoneWorker ==
    ASSUME NEW e, Net = {e}
    PROVE  Spec => []OwnWork
<1>1. TypeOK => AcceptsAfter
  BY DEF AcceptsAfter, TypeOK
<1> QED BY <1>1, PatientAccept, SendTypeCorrect, PTL

(* One epoll worker's send path loses no wakeup, leaves the shutdown ledger,    *)
(* and implements Outbox, without any assumption on its behaviour.              *)
THEOREM LoneWorkerSends ==
    ASSUME NEW e, Net = {e}
    PROVE  Spec => []NoLostWakeup /\ []ShutdownLedger /\ SendContract
BY LoneWorker, WakeupHolds, ShutdownLedgerHolds, SendContractHolds, PTL

================================================================================
