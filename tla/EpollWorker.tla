------------------------------ MODULE EpollWorker ------------------------------
(* Sockets, send rings and the dirty bitmap: EpollWorker.cpp and DirtyMap of    *)
(* Session.h.  An epoll worker accepts, parses, replies and flushes the         *)
(* sessions it owns; a game worker puts snapshots into their send rings and     *)
(* marks them in the dirty map of the owner, which drains it once per round.    *)
(* In the end the main thread stops the game workers, then the epoll workers,   *)
(* each of which cuts its sessions before its thread ends.                      *)
(*                                                                              *)
(* One action is one access to state that another thread may read or write.  A  *)
(* worker inside an operation has a frame: a program counter, the session it    *)
(* works on, where the operation returns to, and the bits of the dirty word it  *)
(* has taken and not yet visited.  A loop of ReadSession and ParseFrames that   *)
(* handles several frames is several rounds of Parse, each ending in Recheck.   *)
(*                                                                              *)
(* The room is reduced to what the send path sees of it: an entry that holds a  *)
(* gameRef from Join until the game worker meets the leave entry (RoomManager   *)
(* has the detail).  The ring holds whole messages, each tagged with the        *)
(* generation it was meant for.  The kernel's socket buffer is a count.         *)
(* epoll_ctl(MOD) is taken to succeed, write() to fail only on a broken socket. *)
EXTENDS SessionPool, Sequences

CONSTANTS
    Net,                  \* the epoll workers
    RingCap,              \* messages the send ring holds (kSendRingSize)
    KernelCap,            \* messages the socket buffer holds (external)
    MaxConns,             \* bound: connections accepted in one behaviour
    MaxSnaps,             \* bound: snapshots the game worker sends
    Watched               \* bound: slots whose snapshots are followed to the end

ASSUME CapAssumption   == RingCap \in Nat \ {0} /\ KernelCap \in Nat \ {0}
ASSUME BoundAssumption == MaxConns \in Nat /\ MaxSnaps \in Nat
ASSUME SessAssumption  == Net # {} /\ Sess # {} /\ Watched \subseteq Sess

VARIABLES
    conns, snaps,         \* bounds only
    fd,                   \* Session::fd >= 0
    owner,                \* Session::owner
    wantWrite,            \* Session::wantWrite, EPOLLOUT is armed
    inRoom,               \* Session::inRoom
    sendQ,                \* Session::sendQ
    kbuf,                 \* messages in the kernel's socket buffer (external)
    mySessions,           \* EpollWorker::_mySessions
    dirty,                \* DirtyMap, the bits of each worker
    net,                  \* an epoll worker's frame
    members,              \* Room::Member: entries that hold a gameRef
    leaving,              \* pendingLeave entries
    game,                 \* the game worker's frame
    main,                 \* which Stop the main thread is in
    running               \* EpollWorker::_running

sockVars == <<fd, owner, wantWrite>>
roomVars == <<inRoom, members, leaving>>
stopVars == <<main, running>>
vars == <<poolVars, conns, snaps, sockVars, sendQ, roomVars, kbuf, mySessions, dirty, net,
          game, stopVars>>

Member == [sess : Sess, gen : Nat, owner : Net]
Msg    == [kind : {"REPLY", "SNAPSHOT"}, gen : Nat]

NoSess == CHOOSE s \in Sess : TRUE
Idle(bits) == [pc |-> "idle", sess |-> NoSess, ret |-> "loop", bits |-> bits]
GameIdle == [pc |-> "idle", m |-> {}]

NetFrame ==
    [pc : {"idle", "setFd", "setOwner", "parse", "reply", "flush", "drop", "recheck",
           "cleanup", "exited"},
     sess : Sess, ret : {"loop", "parse", "cleanup"}, bits : SUBSET Sess]

TypeOK ==
    /\ PoolTypeOK
    /\ conns \in 0 .. MaxConns /\ snaps \in 0 .. MaxSnaps
    /\ fd \in [Sess -> BOOLEAN] /\ owner \in [Sess -> Net]
    /\ wantWrite \in [Sess -> BOOLEAN] /\ inRoom \in [Sess -> BOOLEAN]
    /\ sendQ \in [Sess -> Seq(Msg)] /\ \A s \in Sess : Len(sendQ[s]) <= RingCap
    /\ kbuf \in [Sess -> 0 .. KernelCap]
    /\ mySessions \in [Net -> SUBSET Sess] /\ dirty \in [Net -> SUBSET Sess]
    /\ net \in [Net -> NetFrame]
    /\ members \subseteq Member /\ leaving \subseteq [sess : Sess, gen : Nat]
    /\ game \in [pc : {"idle", "enqueue", "mark"}, m : SUBSET Member]
    /\ main \in {"serving", "net"} /\ running \in [Net -> BOOLEAN]

Init ==
    /\ PoolInit
    /\ conns = 0 /\ snaps = 0
    /\ fd = [s \in Sess |-> FALSE]
    /\ owner = [s \in Sess |-> CHOOSE e \in Net : TRUE]
    /\ wantWrite = [s \in Sess |-> FALSE] /\ inRoom = [s \in Sess |-> FALSE]
    /\ sendQ = [s \in Sess |-> <<>>]
    /\ kbuf = [s \in Sess |-> 0]
    /\ mySessions = [e \in Net |-> {}] /\ dirty = [e \in Net |-> {}]
    /\ net = [e \in Net |-> Idle({})]
    /\ members = {} /\ leaving = {}
    /\ game = GameIdle
    /\ main = "serving" /\ running = [e \in Net |-> TRUE]

Between(e) == net[e].pc = "idle" /\ net[e].bits = {}   \* between epoll events
Min2(a, b) == IF a <= b THEN a ELSE b

--------------------------------------------------------------------------------
(* The ring (CRingBufferMT, external): all or nothing.                          *)
HasRoom(s) == Len(sendQ[s]) < RingCap

Enqueue(s, kind, g) == sendQ' = [sendQ EXCEPT ![s] = Append(@, [kind |-> kind, gen |-> g])]

(* Mutant of ClearRings: a reused slot keeps the bytes of its last owner.       *)
ClearRings_Kept(s) == UNCHANGED sendQ

(* The rings of a slot when it is handed out.                                   *)
ClearRings(s) == sendQ' = [sendQ EXCEPT ![s] = <<>>]

(* Mutant of Return: the rest of the dirty word is forgotten after a flush.     *)
Return_WordLost(e) ==
    CASE net[e].ret = "loop"    -> Idle({})
      [] net[e].ret = "parse"   -> [net[e] EXCEPT !.pc = "recheck"]
      [] net[e].ret = "cleanup" -> [net[e] EXCEPT !.pc = "cleanup"]

(* Where a worker goes when FlushSend, SendBytes or Disconnect returns.         *)
Return(e) ==
    CASE net[e].ret = "loop"    -> Idle(net[e].bits)
      [] net[e].ret = "parse"   -> [net[e] EXCEPT !.pc = "recheck"]
      [] net[e].ret = "cleanup" -> [net[e] EXCEPT !.pc = "cleanup"]

--------------------------------------------------------------------------------
(* HandleAccept, in the order of its stores: Alloc, fd, owner and registration. *)
AcceptAlloc(e, s) ==
    /\ Between(e)
    /\ conns < MaxConns
    /\ conns' = conns + 1
    /\ Alloc(s)
    /\ ClearRings(s)
    /\ fd' = [fd EXCEPT ![s] = FALSE]
    /\ wantWrite' = [wantWrite EXCEPT ![s] = FALSE]
    /\ inRoom' = [inRoom EXCEPT ![s] = FALSE]
    /\ net' = [net EXCEPT ![e] = [Idle({}) EXCEPT !.pc = "setFd", !.sess = s]]
    /\ UNCHANGED <<snaps, owner, kbuf, mySessions, dirty, members, leaving, game, stopVars>>

AcceptFd(e) ==
    /\ net[e].pc = "setFd"
    /\ fd' = [fd EXCEPT ![net[e].sess] = TRUE]
    /\ net' = [net EXCEPT ![e].pc = "setOwner"]
    /\ UNCHANGED <<poolVars, conns, snaps, owner, wantWrite, sendQ, roomVars, kbuf,
                   mySessions, dirty, game, stopVars>>

(* epoll_ctl(ADD) fails: the slot is given back, dead and without a socket.     *)
AcceptFails(e) ==
    LET s == net[e].sess
    IN  /\ net[e].pc = "setOwner"
        /\ owner' = [owner EXCEPT ![s] = e]
        /\ fd' = [fd EXCEPT ![s] = FALSE]
        /\ dead' = [dead EXCEPT ![s] = TRUE]
        /\ net' = [net EXCEPT ![e].pc = "drop"]
        /\ UNCHANGED <<free, gen, refs, conns, snaps, wantWrite, sendQ, roomVars, kbuf,
                       mySessions, dirty, game, stopVars>>

AcceptOwner(e) ==
    /\ net[e].pc = "setOwner"
    /\ owner' = [owner EXCEPT ![net[e].sess] = e]
    /\ mySessions' = [mySessions EXCEPT ![e] = @ \cup {net[e].sess}]
    /\ net' = [net EXCEPT ![e] = Idle({})]
    /\ UNCHANGED <<poolVars, conns, snaps, fd, wantWrite, sendQ, roomVars, kbuf, dirty,
                   game, stopVars>>

--------------------------------------------------------------------------------
(* The socket is in the worker's epoll set, and an event of it passes the tag   *)
(* and dead test of HandleSession.  (A batch of epoll_wait names a socket once, *)
(* and a worker cuts a session only while it handles that session, so a batch   *)
(* has no second event for a slot that was cut.)                                *)
Registered(e, s) == s \in mySessions[e] /\ owner[s] = e /\ fd[s] /\ ~dead[s]

(* HandleSession on EPOLLIN: ReadSession fetches bytes, frames are parsed.      *)
HandleReadable(e, s) ==
    /\ Between(e)
    /\ Registered(e, s)
    /\ net' = [net EXCEPT ![e] = [Idle({}) EXCEPT !.pc = "parse", !.sess = s, !.ret = "parse"]]
    /\ UNCHANGED <<poolVars, conns, snaps, sockVars, sendQ, roomVars, kbuf, mySessions,
                   dirty, game, stopVars>>

(* Disconnect, first half: the first caller raises dead, takes the socket out   *)
(* of epoll and closes it; a second caller returns at once.                     *)
Disconnect(e, s) ==
    /\ dead' = [dead EXCEPT ![s] = TRUE]
    /\ fd' = [fd EXCEPT ![s] = dead[s] /\ @]
    /\ kbuf' = [kbuf EXCEPT ![s] = IF dead[s] THEN @ ELSE 0]
    /\ net' = [net EXCEPT ![e] = IF dead[s] THEN Return(e)
                                  ELSE [@ EXCEPT !.pc = "drop", !.sess = s]]
    /\ UNCHANGED <<free, gen, refs, owner, wantWrite>>

(* HandleSession on EPOLLERR, EPOLLHUP or EPOLLRDHUP.                           *)
HandleHangup(e, s) ==
    /\ Between(e)
    /\ Registered(e, s)
    /\ Disconnect(e, s)
    /\ UNCHANGED <<conns, snaps, sendQ, roomVars, mySessions, dirty, game, stopVars>>

(* HandleSession on EPOLLOUT: armed, and the kernel has room again.             *)
HandleWritable(e, s) ==
    /\ Between(e)
    /\ Registered(e, s)
    /\ wantWrite[s] /\ kbuf[s] < KernelCap
    /\ net' = [net EXCEPT ![e] = [Idle({}) EXCEPT !.pc = "flush", !.sess = s]]
    /\ UNCHANGED <<poolVars, conns, snaps, sockVars, sendQ, roomVars, kbuf, mySessions,
                   dirty, game, stopVars>>

(* ParseFrames and Dispatch, one frame.  No whole frame is left: back to the    *)
(* event loop.                                                                  *)
ParseDone(e) ==
    /\ net[e].pc = "parse"
    /\ net' = [net EXCEPT ![e] = Idle({})]
    /\ UNCHANGED <<poolVars, conns, snaps, sockVars, sendQ, roomVars, kbuf, mySessions,
                   dirty, game, stopVars>>

(* A frame that breaks the protocol, an orderly close, a read error or a recvQ  *)
(* without room: Disconnect.                                                    *)
DispatchBad(e) ==
    /\ net[e].pc = "parse"
    /\ Disconnect(e, net[e].sess)
    /\ UNCHANGED <<conns, snaps, sendQ, roomVars, mySessions, dirty, game, stopVars>>

(* C2S_JOIN, first half: RoomManager::Join queues an entry with a gameRef, and  *)
(* from here on the game worker may serve the session.                          *)
DispatchJoin(e) ==
    LET s == net[e].sess
    IN  /\ net[e].pc = "parse"
        /\ ~inRoom[s]
        /\ AddRef(s)
        /\ inRoom' = [inRoom EXCEPT ![s] = TRUE]
        /\ members' = members \cup {[sess |-> s, gen |-> gen[s], owner |-> owner[s]]}
        /\ net' = [net EXCEPT ![e].pc = "reply"]
        /\ UNCHANGED <<conns, snaps, sockVars, sendQ, leaving, kbuf, mySessions, dirty,
                       game, stopVars>>

(* SendBytes: the reply goes into the ring and is flushed; a full ring means    *)
(* the peer does not read, and the session is cut.                              *)
SendBytes(e) ==
    LET s == net[e].sess
    IN  \/ /\ HasRoom(s)
           /\ Enqueue(s, "REPLY", gen[s])
           /\ net' = [net EXCEPT ![e].pc = "flush"]
           /\ UNCHANGED <<poolVars, sockVars, kbuf>>
        \/ /\ ~HasRoom(s)
           /\ Disconnect(e, s)
           /\ UNCHANGED sendQ

(* C2S_JOIN, second half: JOIN_OK.                                              *)
ReplyJoinOk(e) ==
    /\ net[e].pc = "reply"
    /\ SendBytes(e)
    /\ UNCHANGED <<conns, snaps, roomVars, mySessions, dirty, game, stopVars>>

(* Any other frame with a reply: ECHO, C2S_PING, a refused C2S_JOIN.  C2S_INPUT *)
(* changes nothing here (see RoomInput).                                        *)
DispatchReply(e) ==
    /\ net[e].pc = "parse"
    /\ SendBytes(e)
    /\ UNCHANGED <<conns, snaps, roomVars, mySessions, dirty, game, stopVars>>

--------------------------------------------------------------------------------
(* The number of messages one write() takes.                                    *)
Written(s) == Min2(Len(sendQ[s]), KernelCap - kbuf[s])

(* Mutant of Armed: a short write does not ask for EPOLLOUT.                    *)
Armed_Never(s, n) == wantWrite[s]

(* UpdateWriteInterest(true) after a write that did not take everything.        *)
Armed(s, n) == wantWrite[s] \/ n < Len(sendQ[s])

(* FlushSend, one turn of its loop: an empty ring disarms EPOLLOUT and ends it; *)
(* a full write turns again; a short one arms EPOLLOUT and ends it.             *)
FlushSend(e) ==
    LET s == net[e].sess
        n == Written(s)
    IN  /\ net[e].pc = "flush"
        /\ sendQ' = [sendQ EXCEPT ![s] = SubSeq(@, n + 1, Len(@))]
        /\ kbuf' = [kbuf EXCEPT ![s] = @ + n]
        /\ wantWrite' = [wantWrite EXCEPT ![s] = sendQ[s] # <<>> /\ Armed(s, n)]
        /\ net' = IF sendQ[s] # <<>> /\ n = Len(sendQ[s]) THEN net
                                                          ELSE [net EXCEPT ![e] = Return(e)]
        /\ UNCHANGED <<poolVars, conns, snaps, fd, owner, roomVars, mySessions, dirty,
                       game, stopVars>>

(* FlushSend on a broken socket: Disconnect.                                    *)
FlushFails(e) ==
    /\ net[e].pc = "flush"
    /\ sendQ[net[e].sess] # <<>>
    /\ Disconnect(e, net[e].sess)
    /\ UNCHANGED <<conns, snaps, sendQ, roomVars, mySessions, dirty, game, stopVars>>

(* Disconnect, second half: the leave entry, the owner's list, the netRef.      *)
Drop(e) ==
    LET s == net[e].sess
    IN  /\ net[e].pc = "drop"
        /\ leaving' = IF inRoom[s] THEN leaving \cup {[sess |-> s, gen |-> gen[s]]}
                                   ELSE leaving
        /\ inRoom' = [inRoom EXCEPT ![s] = FALSE]
        /\ mySessions' = [mySessions EXCEPT ![e] = @ \ {s}]
        /\ Release(s)
        /\ net' = [net EXCEPT ![e] = Return(e)]
        /\ UNCHANGED <<conns, snaps, sockVars, sendQ, kbuf, dirty, members, game, stopVars>>

(* What ParseFrames, ReadSession and HandleSession do after a callee that may   *)
(* have cut the session: they look at its dead flag and go on if it is clear.   *)
Recheck(e) ==
    /\ net[e].pc = "recheck"
    /\ net' = [net EXCEPT ![e] = IF dead[net[e].sess] THEN Idle({}) ELSE [@ EXCEPT !.pc = "parse"]]
    /\ UNCHANGED <<poolVars, conns, snaps, sockVars, sendQ, roomVars, kbuf, mySessions,
                   dirty, game, stopVars>>

--------------------------------------------------------------------------------
(* The dirty scan of Loop.  DirtyMap::Drain takes the word in one exchange,     *)
(* then visits its bits.                                                        *)
DrainTake(e) ==
    /\ Between(e)
    /\ dirty[e] # {}
    /\ net' = [net EXCEPT ![e] = Idle(dirty[e])]
    /\ dirty' = [dirty EXCEPT ![e] = {}]
    /\ UNCHANGED <<poolVars, conns, snaps, sockVars, sendQ, roomVars, kbuf, mySessions,
                   game, stopVars>>

(* The test of the drain callback: is the slot mine, alive and connected?       *)
DrainTest(e, s) == owner[s] = e /\ ~dead[s] /\ fd[s]

DrainVisit(e, s) ==
    LET rest == net[e].bits \ {s}
    IN  /\ net[e].pc = "idle"
        /\ s \in net[e].bits
        /\ net' = [net EXCEPT ![e] = IF DrainTest(e, s)
                     THEN [Idle(rest) EXCEPT !.pc = "flush", !.sess = s]
                     ELSE Idle(rest)]
        /\ UNCHANGED <<poolVars, conns, snaps, sockVars, sendQ, roomVars, kbuf, mySessions,
                       dirty, game, stopVars>>

--------------------------------------------------------------------------------
(* The game worker's side of a snapshot (RoomTick): test, Enqueue, Mark.  A     *)
(* full ring drops the snapshot.                                                *)
GameTest(m) ==
    /\ main = "serving" /\ game.pc = "idle"
    /\ snaps < MaxSnaps
    /\ m \in members
    /\ gen[m.sess] = m.gen /\ ~dead[m.sess]
    /\ snaps' = snaps + 1
    /\ game' = [pc |-> "enqueue", m |-> {m}]
    /\ UNCHANGED <<poolVars, conns, sockVars, sendQ, roomVars, kbuf, mySessions, dirty,
                   net, stopVars>>

GameEnqueue ==
    \E m \in game.m :
        /\ game.pc = "enqueue"
        /\ IF HasRoom(m.sess)
             THEN Enqueue(m.sess, "SNAPSHOT", m.gen) /\ game' = [game EXCEPT !.pc = "mark"]
             ELSE UNCHANGED sendQ /\ game' = GameIdle
        /\ UNCHANGED <<poolVars, conns, snaps, sockVars, roomVars, kbuf, mySessions, dirty,
                       net, stopVars>>

(* The worker whose dirty word the game worker marks.                           *)
MarkTarget(m) == m.owner

GameMark ==
    \E m \in game.m :
        /\ game.pc = "mark"
        /\ dirty' = [dirty EXCEPT ![MarkTarget(m)] = @ \cup {m.sess}]
        /\ game' = GameIdle
        /\ UNCHANGED <<poolVars, conns, snaps, sockVars, sendQ, roomVars, kbuf,
                       mySessions, net, stopVars>>

(* ProcessRoomQueues meets the leave entry: the member's gameRef is returned.   *)
GameLeave(m) ==
    /\ main = "serving" /\ game.pc = "idle"
    /\ m \in members
    /\ [sess |-> m.sess, gen |-> m.gen] \in leaving
    /\ members' = members \ {m}
    /\ leaving' = leaving \ {[sess |-> m.sess, gen |-> m.gen]}
    /\ Release(m.sess)
    /\ UNCHANGED <<conns, snaps, sockVars, sendQ, inRoom, kbuf, mySessions, dirty, net,
                   game, stopVars>>

--------------------------------------------------------------------------------
(* Shutdown.  GameService::Stop: the game worker ends between two ticks and is  *)
(* joined; what the queues of its rooms hold stays there.                       *)
StopGame ==
    /\ main = "serving" /\ game.pc = "idle"
    /\ main' = "net"
    /\ UNCHANGED <<poolVars, conns, snaps, sockVars, sendQ, roomVars, kbuf, mySessions, dirty,
                   net, game, running>>

(* NetService::Stop: the next worker is told to stop when the last one has been *)
(* joined.                                                                      *)
StopNet(e) ==
    /\ main = "net" /\ running[e]
    /\ \A o \in Net : ~running[o] => net[o].pc = "exited"
    /\ running' = [running EXCEPT ![e] = FALSE]
    /\ UNCHANGED <<poolVars, conns, snaps, sockVars, sendQ, roomVars, kbuf, mySessions, dirty,
                   net, game, main>>

(* Mutant of Mine: only sessions in a room are cut.                             *)
Mine_Joined(e) == {s \in mySessions[e] : inRoom[s]}

(* The sessions that CleanupInThread cuts.                                      *)
Mine(e) == mySessions[e]

(* The head of Loop.                                                            *)
LoopExit(e) ==
    /\ Between(e)
    /\ ~running[e]
    /\ net' = [net EXCEPT ![e] = [Idle(Mine(e)) EXCEPT !.pc = "cleanup", !.ret = "cleanup"]]
    /\ UNCHANGED <<poolVars, conns, snaps, sockVars, sendQ, roomVars, kbuf, mySessions, dirty,
                   game, stopVars>>

(* CleanupInThread cuts one session of the list it copied.                      *)
CleanupCut(e, s) ==
    /\ net[e].pc = "cleanup"
    /\ s \in net[e].bits
    /\ dead' = [dead EXCEPT ![s] = TRUE]
    /\ fd' = [fd EXCEPT ![s] = dead[s] /\ @]
    /\ kbuf' = [kbuf EXCEPT ![s] = IF dead[s] THEN @ ELSE 0]
    /\ net' = [net EXCEPT ![e].bits = @ \ {s}, ![e].sess = s,
                          ![e].pc = IF dead[s] THEN "cleanup" ELSE "drop"]
    /\ UNCHANGED <<free, gen, refs, conns, snaps, owner, wantWrite, sendQ, roomVars, mySessions,
                   dirty, game, stopVars>>

(* It closes the listening socket and the epoll set, and the thread ends.       *)
CleanupDone(e) ==
    /\ net[e].pc = "cleanup" /\ net[e].bits = {}
    /\ net' = [net EXCEPT ![e].pc = "exited"]
    /\ UNCHANGED <<poolVars, conns, snaps, sockVars, sendQ, roomVars, kbuf, mySessions, dirty,
                   game, stopVars>>

--------------------------------------------------------------------------------
(* The client reads (external).                                                 *)
ClientReads(s) ==
    /\ kbuf[s] > 0
    /\ kbuf' = [kbuf EXCEPT ![s] = 0]
    /\ UNCHANGED <<poolVars, conns, snaps, sockVars, sendQ, roomVars, mySessions, dirty,
                   net, game, stopVars>>

--------------------------------------------------------------------------------

NetEvent(e) ==
    \E s \in Sess : AcceptAlloc(e, s) \/ HandleReadable(e, s) \/ HandleHangup(e, s)

(* What the worker does without waiting for a client.                           *)
NetContinues(e) ==
    \/ AcceptFd(e) \/ AcceptOwner(e) \/ AcceptFails(e)
    \/ ParseDone(e) \/ DispatchBad(e) \/ DispatchJoin(e) \/ ReplyJoinOk(e) \/ DispatchReply(e)
    \/ FlushSend(e) \/ FlushFails(e) \/ Drop(e) \/ Recheck(e)
    \/ DrainTake(e)
    \/ LoopExit(e) \/ CleanupDone(e) \/ \E s \in Sess : CleanupCut(e, s)
    \/ \E s \in Sess : DrainVisit(e, s) \/ HandleWritable(e, s)

GameStep == GameEnqueue \/ GameMark \/ \E m \in members : GameTest(m) \/ GameLeave(m)

Next ==
    \/ \E e \in Net : NetEvent(e) \/ NetContinues(e)
    \/ GameStep
    \/ StopGame \/ \E e \in Net : StopNet(e)
    \/ \E s \in Sess : ClientReads(s)

Spec == Init /\ [][Next]_vars

(* A worker's thread keeps running and its 1 ms round comes back to the dirty   *)
(* scan and to armed sockets; the game worker finishes what it began; clients   *)
(* read.  A worker that always has another frame to parse still returns to its  *)
(* loop: a socket runs dry (ParseDone).  Nothing makes main stop the workers.   *)
FairSpec ==
    /\ Spec
    /\ \A e \in Net :
         /\ WF_vars(NetContinues(e))
         /\ SF_vars(ParseDone(e))
         /\ SF_vars(DrainTake(e))
         /\ \A s \in Sess : SF_vars(HandleWritable(e, s))
    /\ WF_vars(GameStep)
    /\ \A s \in Sess : WF_vars(ClientReads(s))

--------------------------------------------------------------------------------

Live(s) == s \notin free /\ fd[s] /\ ~dead[s]

(* Somebody is going to flush the send ring of s: EPOLLOUT is armed, its dirty  *)
(* bit is set or already taken, its owner is flushing or closing it, or the     *)
(* game worker that filled it is about to mark it.                              *)
FlushDue(s) ==
    LET e == owner[s]
    IN  \/ wantWrite[s]
        \/ s \in dirty[e] \cup net[e].bits
        \/ net[e].pc \in {"flush", "drop"} /\ net[e].sess = s
        \/ game.pc = "mark" /\ \E m \in game.m : m.sess = s

(* No wakeup is lost: bytes in the send ring of a live session always have      *)
(* somebody on the way to flush them, however the game worker's Enqueue and     *)
(* Mark fall between the owner's exchange of the dirty word, its test of the    *)
(* ring and its short writes.                                                   *)
NoLostWakeup == \A s \in Sess : Live(s) /\ sendQ[s] # <<>> => FlushDue(s)

(* The send path implements Outbox: with the game worker's test, Enqueue and    *)
(* Mark apart, dirty bits that outlive their session, short writes and reused   *)
(* slots hidden, a live session's ring holds only what was put for it, in       *)
(* order, and what leaves a ring unsent leaves it because the session is cut.   *)
Sending == INSTANCE Outbox WITH
    Down  <- -1,
    conn  <- [s \in Sess |-> IF Live(s) THEN gen[s] ELSE -1],
    queue <- [s \in Sess |-> IF Live(s) THEN sendQ[s] ELSE <<>>]

SendContract == Sending!Spec

(* A worker that goes on parsing after its dead test has the session in its own *)
(* list: the session it dispatched for was not cut under it (EpollWorker.h:4).  *)
OwnParse ==
    \A e \in Net : net[e].pc = "parse" => net[e].sess \in mySessions[e]

(* A snapshot that the game worker put into the send ring of a session leaves   *)
(* it for the socket, unless the session is cut first: the dirty bit, the 1 ms  *)
(* round and EPOLLOUT together always get it out.                               *)
SnapshotWaits(s) == \E i \in 1 .. Len(sendQ[s]) : sendQ[s][i].kind = "SNAPSHOT"
SnapshotFlushed == \A s \in Watched : Live(s) /\ SnapshotWaits(s) ~> ~Live(s) \/ ~SnapshotWaits(s)

(* What a shutdown leaves behind: when the threads of the epoll workers have    *)
(* ended, all sockets are closed and all sessions dead; the slots that are not  *)
(* free again are exactly those a room still holds, whose leave entries nobody  *)
(* will process since the game workers were stopped first (main.cpp:160).       *)
ShutdownLedger ==
    (\A e \in Net : net[e].pc = "exited") => \A s \in Sess \ free :
        /\ dead[s] /\ ~fd[s] /\ refs[s] = 1
        /\ \E m \in members : m.sess = s /\ m.gen = gen[s]
        /\ [sess |-> s, gen |-> gen[s]] \in leaving

================================================================================
