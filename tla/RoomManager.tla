------------------------------ MODULE RoomManager ------------------------------
(* The life of sessions, seats and rooms: RoomManager.cpp, driven by the epoll  *)
(* workers (EpollWorker.cpp: accept, C2S_JOIN, Disconnect) and by the game      *)
(* workers (GameWorker.cpp: TickOnce).                                          *)
(*                                                                              *)
(* One action is one critical section, or one access to shared memory, of one   *)
(* thread.  A thread that is inside an operation has a frame: a program counter *)
(* and the operation's local variables.                                         *)
(* RoomManager::_lock is held across several actions: it is held exactly when   *)
(* some thread is at one of the program counters of MgrLockHeld.  A room.lock   *)
(* section is always a single action.                                           *)
(*                                                                              *)
(* pendingJoin, pendingLeave and the batches swapped out of them are sets: the  *)
(* entries of one queue name different seats and sessions, so their order does  *)
(* not show.  The same holds of the rooms in a mailbox or in a worker's list.   *)
(*                                                                              *)
(* What the code does with two epoll workers is Spec; what it counts on, and    *)
(* all safety and liveness below is checked and proved under, is AcceptsAfter:  *)
(* see PatientSpec.                                                             *)
(*                                                                              *)
(* Left out: the world of a room (whether its players stand in the exit zone is *)
(* a free choice), inputs, the messages sent, and Room::gen, which nothing      *)
(* reads.                                                                       *)
EXTENDS SessionPool, Sequences, FiniteSets

CONSTANTS
    Net,                  \* the epoll workers
    WorkerCount,          \* the number of game workers
    RoomCap,              \* the number of room slots
    kRoomMembers,         \* the seats of a room
    MaxConns,             \* bound: connections accepted in one behaviour
    ExitReachable         \* do players ever walk into the exit zone?

ASSUME SessAssumption  == Sess # {}
ASSUME GameAssumption  == WorkerCount \in Nat \ {0} /\ ExitReachable \in BOOLEAN
ASSUME RoomAssumption  == RoomCap \in Nat \ {0} /\ kRoomMembers \in Nat \ {0, 1}
ASSUME BoundAssumption == MaxConns \in Nat

Game  == 0 .. WorkerCount - 1
Rooms == 0 .. RoomCap - 1
Seats == 0 .. kRoomMembers - 1

JoinEntry  == [sess : Sess, gen : Nat, seat : Seats]   \* RoomJoinEntry, Member
LeaveEntry == [sess : Sess, gen : Nat]                 \* RoomLeaveEntry

(* The frame of an epoll worker: where it is in HandleSession ("serve"), Join   *)
(* or Disconnect, and the session, room and seat it works on.  One of a game    *)
(* worker: where it is in ProcessRoomQueues or TransferRoom, the room (cur),    *)
(* the batch swapped out of its queues (joins and leaves; carryJoin and         *)
(* carryLeave in a transfer) and the transfer's new room (nr).                  *)
NetFrame ==
    [pc : {"idle", "serve", "reserve0", "enter", "leave", "pushLeave", "release"},
     sess : Sess, room : Rooms, seat : Seats]

GameFrame ==
    [pc : {"rooms", "queues", "dying", "tick", "move"},
     cur : Rooms, joins : SUBSET JoinEntry, leaves : SUBSET LeaveEntry, nr : Rooms]

NetIdle == [pc |-> "idle", sess |-> CHOOSE s \in Sess : TRUE, room |-> 0, seat |-> 0]
BetweenRooms == [pc |-> "rooms", cur |-> 0, joins |-> {}, leaves |-> {}, nr |-> 0]

VARIABLES
    conns,                \* connections accepted so far (bound only)
    mySessions,           \* EpollWorker::_mySessions: who holds the netRef
    inRoom, roomIdx, actorId,                     \* the session's room fields
    rdead, everReserved, seatUsed, reservedSeats, \* a room's seat ledger
    pendingJoin, pendingLeave,                    \* its two queues
    members, memberCount,                         \* its members (game worker's)
    gameWorker,                                   \* the worker that ticks it
    freeRooms, openRooms, roomsPerWorker, addQ,   \* the manager's ledger
    net,                                          \* an epoll worker's frame
    myRooms, todo, game                           \* a game worker's rooms, frame

sessVars == <<inRoom, roomIdx, actorId>>
seatVars == <<rdead, everReserved, seatUsed, reservedSeats>>
queueVars == <<pendingJoin, pendingLeave>>
memberVars == <<members, memberCount>>
mgrVars == <<gameWorker, freeRooms, openRooms, roomsPerWorker, addQ>>
roomVars == <<seatVars, queueVars, memberVars, mgrVars>>
gameVars == <<myRooms, todo, game>>
vars == <<poolVars, conns, mySessions, sessVars, roomVars, net, gameVars>>

SessTypeOK ==
    /\ conns \in 0 .. MaxConns
    /\ mySessions \in [Net -> SUBSET Sess]
    /\ inRoom  \in [Sess -> BOOLEAN]
    /\ roomIdx \in [Sess -> Rooms]
    /\ actorId \in [Sess -> Seats]

SeatTypeOK ==
    /\ rdead        \in [Rooms -> BOOLEAN]
    /\ everReserved \in [Rooms -> BOOLEAN]
    /\ seatUsed     \in [Rooms -> SUBSET Seats]
    /\ reservedSeats \in [Rooms -> Int]

QueueTypeOK ==
    /\ pendingJoin  \in [Rooms -> SUBSET JoinEntry]
    /\ pendingLeave \in [Rooms -> SUBSET LeaveEntry]

MemberTypeOK ==
    /\ members     \in [Rooms -> SUBSET JoinEntry]
    /\ memberCount \in [Rooms -> Int]

MgrTypeOK ==
    /\ gameWorker \in [Rooms -> Game]
    /\ freeRooms \subseteq Rooms
    /\ openRooms \in Seq(Rooms)
    /\ roomsPerWorker \in [Game -> Int]
    /\ addQ \in [Game -> SUBSET Rooms]

FrameTypeOK ==
    /\ net \in [Net -> NetFrame]
    /\ myRooms \in [Game -> SUBSET Rooms]
    /\ todo    \in [Game -> SUBSET Rooms]
    /\ game \in [Game -> GameFrame]

TypeOK ==
    /\ PoolTypeOK   /\ SessTypeOK  /\ SeatTypeOK  /\ QueueTypeOK
    /\ MemberTypeOK /\ MgrTypeOK   /\ FrameTypeOK

(* RoomManager::Init and the constructors: nothing accepted, every slot free,   *)
(* no room open.                                                                *)
Init ==
    /\ PoolInit
    /\ conns = 0
    /\ mySessions = [e \in Net |-> {}]
    /\ inRoom  = [s \in Sess |-> FALSE]
    /\ roomIdx = [s \in Sess |-> 0]
    /\ actorId = [s \in Sess |-> 0]
    /\ rdead        = [r \in Rooms |-> FALSE]
    /\ everReserved = [r \in Rooms |-> FALSE]
    /\ seatUsed     = [r \in Rooms |-> {}]
    /\ reservedSeats = [r \in Rooms |-> 0]
    /\ pendingJoin  = [r \in Rooms |-> {}]
    /\ pendingLeave = [r \in Rooms |-> {}]
    /\ members      = [r \in Rooms |-> {}]
    /\ memberCount  = [r \in Rooms |-> 0]
    /\ gameWorker   = [r \in Rooms |-> 0]
    /\ freeRooms = Rooms
    /\ openRooms = <<>>
    /\ roomsPerWorker = [w \in Game |-> 0]
    /\ addQ = [w \in Game |-> {}]
    /\ net = [e \in Net |-> NetIdle]
    /\ myRooms = [w \in Game |-> {}]
    /\ todo    = [w \in Game |-> {}]
    /\ game = [w \in Game |-> BetweenRooms]

(* RoomManager::_lock is held across the steps of Join and of TransferRoom.     *)
MgrLockHeld ==
    \/ \E e \in Net  : net[e].pc \in {"reserve0", "enter"}
    \/ \E w \in Game : game[w].pc = "move"

SeatsOf(es) == {e.seat : e \in es}

--------------------------------------------------------------------------------
(* The manager's helpers.                                                       *)

(* AllocRoomSlotLocked: slot r leaves the free list, starts empty and goes to   *)
(* game worker w.  TransferRoom closes its old room in the same step: "closing" *)
(* is the set of rooms the caller closes, whose ledger and queues it empties.   *)
AllocRoomSlotLocked(r, w, closing) ==
    /\ r \in freeRooms
    /\ freeRooms' = freeRooms \ {r}
    /\ rdead' = [x \in Rooms |-> x \in closing \/ (x # r /\ rdead[x])]
    /\ everReserved' = [everReserved EXCEPT ![r] = FALSE]
    /\ seatUsed' = [x \in Rooms |-> IF x \in closing \cup {r} THEN {} ELSE seatUsed[x]]
    /\ reservedSeats' = [x \in Rooms |-> IF x \in closing \cup {r} THEN 0 ELSE reservedSeats[x]]
    /\ pendingJoin'  = [x \in Rooms |-> IF x \in closing \cup {r} THEN {} ELSE pendingJoin[x]]
    /\ pendingLeave' = [x \in Rooms |-> IF x \in closing \cup {r} THEN {} ELSE pendingLeave[x]]
    /\ members' = [members EXCEPT ![r] = {}]
    /\ memberCount' = [memberCount EXCEPT ![r] = 0]
    /\ gameWorker' = [gameWorker EXCEPT ![r] = w]
    /\ roomsPerWorker' = [roomsPerWorker EXCEPT ![w] = @ + 1]

(* The least loaded game worker, the lowest number on a tie.                    *)
LeastLoaded(w) ==
    \A v \in Game : \/ roomsPerWorker[w] < roomsPerWorker[v]
                    \/ roomsPerWorker[w] = roomsPerWorker[v] /\ w <= v

(* The lowest seat of room r that nobody has reserved.                          *)
FirstFreeSeat(r, i) ==
    /\ i \in Seats \ seatUsed[r]
    /\ \A j \in Seats \ seatUsed[r] : i <= j

(* What Join's loop looks for, from the back of the open list.                  *)
Usable(k) == ~rdead[openRooms[k]] /\ seatUsed[openRooms[k]] # Seats

(* Mutant of DropOpen: the retired room stays on the open list.                 *)
DropOpen_Forgotten(q, r) == q

(* Remove a room from the open list by moving the last entry into its place.    *)
DropOpen(q, r) ==
    IF \E i \in 1 .. Len(q) : q[i] = r
      THEN LET i == CHOOSE i \in 1 .. Len(q) : q[i] = r
           IN  SubSeq([q EXCEPT ![i] = q[Len(q)]], 1, Len(q) - 1)
      ELSE q

(* Mutant of GiveSeatBack: the flag is cleared, the counter is not.             *)
GiveSeatBack_NoCount(r, i) ==
    /\ seatUsed' = [seatUsed EXCEPT ![r] = @ \ {i}]
    /\ UNCHANGED reservedSeats

(* A seat of room r is given back, under room.lock.                             *)
GiveSeatBack(r, i) ==
    /\ seatUsed' = [seatUsed EXCEPT ![r] = @ \ {i}]
    /\ reservedSeats' = [reservedSeats EXCEPT ![r] = @ - 1]

(* Mutant of SwappedOut: the queue is copied and not emptied.                   *)
SwappedOut_Copied(q, r) == q

(* A queue of room r after it has been swapped with an empty one.               *)
SwappedOut(q, r) == [q EXCEPT ![r] = {}]

(* Mutant of StillThere: the dead test the wrong way round.                     *)
StillThere_Inverted(j) == gen[j.sess] = j.gen /\ dead[j.sess]

(* A join entry is acted on if its session is still the one that queued it.     *)
StillThere(j) == gen[j.sess] = j.gen /\ ~dead[j.sess]

(* Mutant of LeaveOf: the tag is built as if the slot were already recycled.    *)
LeaveOf_NextGen(s) == [sess |-> s, gen |-> gen[s] + 1]

(* The entry that a leaving session queues.                                     *)
LeaveOf(s) == [sess |-> s, gen |-> gen[s]]

(* Mutant of Matches: the generation is not compared.                           *)
Matches_AnyGen(m, l) == m.sess = l.sess

(* The member a leave entry names, of the same generation.                      *)
Matches(m, l) == m.sess = l.sess /\ m.gen = l.gen

(* Mutant of Redirected: sessions are not told their new room.                  *)
Redirected_Not(es, r) == roomIdx

(* The room numbers of sessions once the sessions of entries es moved to r.     *)
Redirected(es, r) ==
    [s \in Sess |-> IF \E j \in es : j.sess = s /\ j.gen = gen[s] THEN r ELSE roomIdx[s]]

(* Mutants of RoomEmptied: a room may die before its first reservation; only a  *)
(* room that is dead already is found empty.                                    *)
RoomEmptied_NeverReserved(r) ==
    ~rdead[r] /\ reservedSeats[r] = 0 /\ pendingJoin[r] = {}

RoomEmptied_AlreadyDead(r) ==
    rdead[r] /\ everReserved[r] /\ reservedSeats[r] = 0 /\ pendingJoin[r] = {}

(* The test, under room.lock, that ends ProcessRoomQueues.                      *)
RoomEmptied(r) ==
    /\ ~rdead[r]
    /\ everReserved[r]
    /\ reservedSeats[r] = 0
    /\ pendingJoin[r] = {}

(* The load ledger loses the room and FreeRoomIfDrained returns its slot.       *)
RetireRoom(r) ==
    /\ roomsPerWorker' = [roomsPerWorker EXCEPT ![gameWorker[r]] = @ - 1]
    /\ freeRooms' = freeRooms \cup {r}

--------------------------------------------------------------------------------
(* Epoll workers.                                                               *)

(* HandleAccept: a slot is handed out with its netRef.                          *)
Accept(e, s) ==
    /\ net[e].pc = "idle"
    /\ conns < MaxConns
    /\ conns' = conns + 1
    /\ Alloc(s)
    /\ mySessions' = [mySessions EXCEPT ![e] = @ \cup {s}]
    /\ inRoom'  = [inRoom EXCEPT ![s] = FALSE]
    /\ roomIdx' = [roomIdx EXCEPT ![s] = 0]
    /\ actorId' = [actorId EXCEPT ![s] = 0]
    /\ UNCHANGED <<roomVars, net, gameVars>>

(* HandleAccept when epoll_ctl(ADD) fails: the slot comes back at once, with a  *)
(* new generation.                                                              *)
AcceptAborted(e, s) ==
    /\ net[e].pc = "idle"
    /\ conns < MaxConns
    /\ conns' = conns + 1
    /\ s \in free
    /\ refs' = [refs EXCEPT ![s] = 0]
    /\ gen'  = [gen EXCEPT ![s] = @ + 1]
    /\ dead' = [dead EXCEPT ![s] = TRUE]
    /\ inRoom'  = [inRoom EXCEPT ![s] = FALSE]
    /\ roomIdx' = [roomIdx EXCEPT ![s] = 0]
    /\ actorId' = [actorId EXCEPT ![s] = 0]
    /\ UNCHANGED <<free, mySessions, roomVars, net, gameVars>>

(* The frame of a worker that is handling an event of session s.                *)
Serve(s) == [NetIdle EXCEPT !.pc = "serve", !.sess = s]

(* HandleSession is called: only the worker's own sockets are in its epoll set. *)
HandleSession(e, s) ==
    /\ net[e].pc = "idle"
    /\ s \in mySessions[e]
    /\ ~dead[s]
    /\ net' = [net EXCEPT ![e] = Serve(s)]
    /\ UNCHANGED <<poolVars, conns, mySessions, sessVars, roomVars, gameVars>>

(* It returns: the session is dead, or there is nothing more to read.           *)
HandleSessionDone(e) ==
    /\ net[e].pc = "serve"
    /\ net' = [net EXCEPT ![e] = NetIdle]
    /\ UNCHANGED <<poolVars, conns, mySessions, sessVars, roomVars, gameVars>>

(* HandleSession, ReadSession and ParseFrames go on with s.  After a callee that *)
(* may have cut the session they look at its dead flag and at nothing else: not *)
(* at its generation, nor at whose it is by now.                                *)
Serves(e, s) == net[e].pc = "serve" /\ net[e].sess = s /\ ~dead[s]

(* The C2S_JOIN branch of Dispatch, up to the call of RoomManager::Join, and    *)
(* Join's wait for _lock.                                                       *)
JoinCalled(e, s) ==
    /\ Serves(e, s)
    /\ ~inRoom[s]
    /\ ~MgrLockHeld

(* Join finds an open room: unusable rooms behind it are dropped from the list, *)
(* the lowest seat is reserved, and the room leaves the list when that fills it.*)
JoinReserve(e, s) ==
    /\ JoinCalled(e, s)
    /\ \E k \in 1 .. Len(openRooms), i \in Seats :
         LET r == openRooms[k]
         IN  /\ Usable(k)
             /\ \A j \in k + 1 .. Len(openRooms) : ~Usable(j)
             /\ FirstFreeSeat(r, i)
             /\ seatUsed' = [seatUsed EXCEPT ![r] = @ \cup {i}]
             /\ everReserved' = [everReserved EXCEPT ![r] = TRUE]
             /\ reservedSeats' = [reservedSeats EXCEPT ![r] = @ + 1]
             /\ openRooms' = SubSeq(openRooms, 1,
                               IF reservedSeats[r] + 1 = kRoomMembers THEN k - 1 ELSE k)
             /\ net' = [net EXCEPT ![e] = [pc |-> "enter", sess |-> s, room |-> r, seat |-> i]]
    /\ UNCHANGED <<poolVars, conns, mySessions, sessVars, rdead, queueVars, memberVars,
                   gameWorker, freeRooms, roomsPerWorker, addQ, gameVars>>

(* Join finds none and allocates one (AllocRoom): the room is posted to its     *)
(* worker's mailbox before its first seat is reserved.                          *)
JoinAlloc(e, s) ==
    /\ JoinCalled(e, s)
    /\ \A k \in 1 .. Len(openRooms) : ~Usable(k)
    /\ \E r \in Rooms, w \in Game :
         /\ LeastLoaded(w)
         /\ AllocRoomSlotLocked(r, w, {})
         /\ addQ' = [addQ EXCEPT ![w] = @ \cup {r}]
         /\ net' = [net EXCEPT ![e] = [pc |-> "reserve0", sess |-> s, room |-> r, seat |-> 0]]
    /\ openRooms' = <<>>
    /\ UNCHANGED <<poolVars, conns, mySessions, sessVars, gameVars>>

(* Join finds none and the room pool is exhausted: JOIN_FAIL, the caller stays. *)
JoinFail(e, s) ==
    /\ JoinCalled(e, s)
    /\ \A k \in 1 .. Len(openRooms) : ~Usable(k)
    /\ freeRooms = {}
    /\ openRooms' = <<>>
    /\ UNCHANGED <<poolVars, conns, mySessions, sessVars, seatVars, queueVars, memberVars,
                   gameWorker, freeRooms, roomsPerWorker, addQ, net, gameVars>>

(* Join reserves seat 0 of the room it allocated and opens the room.            *)
JoinReserveFirst(e) ==
    /\ net[e].pc = "reserve0"
    /\ LET r == net[e].room
       IN  /\ seatUsed' = [seatUsed EXCEPT ![r] = @ \cup {0}]
           /\ everReserved' = [everReserved EXCEPT ![r] = TRUE]
           /\ reservedSeats' = [reservedSeats EXCEPT ![r] = 1]
           /\ openRooms' = Append(openRooms, r)
    /\ net' = [net EXCEPT ![e].pc = "enter"]
    /\ UNCHANGED <<poolVars, conns, mySessions, sessVars, rdead, queueVars, memberVars,
                   gameWorker, freeRooms, roomsPerWorker, addQ, gameVars>>

(* Join queues the entry with a gameRef, sets the session's room fields and     *)
(* gives _lock back.                                                            *)
JoinEnter(e) ==
    /\ net[e].pc = "enter"
    /\ LET s == net[e].sess
           r == net[e].room
       IN  /\ AddRef(s)
           /\ pendingJoin' = [pendingJoin EXCEPT ![r] =
                                @ \cup {[sess |-> s, gen |-> gen[s], seat |-> net[e].seat]}]
           /\ inRoom'  = [inRoom EXCEPT ![s] = TRUE]
           /\ roomIdx' = [roomIdx EXCEPT ![s] = r]
           /\ actorId' = [actorId EXCEPT ![s] = net[e].seat]
           /\ net' = [net EXCEPT ![e] = Serve(s)]
    /\ UNCHANGED <<conns, mySessions, seatVars, pendingLeave, memberVars, mgrVars, gameVars>>

(* Disconnect, first half: dead is raised and the socket closed.                *)
Disconnect(e, s) ==
    /\ Serves(e, s)
    /\ dead' = [dead EXCEPT ![s] = TRUE]
    /\ net' = [net EXCEPT ![e] = [NetIdle EXCEPT !.pc = "leave", !.sess = s]]
    /\ UNCHANGED <<free, gen, refs, conns, mySessions, sessVars, roomVars, gameVars>>

(* OnSessionLeave up to the room's lock: the room number is read here.          *)
OnSessionLeave(e) ==
    /\ net[e].pc = "leave"
    /\ LET s == net[e].sess
       IN  IF inRoom[s]
             THEN /\ inRoom' = [inRoom EXCEPT ![s] = FALSE]
                  /\ net' = [net EXCEPT ![e].pc = "pushLeave", ![e].room = roomIdx[s]]
             ELSE /\ net' = [net EXCEPT ![e].pc = "release"]
                  /\ UNCHANGED inRoom
    /\ UNCHANGED <<poolVars, conns, mySessions, roomIdx, actorId, roomVars, gameVars>>

(* OnSessionLeave under the lock of the room that was read.                     *)
PushLeave(e) ==
    /\ net[e].pc = "pushLeave"
    /\ pendingLeave' = [pendingLeave EXCEPT ![net[e].room] =
                          @ \cup {LeaveOf(net[e].sess)}]
    /\ net' = [net EXCEPT ![e].pc = "release"]
    /\ UNCHANGED <<poolVars, conns, mySessions, sessVars, seatVars, pendingJoin, memberVars,
                   mgrVars, gameVars>>

(* Disconnect, the end: off the worker's list, netRef returned.                 *)
ReleaseNetRef(e) ==
    /\ net[e].pc = "release"
    /\ mySessions' = [mySessions EXCEPT ![e] = @ \ {net[e].sess}]
    /\ Release(net[e].sess)
    /\ net' = [net EXCEPT ![e] = Serve(net[e].sess)]
    /\ UNCHANGED <<conns, sessVars, roomVars, gameVars>>

--------------------------------------------------------------------------------
(* Game workers.                                                                *)

(* TickOnce begins: the mailbox is emptied into the worker's list.              *)
DrainRoomAddQ(w) ==
    /\ game[w].pc = "rooms"
    /\ todo[w] = {}
    /\ myRooms' = [myRooms EXCEPT ![w] = @ \cup addQ[w]]
    /\ todo' = [todo EXCEPT ![w] = myRooms[w] \cup addQ[w]]
    /\ addQ' = [addQ EXCEPT ![w] = {}]
    /\ UNCHANGED <<poolVars, conns, mySessions, sessVars, seatVars, queueVars, memberVars,
                   gameWorker, freeRooms, openRooms, roomsPerWorker, net, game>>

(* ProcessRoomQueues begins on room r: both queues are swapped out together.    *)
SwapQueues(w, r) ==
    /\ game[w].pc = "rooms"
    /\ r \in todo[w]
    /\ game' = [game EXCEPT ![w] = [pc |-> "queues", cur |-> r, joins |-> pendingJoin[r],
                                    leaves |-> pendingLeave[r], nr |-> 0]]
    /\ pendingJoin'  = SwappedOut(pendingJoin, r)
    /\ pendingLeave' = SwappedOut(pendingLeave, r)
    /\ UNCHANGED <<poolVars, conns, mySessions, sessVars, seatVars, memberVars, mgrVars,
                   net, myRooms, todo>>

(* A join entry whose session is still there takes its seat.                    *)
InstallMember(w, j) ==
    /\ game[w].pc = "queues"
    /\ j \in game[w].joins
    /\ StillThere(j)
    /\ members' = [members EXCEPT ![game[w].cur] = {m \in @ : m.seat # j.seat} \cup {j}]
    /\ memberCount' = [memberCount EXCEPT ![game[w].cur] = @ + 1]
    /\ game' = [game EXCEPT ![w].joins = @ \ {j}]
    /\ UNCHANGED <<poolVars, conns, mySessions, sessVars, seatVars, queueVars, mgrVars,
                   net, myRooms, todo>>

(* A join entry whose session is gone gives its seat and its gameRef back.      *)
SkipJoin(w, j) ==
    /\ game[w].pc = "queues"
    /\ j \in game[w].joins
    /\ ~StillThere(j)
    /\ GiveSeatBack(game[w].cur, j.seat)
    /\ Release(j.sess)
    /\ game' = [game EXCEPT ![w].joins = @ \ {j}]
    /\ UNCHANGED <<conns, mySessions, sessVars, rdead, everReserved, queueVars, memberVars,
                   mgrVars, net, myRooms, todo>>

(* After the joins, a leave entry removes its member, or does nothing when no   *)
(* member matches.                                                              *)
ProcessLeave(w, l) ==
    /\ game[w].pc = "queues"
    /\ game[w].joins = {}
    /\ l \in game[w].leaves
    /\ game' = [game EXCEPT ![w].leaves = @ \ {l}]
    /\ \/ \E m \in members[game[w].cur] :
            /\ Matches(m, l)
            /\ members' = [members EXCEPT ![game[w].cur] = @ \ {m}]
            /\ memberCount' = [memberCount EXCEPT ![game[w].cur] = @ - 1]
            /\ GiveSeatBack(game[w].cur, m.seat)
            /\ Release(m.sess)
       \/ /\ \A m \in members[game[w].cur] : ~Matches(m, l)
          /\ UNCHANGED <<poolVars, memberVars, seatUsed, reservedSeats>>
    /\ UNCHANGED <<conns, mySessions, sessVars, rdead, everReserved, queueVars, mgrVars,
                   net, myRooms, todo>>

(* ProcessRoomQueues ends: a room that everybody has left dies.                 *)
DeathCheck(w) ==
    /\ game[w].pc = "queues"
    /\ game[w].joins = {} /\ game[w].leaves = {}
    /\ IF RoomEmptied(game[w].cur)
         THEN /\ rdead' = [rdead EXCEPT ![game[w].cur] = TRUE]
              /\ game' = [game EXCEPT ![w].pc = "dying"]
         ELSE /\ game' = [game EXCEPT ![w].pc = "tick"]
              /\ UNCHANGED rdead
    /\ UNCHANGED <<poolVars, conns, mySessions, sessVars, everReserved, seatUsed,
                   reservedSeats, queueVars, memberVars, mgrVars, net, myRooms, todo>>

(* A room that died returns to the pool, under _lock, and leaves the lists.     *)
ReapRoom(w) ==
    /\ game[w].pc = "dying"
    /\ ~MgrLockHeld
    /\ RetireRoom(game[w].cur)
    /\ openRooms' = DropOpen(openRooms, game[w].cur)
    /\ myRooms' = [myRooms EXCEPT ![w] = @ \ {game[w].cur}]
    /\ todo' = [todo EXCEPT ![w] = @ \ {game[w].cur}]
    /\ game' = [game EXCEPT ![w] = BetweenRooms]
    /\ UNCHANGED <<poolVars, conns, mySessions, sessVars, seatVars, queueVars, memberVars,
                   gameWorker, addQ, net>>

(* RoomTick without a room move: nobody to move, not all in the exit zone, or   *)
(* no free room to move to (TransferRoom returns nullptr; the next tick tries   *)
(* again).                                                                      *)
RoomTick(w) ==
    /\ game[w].pc = "tick"
    /\ todo' = [todo EXCEPT ![w] = @ \ {game[w].cur}]
    /\ game' = [game EXCEPT ![w] = BetweenRooms]
    /\ UNCHANGED <<poolVars, conns, mySessions, sessVars, roomVars, net, myRooms>>

(* TransferRoom begins: all members are in the exit zone.  Under _lock a slot   *)
(* is allocated to the same worker; the old room is closed and its queues are   *)
(* swapped out (carryJoin, carryLeave).                                         *)
TransferBegin(w) ==
    /\ game[w].pc = "tick"
    /\ ExitReachable
    /\ memberCount[game[w].cur] # 0
    /\ ~MgrLockHeld
    /\ \E r \in Rooms :
         /\ AllocRoomSlotLocked(r, gameWorker[game[w].cur], {game[w].cur})
         /\ game' = [game EXCEPT ![w].pc = "move", ![w].nr = r,
                                 ![w].joins = pendingJoin[game[w].cur],
                                 ![w].leaves = pendingLeave[game[w].cur]]
    /\ UNCHANGED <<poolVars, conns, mySessions, sessVars, openRooms, addQ, net, myRooms,
                   todo>>

(* TransferRoom moves one member, lowest seat first, with its gameRef, and      *)
(* tells its session the new room.                                              *)
TransferMember(w, m) ==
    /\ game[w].pc = "move"
    /\ m \in members[game[w].cur]
    /\ \A o \in members[game[w].cur] : m.seat <= o.seat
    /\ members' = [members EXCEPT ![game[w].cur] = @ \ {m},
                                  ![game[w].nr] = {o \in @ : o.seat # m.seat} \cup {m}]
    /\ roomIdx' = Redirected({m}, game[w].nr)
    /\ UNCHANGED <<poolVars, conns, mySessions, inRoom, actorId, seatVars, queueVars,
                   memberCount, mgrVars, net, gameVars>>

(* TransferRoom ends: the new room's ledger is set from its members, the        *)
(* carried queues follow, the old room leaves the open list and returns to the  *)
(* pool, and the worker ticks the new room from now on.                         *)
TransferEnd(w) ==
    /\ game[w].pc = "move"
    /\ members[game[w].cur] = {}
    /\ LET old  == game[w].cur
           new  == game[w].nr
           seats == SeatsOf(members[new]) \cup SeatsOf(game[w].joins)
           rest  == DropOpen(openRooms, old)
       IN  /\ everReserved' = [everReserved EXCEPT ![new] = TRUE]
           /\ seatUsed' = [seatUsed EXCEPT ![new] = @ \cup seats]
           /\ reservedSeats' = [reservedSeats EXCEPT ![new] = @ + Cardinality(seats)]
           /\ pendingJoin'  = [pendingJoin EXCEPT ![new] = @ \cup game[w].joins]
           /\ pendingLeave' = [pendingLeave EXCEPT ![new] = @ \cup game[w].leaves]
           /\ roomIdx' = Redirected(game[w].joins, new)
           /\ memberCount' = [memberCount EXCEPT ![old] = 0,
                                                 ![new] = Cardinality(SeatsOf(members[new]))]
           /\ openRooms' = IF reservedSeats[new] + Cardinality(seats) < kRoomMembers
                             THEN Append(rest, new) ELSE rest
           /\ RetireRoom(old)
           /\ myRooms' = [myRooms EXCEPT ![w] = (@ \ {old}) \cup {new}]
           /\ todo' = [todo EXCEPT ![w] = @ \ {old}]
    /\ game' = [game EXCEPT ![w] = BetweenRooms]
    /\ UNCHANGED <<poolVars, conns, mySessions, inRoom, actorId, rdead, members, gameWorker,
                   addQ, net>>

--------------------------------------------------------------------------------

NetStep(e) ==
    \/ \E s \in Sess : \/ Accept(e, s)
                       \/ AcceptAborted(e, s)
                       \/ HandleSession(e, s)
                       \/ JoinReserve(e, s)
                       \/ JoinAlloc(e, s)
                       \/ JoinFail(e, s)
                       \/ Disconnect(e, s)
    \/ HandleSessionDone(e)
    \/ JoinReserveFirst(e)
    \/ JoinEnter(e)
    \/ OnSessionLeave(e)
    \/ PushLeave(e)
    \/ ReleaseNetRef(e)

GameStep(w) ==
    \/ DrainRoomAddQ(w)
    \/ \E r \in todo[w] : SwapQueues(w, r)
    \/ \E j \in game[w].joins : InstallMember(w, j) \/ SkipJoin(w, j)
    \/ \E l \in game[w].leaves : ProcessLeave(w, l)
    \/ DeathCheck(w)
    \/ ReapRoom(w)
    \/ RoomTick(w)
    \/ TransferBegin(w)
    \/ \E m \in members[game[w].cur] : TransferMember(w, m)
    \/ TransferEnd(w)

Next == (\E e \in Net : NetStep(e)) \/ (\E w \in Game : GameStep(w))

Spec == Init /\ [][Next]_vars

(* Every thread keeps running: a game worker ticks for ever, an epoll worker    *)
(* finishes the operation it has begun.  Nothing makes a client connect, join   *)
(* or disconnect.  A thread waiting for _lock gets it when it stays free.       *)
NetContinues(e) ==
    \/ HandleSessionDone(e)
    \/ JoinReserveFirst(e) \/ JoinEnter(e)
    \/ OnSessionLeave(e) \/ PushLeave(e) \/ ReleaseNetRef(e)

FairSpec ==
    /\ Spec
    /\ \A e \in Net  : WF_vars(NetContinues(e))
    /\ \A w \in Game : WF_vars(GameStep(w))

(* What the code assumes and does not enforce: a slot is handed out (to a       *)
(* connection that stays, or to one whose accept is aborted) only when no worker *)
(* is inside HandleSession for it any more, the one that has given it back      *)
(* included.  The kernel may hand the next connection to another worker at any  *)
(* time, so only a server with one epoll worker has this for certain.           *)
AcceptsAfter ==
    \A e \in Net, s \in Sess : Accept(e, s) \/ AcceptAborted(e, s) =>
        \A f \in Net : net[f].pc = "idle" \/ net[f].sess # s

PatientSpec == Spec /\ [][AcceptsAfter]_vars

--------------------------------------------------------------------------------
(* Safety.                                                                      *)

(* Where a gameRef can be: in a room's seat, in its pendingJoin, or in the      *)
(* batch a game worker has swapped out (joins, carryJoin).                      *)
Place == ({"member", "pending"} \X Rooms) \cup ({"batch"} \X Game)

EntriesAt(p) ==
    CASE p[1] = "member"  -> members[p[2]]
      [] p[1] = "pending" -> pendingJoin[p[2]]
      [] p[1] = "batch"   -> game[p[2]].joins

RoomOf(p) == IF p[1] = "batch" THEN game[p[2]].cur ELSE p[2]

(* A room one of whose two ends of a transfer it is, right now.                 *)
Moving(r) == \E w \in Game : game[w].pc = "move" /\ r \in {game[w].cur, game[w].nr}

NetHeld(s)  == \E e \in Net : s \in mySessions[e]
GameHeld(s) == \E p \in Place : \E x \in EntriesAt(p) : x.sess = s
One(b) == IF b THEN 1 ELSE 0

(* A session is named by at most one entry, in one place: no join is processed  *)
(* twice, no member is in two rooms, even while a transfer copies queues and    *)
(* members one lock section at a time (RoomManager.cpp TransferRoom).           *)
OneHolder ==
    \A p \in Place : \A x \in EntriesAt(p) :
        \A q \in Place : \A y \in EntriesAt(q) : x.sess = y.sess => p = q /\ x = y

(* The reference count is exact, however Join, Disconnect, ProcessRoomQueues    *)
(* and TransferRoom interleave: one for the owner's netRef, one for the entry   *)
(* that carries the gameRef; and a slot is free exactly at zero. It holds under *)
(* AcceptsAfter: without it a worker that is still inside HandleSession for a   *)
(* slot (the finding RecycledParse) may return another worker's netRef.         *)
RefLedger ==
    \A s \in Sess : /\ refs[s] = One(NetHeld(s)) + One(GameHeld(s))
                    /\ s \in free <=> refs[s] = 0

(* The seats some session has a claim to: members, queued joins, a batch being  *)
(* processed, and a Join between its reservation and its queue entry.           *)
Batch(r) == UNION {IF game[w].cur = r /\ game[w].pc = "queues" THEN game[w].joins ELSE {} : w \in Game}
Entries(r) == members[r] \cup pendingJoin[r] \cup Batch(r)
Reserving(r) == {e \in Net : net[e].pc = "enter" /\ net[e].room = r}

(* A room's seat ledger is exact whenever no transfer is moving it: a seat is   *)
(* marked used if and only if exactly one claimant has it, reservedSeats counts *)
(* them, and memberCount counts the members.                                    *)
SeatLedger ==
    \A r \in Rooms : ~Moving(r) =>
        /\ seatUsed[r] = SeatsOf(Entries(r)) \cup {net[e].seat : e \in Reserving(r)}
        /\ Cardinality(Entries(r)) + Cardinality(Reserving(r)) = Cardinality(seatUsed[r])
        /\ reservedSeats[r] = Cardinality(seatUsed[r])
        /\ memberCount[r] = Cardinality(members[r])

(* No session is stranded: a room that is dead or back in the pool has no       *)
(* claimant, whenever the emptiness test, a Join and a transfer interleave.     *)
NobodyStranded ==
    \A r \in Rooms : (rdead[r] \/ r \in freeRooms) /\ ~Moving(r) =>
        Entries(r) = {} /\ Reserving(r) = {}

(* The open list never offers a room twice, never a room that is back in the    *)
(* pool, and never a live room without a vacancy.                               *)
OpenListSound ==
    \A i, k \in 1 .. Len(openRooms) :
        /\ openRooms[i] = openRooms[k] => i = k
        /\ openRooms[i] \notin freeRooms
        /\ ~rdead[openRooms[i]] => seatUsed[openRooms[i]] # Seats

(* A room that is not free is in exactly one worker's hands, its own: in the    *)
(* mailbox, in the list, or as the target of the transfer it is making.  So no  *)
(* two workers ever tick one room, none is forgotten, and the load that Join    *)
(* balances on is the number of rooms a worker really has; and the open list    *)
(* offers none that Join could not use or that is another party's by now.       *)
RoomOwnership ==
    /\ OpenListSound
    /\ \A w \in Game :
         LET held == addQ[w] \cup myRooms[w] \cup (IF game[w].pc = "move" THEN {game[w].nr} ELSE {})
         IN  /\ held = {r \in Rooms \ freeRooms : gameWorker[r] = w}
             /\ addQ[w] \cap myRooms[w] = {}
             /\ todo[w] \subseteq myRooms[w]
             /\ roomsPerWorker[w] = Cardinality(held)

(* What the epoll worker believes and what the game worker holds agree: a       *)
(* session that is in a room is named by an entry of that room and seat, except *)
(* while a transfer is moving it.  Inputs are routed by these fields.           *)
MembershipAgrees ==
    \A s \in Sess : inRoom[s] /\ ~dead[s] =>
        \E p \in Place : \E x \in EntriesAt(p) :
            /\ x.sess = s /\ x.gen = gen[s] /\ x.seat = actorId[s]
            /\ RoomOf(p) = roomIdx[s] \/ Moving(RoomOf(p))

(* The room a claim to room r is a claim to: from the start of a transfer on,   *)
(* a claim to the room that is being left is a claim to the new one.            *)
RoomNow(r) ==
    IF \E w \in Game : game[w].pc = "move" /\ game[w].cur = r
      THEN game[CHOOSE w \in Game : game[w].pc = "move" /\ game[w].cur = r].nr
      ELSE r

(* The seats session s has a claim to: as a member, in a queue or a batch, or   *)
(* between the reservation and the queue entry of its Join.                     *)
SeatsFor(s, es) == {x.seat : x \in {x \in es : x.sess = s}}
SeatsIn(r, s, es) == {<<r, i>> : i \in SeatsFor(s, es)}
Claims(s) ==
    (UNION {SeatsIn(RoomNow(r), s, members[r] \cup pendingJoin[r]) : r \in Rooms})
    \cup (UNION {SeatsIn(RoomNow(game[w].cur), s, game[w].joins) : w \in Game})
    \cup {<<net[e].room, net[e].seat>> : e \in {e \in Net : net[e].pc = "enter" /\ net[e].sess = s}}

(* The room manager implements SeatService: with every lock section, queue and  *)
(* three-part transfer hidden, a seat is taken once and by one session, a live  *)
(* session keeps it, a move takes the whole party to the same seats of an empty *)
(* room at one instant, and a slot is reused only when its seat is given up.    *)
Seating == INSTANCE SeatService WITH
    online  <- [s \in Sess |-> s \notin free /\ ~dead[s]],
    seatsOf <- [s \in Sess |-> Claims(s)]

SeatContract == Seating!Spec

--------------------------------------------------------------------------------
(* Liveness.                                                                    *)

(* The slot of a disconnected session is reclaimed: both references come back,  *)
(* whatever the game workers were doing when the client left.                   *)
SlotReclaimed == \A s \in Sess : dead[s] /\ s \notin free ~> s \in free

(* A session that joined becomes a member, unless it leaves first.              *)
JoinServed ==
    \A s \in Sess : inRoom[s] /\ ~dead[s]
        ~> dead[s] \/ \E r \in Rooms : \E m \in members[r] : m.sess = s

(* A room that everybody has left goes back to the pool, unless it is joined    *)
(* again first.                                                                 *)
RoomReclaimed ==
    \A r \in Rooms : everReserved[r] /\ reservedSeats[r] = 0
        ~> r \in freeRooms \/ reservedSeats[r] > 0

================================================================================
