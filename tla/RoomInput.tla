------------------------------- MODULE RoomInput -------------------------------
(* What a player presses and what the server applies: PushInput, GetPingInfo,   *)
(* the input part of RoomTick and the part of TransferRoom that moves players,  *)
(* queues and the tick counter to another room slot (RoomManager.cpp).          *)
(*                                                                              *)
(* Epoll workers append to the input queue of the room a session's roomIdx      *)
(* names; the room's game worker routes the queue to the players' rings once    *)
(* per tick and consumes one input per player.  An epoll worker reads roomIdx   *)
(* first and uses the room after that: these are two steps, and a room move,    *)
(* the reuse of the old slot by another party included, may fall between them.  *)
(*                                                                              *)
(* Seats, references and the two queues of a room are RoomManager's subject and *)
(* are reduced here to single steps; a leave entry always finds its member.     *)
(* That a slot is served by the worker of its present connection only is        *)
(* assumed, as RoomManager's AcceptsAfter says.                                 *)
(* Positions and snapshots are World's subject.                                 *)
EXTENDS Integers, Sequences

CONSTANTS
    Sess,                 \* session slots, each served by one epoll worker
    Rooms,                \* room slots
    Seats,                \* the seats of a room
    Dirs,                 \* what can be pressed; "none" is neutral
    kInputRingDepth,      \* the depth of a player's ring
    NeutralAfter,         \* empty ticks for which the last input is kept (10)
    MaxSeq,               \* bound: inputs per connection
    MaxGen,               \* bound: connections per slot
    MaxTick,              \* bound: where the tick counter stops
    ClientsPing           \* bound: do clients send C2S_PING?

ASSUME SlotAssumption  == Sess # {} /\ Rooms # {} /\ Seats # {}
ASSUME DepthAssumption == kInputRingDepth \in Nat \ {0} /\ NeutralAfter \in Nat
ASSUME BoundAssumption == MaxSeq \in Nat /\ MaxGen \in Nat /\ MaxTick \in Nat
ASSUME DirAssumption   == "none" \in Dirs /\ ClientsPing \in BOOLEAN

VARIABLES
    gen, inRoom, roomIdx, actorId,   \* Session
    seq,                             \* the client's last sequence number (external)
    op,                              \* the epoll worker's frame, one per session
    leaving,                         \* sessions whose leave entry is queued
    live,                            \* the room slots in use
    pendingJoin, inQ, tickAtomic, members,   \* Room
    game,                            \* the game worker's frame, one per room
    lastPong                         \* history: the tick a client was last told

sessVars == <<gen, inRoom, roomIdx, actorId>>
roomVars == <<live, pendingJoin, inQ, tickAtomic, members>>
vars     == <<sessVars, seq, op, leaving, roomVars, game, lastPong>>

Cmd == [sess : Sess, gen : 0 .. MaxGen, seat : Seats, seq : 0 .. MaxSeq, dir : Dirs]

Idle     == [pc |-> "idle", room |-> CHOOSE r \in Rooms : TRUE]
Ticked(r) == [pc |-> "queues", nr |-> r, moved |-> {}]

(* Room::Member{} and the zeroed InputCmd in it.                                *)
NoCmd(s, g, i) == [sess |-> s, gen |-> g, seat |-> i, seq |-> 0, dir |-> "none"]
Fresh(s, g, i) ==
    [used |-> TRUE, sess |-> s, gen |-> g, ring |-> <<>>, held |-> NoCmd(s, g, i),
     lastInputSeq |-> 0, emptyStreak |-> 0]
NoMembers == [i \in Seats |-> [Fresh(CHOOSE s \in Sess : TRUE, 0, i) EXCEPT !.used = FALSE]]

MemberSet == [used : BOOLEAN, sess : Sess, gen : 0 .. MaxGen, ring : Seq(Cmd), held : Cmd,
              lastInputSeq : 0 .. MaxSeq, emptyStreak : 0 .. NeutralAfter + 1]

TypeOK ==
    /\ gen \in [Sess -> 0 .. MaxGen] /\ inRoom \in [Sess -> BOOLEAN]
    /\ roomIdx \in [Sess -> Rooms] /\ actorId \in [Sess -> Seats]
    /\ seq \in [Sess -> 0 .. MaxSeq]
    /\ op \in [Sess -> [pc : {"idle", "push", "ping"}, room : Rooms]]
    /\ leaving \subseteq Sess /\ live \subseteq Rooms
    /\ pendingJoin \in [Rooms -> SUBSET Sess]
    /\ \A r \in Rooms : \A s, t \in pendingJoin[r] : actorId[s] = actorId[t] => s = t
    /\ tickAtomic \in [Rooms -> 0 .. MaxTick]
    /\ inQ \in [Rooms -> Seq(Cmd)] /\ members \in [Rooms -> [Seats -> MemberSet]]
    /\ \A r \in Rooms : \A i \in Seats : Len(members[r][i].ring) <= kInputRingDepth
    /\ game \in [Rooms -> [pc : {"queues", "tick", "exit", "move"}, nr : Rooms,
                           moved : SUBSET Seats]]
    /\ lastPong \in [Sess -> 0 .. MaxTick]

Init ==
    /\ gen = [s \in Sess |-> 0] /\ inRoom = [s \in Sess |-> FALSE]
    /\ roomIdx = [s \in Sess |-> CHOOSE r \in Rooms : TRUE]
    /\ actorId = [s \in Sess |-> CHOOSE i \in Seats : TRUE]
    /\ seq = [s \in Sess |-> 0]
    /\ op = [s \in Sess |-> Idle]
    /\ leaving = {} /\ live = {}
    /\ pendingJoin = [r \in Rooms |-> {}]
    /\ inQ = [r \in Rooms |-> <<>>]
    /\ tickAtomic = [r \in Rooms |-> 0]
    /\ members = [r \in Rooms |-> NoMembers]
    /\ game = [r \in Rooms |-> Ticked(r)]
    /\ lastPong = [s \in Sess |-> 0]

(* RoomManager::_lock is held while a party is being moved.                     *)
MgrLockHeld == \E r \in Rooms : game[r].pc = "move"

Used(r) == {i \in Seats : members[r][i].used}

--------------------------------------------------------------------------------
(* A room slot is handed out.                                                   *)

(* Mutant of FreshQueue: the slot keeps the inputs that were left in it.        *)
FreshQueue_Kept(r) == inQ

(* AllocRoomSlotLocked empties the input queue of the slot.                     *)
FreshQueue(r) == [inQ EXCEPT ![r] = <<>>]

AllocRoomSlotLocked(r) ==
    /\ r \notin live
    /\ live' = live \cup {r}
    /\ inQ' = FreshQueue(r)
    /\ members' = [members EXCEPT ![r] = NoMembers]
    /\ tickAtomic' = [tickAtomic EXCEPT ![r] = 0]

--------------------------------------------------------------------------------
(* The session's epoll worker.                                                  *)

(* Mutant of FreeSeats: a seat that is only reserved counts as free.            *)
FreeSeats_Unreserved(r) == Seats \ Used(r)

(* Join, seen from here: the lowest free seat of a live room, or of a new one   *)
(* when every live room is full.                                                *)
FreeSeats(r) == Seats \ (Used(r) \cup {actorId[s] : s \in pendingJoin[r]})

Join(s) ==
    /\ op[s].pc = "idle" /\ ~inRoom[s] /\ s \notin leaving
    /\ ~MgrLockHeld
    /\ \E r \in Rooms :
         /\ \/ r \in live /\ FreeSeats(r) # {} /\ UNCHANGED <<live, inQ, tickAtomic, members>>
            \/ (\A q \in live : FreeSeats(q) = {}) /\ AllocRoomSlotLocked(r)
         /\ \E i \in Seats :
              /\ r \in live => i \in FreeSeats(r)
              /\ \A j \in (IF r \in live THEN FreeSeats(r) ELSE Seats) : i <= j
              /\ actorId' = [actorId EXCEPT ![s] = i]
         /\ roomIdx' = [roomIdx EXCEPT ![s] = r]
         /\ pendingJoin' = [pendingJoin EXCEPT ![r] = @ \cup {s}]
    /\ inRoom' = [inRoom EXCEPT ![s] = TRUE]
    /\ UNCHANGED <<gen, seq, op, leaving, game, lastPong>>

(* OnSessionLeave, seen from here.                                              *)
OnSessionLeave(s) ==
    /\ op[s].pc = "idle" /\ inRoom[s]
    /\ gen[s] < MaxGen
    /\ inRoom' = [inRoom EXCEPT ![s] = FALSE]
    /\ leaving' = leaving \cup {s}
    /\ UNCHANGED <<gen, roomIdx, actorId, seq, op, roomVars, game, lastPong>>

(* PushInput and GetPingInfo begin by reading the session's room.               *)
LoadRoom(s, pc) ==
    /\ op[s].pc = "idle" /\ inRoom[s]
    /\ op' = [op EXCEPT ![s] = [pc |-> pc, room |-> roomIdx[s]]]
    /\ UNCHANGED <<sessVars, seq, leaving, roomVars, game, lastPong>>

PushInput(s, d) ==
    /\ op[s].pc = "push"
    /\ seq' = [seq EXCEPT ![s] = @ + 1]
    /\ inQ' = [inQ EXCEPT ![op[s].room] = Append(@,
                 [sess |-> s, gen |-> gen[s], seat |-> actorId[s], seq |-> seq[s] + 1, dir |-> d])]
    /\ op' = [op EXCEPT ![s] = Idle]
    /\ UNCHANGED <<sessVars, leaving, live, pendingJoin, tickAtomic, members, game, lastPong>>

GetPingInfo(s) ==
    /\ op[s].pc = "ping"
    /\ lastPong' = [lastPong EXCEPT ![s] = tickAtomic[op[s].room]]
    /\ op' = [op EXCEPT ![s] = Idle]
    /\ UNCHANGED <<sessVars, seq, leaving, roomVars, game>>

--------------------------------------------------------------------------------
(* The game worker of room r.                                                   *)

(* The member that a join entry becomes.                                        *)
Installed(r, i, s) == Fresh(s, gen[s], i)

(* The slot a party is being moved to is in no worker's list yet.               *)
Target(r) == \E q \in Rooms : game[q].pc = "move" /\ game[q].nr = r

(* ProcessRoomQueues, seen from here: joins, then leaves; a session that left   *)
(* gives its slot back with a new generation; a room without members dies.      *)
ProcessRoomQueues(r) ==
    LET gone == {s \in leaving : s \in pendingJoin[r] \/ \E i \in Used(r) : members[r][i].sess = s}
        here == pendingJoin[r] \ gone
        Member(i) == IF \E s \in here : actorId[s] = i
                       THEN Installed(r, i, CHOOSE s \in here : actorId[s] = i)
                       ELSE [members[r][i] EXCEPT !.used = @ /\ members[r][i].sess \notin gone]
        dies == \A i \in Seats : ~Member(i).used
    IN  /\ game[r].pc = "queues" /\ r \in live /\ ~Target(r)
        /\ members' = [members EXCEPT ![r] = [i \in Seats |-> Member(i)]]
        /\ gen' = [s \in Sess |-> IF s \in gone THEN gen[s] + 1 ELSE gen[s]]
        /\ seq' = [s \in Sess |-> IF s \in gone THEN 0 ELSE seq[s]]
        /\ lastPong' = [s \in Sess |-> IF s \in gone THEN 0 ELSE lastPong[s]]
        /\ pendingJoin' = [pendingJoin EXCEPT ![r] = {}]
        /\ leaving' = leaving \ gone
        /\ live' = IF dies THEN live \ {r} ELSE live
        /\ dies => ~MgrLockHeld
        /\ game' = [game EXCEPT ![r].pc = IF dies THEN "queues" ELSE "tick"]
        /\ UNCHANGED <<inRoom, roomIdx, actorId, op, inQ, tickAtomic>>

(* Mutant of Accepted: any input for the seat is taken.                         *)
Accepted_BySeat(m, c) == m.used

(* An input is routed only to the player that sent it.                          *)
Accepted(m, c) == m.used /\ m.sess = c.sess /\ m.gen = c.gen

(* A full ring drops its oldest input.                                          *)
Pushed(ring, c) ==
    IF Len(ring) = kInputRingDepth THEN Append(Tail(ring), c) ELSE Append(ring, c)

Routed(ms, c) ==
    IF Accepted(ms[c.seat], c) THEN [ms EXCEPT ![c.seat].ring = Pushed(@, c)] ELSE ms

(* The players after the commands of q, in their order.                         *)
RoutedAll(ms, q) ==
    LET f[k \in 0 .. Len(q)] == IF k = 0 THEN ms ELSE Routed(f[k - 1], q[k])
    IN  f[Len(q)]

(* The input that is held after "streak" ticks without a new one.               *)
Neutral(m, streak) ==
    IF streak > NeutralAfter THEN [m.held EXCEPT !.dir = "none"] ELSE m.held

(* One input per tick, or one more empty tick.  (Bound: the streak stops at the *)
(* first value that counts.)                                                    *)
Consumed(m) ==
    LET streak == IF m.emptyStreak > NeutralAfter THEN m.emptyStreak ELSE m.emptyStreak + 1
    IN  CASE ~m.used       -> m
          [] m.used /\ m.ring # <<>> ->
               [m EXCEPT !.held = Head(m.ring), !.ring = Tail(@),
                         !.lastInputSeq = Head(m.ring).seq, !.emptyStreak = 0]
          [] m.used /\ m.ring = <<>> ->
               [m EXCEPT !.emptyStreak = streak, !.held = Neutral(m, streak)]

(* RoomTick: the queue is swapped out and routed, every player consumes, the    *)
(* tick counter moves on and is published; then the party has reached the exit  *)
(* or it has not.                                                               *)
RoomTick(r) ==
    LET tick == IF tickAtomic[r] < MaxTick THEN tickAtomic[r] + 1 ELSE MaxTick
        ms   == RoutedAll(members[r], inQ[r])
    IN  /\ game[r].pc = "tick"
        /\ members' = [members EXCEPT ![r] = [i \in Seats |-> Consumed(ms[i])]]
        /\ inQ' = [inQ EXCEPT ![r] = <<>>]
        /\ tickAtomic' = [tickAtomic EXCEPT ![r] = tick]
        /\ \E pc \in {"queues", "exit"} : game' = [game EXCEPT ![r].pc = pc]
        /\ UNCHANGED <<sessVars, seq, op, leaving, live, pendingJoin, lastPong>>

(* TransferRoom without a free slot: the party stays, the next tick tries again.*)
TransferFails(r) ==
    /\ game[r].pc = "exit" /\ ~MgrLockHeld
    /\ live = Rooms
    /\ game' = [game EXCEPT ![r] = Ticked(r)]
    /\ UNCHANGED <<sessVars, seq, op, leaving, roomVars, lastPong>>

TransferBegin(r, n) ==
    /\ game[r].pc = "exit" /\ ~MgrLockHeld
    /\ AllocRoomSlotLocked(n)
    /\ game' = [game EXCEPT ![r] = [pc |-> "move", nr |-> n, moved |-> Seats \ Used(r)]]
    /\ UNCHANGED <<sessVars, seq, op, leaving, pendingJoin, lastPong>>

(* Mutant of Carried: only the seat moves, the ring and the acknowledgement stay.*)
Carried_SeatOnly(m, i) == Fresh(m.sess, m.gen, i)

(* What arrives at seat i of the new room: the member with ring, held input and *)
(* acknowledgement.                                                             *)
Carried(m, i) == m

(* The members move lowest seat first; each session is told its new room.       *)
TransferMember(r, i) ==
    LET m == members[r][i]
    IN  /\ game[r].pc = "move"
        /\ i \in Seats \ game[r].moved
        /\ \A j \in Seats \ game[r].moved : i <= j
        /\ members' = [members EXCEPT ![game[r].nr][i] = Carried(m, i), ![r][i].used = FALSE]
        /\ roomIdx' = [roomIdx EXCEPT ![m.sess] = IF gen[m.sess] = m.gen THEN game[r].nr ELSE @]
        /\ game' = [game EXCEPT ![r].moved = @ \cup {i}]
        /\ UNCHANGED <<gen, inRoom, actorId, seq, op, leaving, live, pendingJoin, inQ,
                       tickAtomic, lastPong>>

(* The tick counter goes on in the new room.                                    *)
CarriedTick(r, n) == [tickAtomic EXCEPT ![n] = tickAtomic[r]]

(* TransferRoom ends: the tick counter and the carried joins follow, the old    *)
(* slot is free.                                                                *)
TransferEnd(r) ==
    LET n == game[r].nr
    IN  /\ game[r].pc = "move" /\ game[r].moved = Seats
        /\ tickAtomic' = CarriedTick(r, n)
        /\ roomIdx' = [s \in Sess |-> IF s \in pendingJoin[r] THEN n ELSE roomIdx[s]]
        /\ pendingJoin' = [pendingJoin EXCEPT ![r] = {}, ![n] = pendingJoin[r]]
        /\ live' = live \ {r}
        /\ game' = [game EXCEPT ![r] = Ticked(r), ![n] = Ticked(n)]
        /\ UNCHANGED <<gen, inRoom, actorId, seq, op, leaving, inQ, members, lastPong>>

--------------------------------------------------------------------------------

GameStep(r) ==
    \/ ProcessRoomQueues(r)
    \/ RoomTick(r)
    \/ TransferFails(r)
    \/ \E n \in Rooms : TransferBegin(r, n)
    \/ \E i \in Seats : TransferMember(r, i)
    \/ TransferEnd(r)

SessStep(s) ==
    \/ Join(s)
    \/ OnSessionLeave(s)
    \/ seq[s] < MaxSeq /\ LoadRoom(s, "push")
    \/ ClientsPing /\ LoadRoom(s, "ping")
    \/ \E d \in Dirs : PushInput(s, d)
    \/ GetPingInfo(s)

Next == (\E r \in Rooms : GameStep(r)) \/ (\E s \in Sess : SessStep(s))

Spec == Init /\ [][Next]_vars

--------------------------------------------------------------------------------

Players == {p \in Rooms \X Seats : members[p[1]][p[2]].used}
Player(p) == members[p[1]][p[2]]

(* The places in q of what player m has sent.                                   *)
SentBy(m, q) == {k \in 1 .. Len(q) : q[k].sess = m.sess /\ q[k].gen = m.gen}

(* What q holds for player m is newer than what m has acknowledged and than what*)
(* is in its ring, and in the order in which it was sent.                       *)
Newer(m, q) ==
    \A k \in SentBy(m, q) :
        /\ q[k].seq > m.lastInputSeq
        /\ \A j \in 1 .. Len(m.ring) : m.ring[j].seq < q[k].seq
        /\ \A j \in SentBy(m, q) : j < k => q[j].seq < q[k].seq

(* So is what waits in m's ring.                                                *)
RingInOrder(m) ==
    \A k \in 1 .. Len(m.ring) :
        /\ m.ring[k].seq > m.lastInputSeq
        /\ \A j \in 1 .. k - 1 : m.ring[j].seq < m.ring[k].seq

(* Inputs are applied in the order they were sent, and none twice: what waits   *)
(* for a player is newer than what has been acknowledged and in increasing      *)
(* order, through any number of room moves, slot reuses and pushes that arrive  *)
(* late in a room already left.                                                 *)
InputOrder == \A p \in Players : RingInOrder(Player(p)) /\ Newer(Player(p), inQ[p[1]])

(* A player is moved only by its own inputs: nothing that another party, an     *)
(* earlier occupant of the seat or an earlier connection of the slot sent is in *)
(* its ring or held.                                                            *)
OwnInputsOnly ==
    \A p \in Players :
        LET m == Player(p)
        IN  \A c \in {m.ring[k] : k \in 1 .. Len(m.ring)} \cup {m.held} :
                c.sess = m.sess /\ c.gen = m.gen

(* An acknowledgement never goes back and never runs ahead of what was sent:    *)
(* the client drops everything up to lastInputSeq from its replay.              *)
AckSound ==
    [][\A p \in Players, q \in Players' :
          LET m == Player(p)
              n == Player(q)'
          IN  m.sess = n.sess /\ m.gen = n.gen
              => m.lastInputSeq <= n.lastInputSeq /\ n.lastInputSeq <= seq[n.sess]]_vars

(* The server tick in a connection's PONGs never goes back: a room move does    *)
(* not rewind time (RoomManager.cpp:519).                                       *)
PongMonotone ==
    [][\A s \in Sess : gen'[s] = gen[s] => lastPong[s] <= lastPong'[s]]_vars

================================================================================
