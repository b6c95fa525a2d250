--------------------------------- MODULE World ---------------------------------
(* One party walking through its rooms: SimStep (Sim.cpp), and what RoomTick,   *)
(* ProcessRoomQueues, ExitCheckAndMaybeTransfer and TransferRoom (RoomManager.  *)
(* cpp) do to the world of a room.                                              *)
(*                                                                              *)
(* Positions are integers on a grid of Unit points per pixel, on which a tick's *)
(* step is a whole number; the code computes in doubles.  A push that is half   *)
(* an odd overlap is rounded down.  Everything is deterministic but what the    *)
(* four clients do: each follows a plan that Init picks.                        *)
EXTENDS Integers

CONSTANTS
    Unit,                            \* grid points per pixel
    kRoomMembers, kSnapActors,       \* actors 0 .. kRoomMembers - 1 are the players
    kPlayerSpawn, kOrcSpawn,         \* index -> <<x, y>> in pixels
    StepX, StepY, DiagX, DiagY,      \* a tick's walk, straight and diagonal, on the grid
    WORLD_W, DEPTH_MIN, DEPTH_MAX, STAGE_MARGIN, BODY_HALF_W, BODY_HALF_D,
    NeutralAfter,                    \* empty ticks for which the last input is kept (10)
    SettleTicks,                     \* a pushed crowd is at rest after as many ticks
    CrossTicks,                      \* a party that walks right has crossed a room after as many
    Parties,                         \* the plans of the clients: what Init picks from
    FreeFrom,                        \* the ticks from which a room slot is free
    MaxTick, MaxMoves                \* bounds: ticks and room moves of a behaviour

(* The stage, in pixels.                                                        *)
Stage == (STAGE_MARGIN .. WORLD_W - STAGE_MARGIN) \X (DEPTH_MIN .. DEPTH_MAX)

(* What an input may say: any two bytes.  Protocol.h:94 gives -1, 0 and 1, and  *)
(* nothing on the way from the socket to SimStep holds a client to it.          *)
Directions == [mx : -128 .. 127, my : -128 .. 127]

ASSUME ActorAssumption ==
    /\ kRoomMembers \in Nat \ {0} /\ kSnapActors \in Nat /\ kRoomMembers < kSnapActors
    /\ \A i \in 0 .. kRoomMembers - 1 : kPlayerSpawn[i] \in Stage
    /\ \A i \in 0 .. kSnapActors - kRoomMembers - 1 : kOrcSpawn[i] \in Stage
ASSUME StageAssumption ==
    /\ Unit \in Nat \ {0} /\ {StepX, StepY, DiagX, DiagY} \subseteq Nat
    /\ {WORLD_W, DEPTH_MIN, DEPTH_MAX, STAGE_MARGIN} \subseteq Int
    /\ 2 * STAGE_MARGIN < WORLD_W /\ DEPTH_MIN < DEPTH_MAX
    /\ BODY_HALF_W \in Nat /\ BODY_HALF_D \in Nat
ASSUME PlanAssumption ==
    /\ \A p \in Parties, i \in 0 .. kRoomMembers - 1 :
         /\ p[i].every \in Nat \ {0} /\ p[i].first \in Directions
         /\ {p[i].join, p[i].leave, p[i].stop, p[i].turn} \cup p[i].deaf \subseteq Int
    /\ FreeFrom \subseteq Nat
    /\ NeutralAfter \in Nat /\ MaxTick \in Nat /\ MaxMoves \in Nat

VARIABLES
    plan,        \* what each client will do (external)
    freeFrom,    \* AllocRoomSlotLocked finds a slot from this tick on
    actors,      \* SimWorld::actors
    members,     \* Room::members: used, held, emptyStreak
    tick,        \* SimWorld::tick
    lastSnap,    \* history: serverTick of the client's last snapshot
    lastStir,    \* history: when somebody last came, went or sent an input
    onward,      \* history: since when a slot is free and all of the party walk right
    moves        \* history: room moves

vars == <<plan, freeFrom, actors, members, tick, lastSnap, lastStir, onward, moves>>

Players == 0 .. kRoomMembers - 1
Actors  == 0 .. kSnapActors - 1
Worlds  == [Actors -> [present : BOOLEAN, x : Int, y : Int]]
Still   == [mx |-> 0, my |-> 0]

EXIT_ZONE_X == WORLD_W - 200

OnGrid(p) == [present |-> TRUE, x |-> Unit * p[1], y |-> Unit * p[2]]

(* An orc stands where the spawn table puts it; a seat is empty.                *)
ResetWorld ==
    [a \in Actors |-> IF a \in Players THEN [present |-> FALSE, x |-> 0, y |-> 0]
                                       ELSE OnGrid(kOrcSpawn[a - kRoomMembers])]

Fresh == [used |-> TRUE, held |-> Still, emptyStreak |-> 0]

Used == {i \in Players : members[i].used}

Init ==
    /\ plan \in Parties /\ freeFrom \in FreeFrom
    /\ actors = ResetWorld
    /\ members = [i \in Players |-> [Fresh EXCEPT !.used = FALSE]]
    /\ tick = 0 /\ lastStir = 0 /\ onward = 0 /\ moves = 0
    /\ lastSnap = [i \in Players |-> 0]

--------------------------------------------------------------------------------
(* SimStep.                                                                     *)

Walked(a, in) ==
    LET diagonal == in.mx # 0 /\ in.my # 0
    IN  IF ~a.present THEN a
        ELSE [a EXCEPT !.x = @ + in.mx * (IF diagonal THEN DiagX ELSE StepX),
                       !.y = @ + in.my * (IF diagonal THEN DiagY ELSE StepY)]

Abs(n)  == IF n < 0 THEN -n ELSE n
Sign(n) == IF n >= 0 THEN 1 ELSE -1
OverlapX(a, b) == 2 * BODY_HALF_W * Unit - Abs(b.x - a.x)
OverlapY(a, b) == 2 * BODY_HALF_D * Unit - Abs(b.y - a.y)
Touch(a, b) == a.present /\ b.present /\ OverlapX(a, b) > 0 /\ OverlapY(a, b) > 0

(* Mutant of PushX: push along the axis of the deeper overlap.                  *)
PushX_Deeper(a, b) == OverlapX(a, b) > OverlapY(a, b)

(* Two bodies are pushed apart along the axis on which they overlap less.       *)
PushX(a, b) == OverlapX(a, b) < OverlapY(a, b)

(* Both give way by half of the overlap.                                        *)
Apart(w, i, j) ==
    LET px == Sign(w[j].x - w[i].x) * (OverlapX(w[i], w[j]) \div 2)
        py == Sign(w[j].y - w[i].y) * (OverlapY(w[i], w[j]) \div 2)
    IN  IF PushX(w[i], w[j]) THEN [w EXCEPT ![i].x = @ - px, ![j].x = @ + px]
                             ELSE [w EXCEPT ![i].y = @ - py, ![j].y = @ + py]

Pushed(w, i, j) == IF Touch(w[i], w[j]) THEN Apart(w, i, j) ELSE w

(* One pair after the other: a push moves what later pairs see.  Actor i against*)
(* all after it, and so for every i.                                            *)
PushedBy(w, i) ==
    LET v[j \in i .. kSnapActors - 1] == IF j = i THEN w ELSE Pushed(v[j - 1], i, j)
    IN  IF w[i].present THEN v[kSnapActors - 1] ELSE w

Separated(w) ==
    LET v[n \in 0 .. kSnapActors] == IF n = 0 THEN w ELSE PushedBy(v[n - 1], n - 1)
    IN  v[kSnapActors]

Clamp(v, lo, hi) == IF v < lo THEN lo ELSE IF v > hi THEN hi ELSE v

(* Mutant of OnStage: only the depth is clamped.                                *)
OnStage_DepthOnly(a) == [a EXCEPT !.y = Clamp(@, DEPTH_MIN * Unit, DEPTH_MAX * Unit)]

OnStage(a) == [a EXCEPT !.x = Clamp(@, STAGE_MARGIN * Unit, (WORLD_W - STAGE_MARGIN) * Unit),
                        !.y = Clamp(@, DEPTH_MIN * Unit, DEPTH_MAX * Unit)]

SimStep(w, inputs) ==
    LET walked == [a \in Actors |-> IF a \in Players THEN Walked(w[a], inputs[a]) ELSE w[a]]
        apart  == Separated(walked)
    IN  [a \in Actors |-> OnStage(apart[a])]

--------------------------------------------------------------------------------
(* The clients (external): client i is in the game from tick join to tick       *)
(* leave, sends an input every so many ticks, first of one kind and from tick   *)
(* turn on walking right, and falls silent at tick stop.  In the ticks of deaf  *)
(* it reads nothing and its send ring is full, or it is cut and its leave not   *)
(* processed yet.                                                               *)

DueIn(i)  == plan[i].join = tick /\ tick < plan[i].leave /\ ~members[i].used
DueOut(i) == plan[i].leave = tick /\ members[i].used
Sends(i)  == tick < plan[i].stop /\ tick % plan[i].every = 0
Reached(i, t) == t \notin plan[i].deaf
Sent(i)   == IF tick < plan[i].turn THEN plan[i].first ELSE [mx |-> 1, my |-> 0]

--------------------------------------------------------------------------------

(* The part of ProcessRoomQueues that concerns the world: who joined stands at  *)
(* its spawn point, who left is gone.                                           *)
ProcessRoomQueues ==
    LET in  == {i \in Players : DueIn(i)}
        out == {i \in Players : DueOut(i)}
    IN  /\ in \cup out # {}
        /\ tick = 0 \/ Used # {}
        /\ members' = [i \in Players |-> IF i \in in THEN Fresh
                                         ELSE [members[i] EXCEPT !.used = @ /\ i \notin out]]
        /\ actors' = [a \in Actors |-> IF a \in in THEN OnGrid(kPlayerSpawn[a])
                                       ELSE [actors[a] EXCEPT !.present = @ /\ a \notin out]]
        /\ lastSnap' = [i \in Players |-> IF i \in in THEN 0 ELSE lastSnap[i]]
        /\ lastStir' = tick
        /\ onward' = tick
        /\ UNCHANGED <<plan, freeFrom, tick, moves>>

(* Mutant of Neutral: the last input is held for ever.                          *)
Neutral_Kept(m, streak) == m.held

(* The input that is held after "streak" ticks without a new one.               *)
Neutral(m, streak) == IF streak > NeutralAfter THEN Still ELSE m.held

(* Bound: the streak stops at the first value that counts.                      *)
Consumed(i) ==
    LET m      == members[i]
        streak == IF m.emptyStreak > NeutralAfter THEN m.emptyStreak ELSE m.emptyStreak + 1
    IN  CASE ~m.used             -> m
          [] m.used /\ Sends(i)  -> [m EXCEPT !.held = Sent(i), !.emptyStreak = 0]
          [] m.used /\ ~Sends(i) -> [m EXCEPT !.held = Neutral(m, streak), !.emptyStreak = streak]

(* Mutant of ExitReached: the line stands at WORLD_W - 80.                      *)
ExitReached_AtWall(w) == \A i \in Used : w[i].x >= (WORLD_W - 80) * Unit

(* Every player of the room has crossed the line.                               *)
ExitReached(w) == \A i \in Used : w[i].x >= EXIT_ZONE_X * Unit

(* Mutant of CarriedTick: the new room counts from zero.                        *)
CarriedTick_Zero(t) == 0

(* The tick counter goes on in the new room.                                    *)
CarriedTick(t) == t

(* TransferRoom moves the members with what they hold; the new room's world is  *)
(* fresh, and everybody starts at the spawn points again.                       *)
NewRoom == [a \in Actors |-> IF a \in Used THEN OnGrid(kPlayerSpawn[a]) ELSE ResetWorld[a]]

(* RoomTick: inputs, step, tick counter, every third tick a snapshot, exit. A   *)
(* snapshot that does not fit a member's ring is dropped, one for a member      *)
(* whose session is gone is not sent.                                           *)
(* Without a free room slot the party stays and the next tick tries again.      *)
RoomTick ==
    LET ms     == [i \in Players |-> Consumed(i)]
        world  == SimStep(actors, [i \in Players |-> IF ms[i].used THEN ms[i].held ELSE Still])
        t      == tick + 1
        leaves == ExitReached(world) /\ t >= freeFrom
    IN  /\ Used # {}
        /\ \A i \in Players : ~DueIn(i) /\ ~DueOut(i)
        /\ tick < MaxTick /\ moves < MaxMoves
        /\ members' = ms
        /\ lastSnap' = [i \in Players |-> IF i \in Used /\ t % 3 = 0 /\ Reached(i, t)
                                    THEN t ELSE lastSnap[i]]
        /\ tick' = IF leaves THEN CarriedTick(t) ELSE t
        /\ actors' = IF leaves THEN NewRoom ELSE world
        /\ moves' = IF leaves THEN moves + 1 ELSE moves
        /\ lastStir' = IF leaves \/ \E i \in Used : Sends(i) THEN t ELSE lastStir
        /\ onward' = IF leaves \/ t <= freeFrom \/ \E i \in Used : ms[i].held.mx # 1
                       THEN t ELSE onward
        /\ UNCHANGED <<plan, freeFrom>>

Next == ProcessRoomQueues \/ RoomTick

Spec == Init /\ [][Next]_vars

--------------------------------------------------------------------------------

(* Who is present stands on the stage, whatever the clients send, so that its   *)
(* position fits the 16 bits of a snapshot (Protocol.h:26).                     *)
TypeOK ==
    /\ plan \in Parties /\ freeFrom \in FreeFrom
    /\ {tick, lastStir, onward} \subseteq 0 .. MaxTick /\ moves \in 0 .. MaxMoves
    /\ lastSnap \in [Players -> 0 .. MaxTick]
    /\ members \in [Players -> [used : BOOLEAN, held : Directions,
                                emptyStreak : 0 .. NeutralAfter + 1]]
    /\ actors \in Worlds
    /\ \A a \in Actors : /\ actors[a].present = (a \in Used \/ a \notin Players)
                         /\ actors[a].present =>
                              /\ actors[a].x \in STAGE_MARGIN * Unit .. (WORLD_W - STAGE_MARGIN) * Unit
                              /\ actors[a].y \in DEPTH_MIN * Unit .. DEPTH_MAX * Unit

(* A party that keeps walking right reaches the next room within CrossTicks,    *)
(* whatever the lanes it walks in, whoever joins or leaves on the way and       *)
(* whatever orcs it pushes in front of it (the reason Constants.h:26 gives for  *)
(* the line at -200).                                                           *)
PartyMovesOn == tick - onward <= CrossTicks

(* All clients of the room send what Protocol.h:94 says an input is.            *)
InProtocol == \A i \in Players : plan[i].first \in [mx : {-1, 0, 1}, my : {-1, 0, 1}]

(* Among clients that keep to the protocol nobody is thrown about: however many *)
(* bodies push it, in one tick an actor moves by less than half a body along    *)
(* the stage, and by less than a body in depth (Sim.cpp:63).  Where one client  *)
(* does not, this is false: the server multiplies what it got, and a walk of    *)
(* 127 steps ends anywhere, in other bodies too.                                *)
NoJump ==
    [][InProtocol =>
         \A a \in Actors :
            actors[a].present /\ actors'[a].present /\ moves' = moves
            => /\ Abs(actors'[a].x - actors[a].x) < BODY_HALF_W * Unit
               /\ Abs(actors'[a].y - actors[a].y) < 2 * BODY_HALF_D * Unit]_vars

(* A room nobody has stirred for a while is still and nobody stands in anybody  *)
(* else: held inputs have run out (RoomManager.cpp:377) and pushing has ended.  *)
Quiet == tick - lastStir > NeutralAfter + SettleTicks

Settles ==
    [][Quiet /\ tick' > tick /\ moves' = moves
       => /\ actors' = actors
          /\ \A a, b \in Actors : a # b /\ Touch(actors[a], actors[b])
                => OverlapX(actors[a], actors[b]) = 1 \/ OverlapY(actors[a], actors[b]) = 1]_vars

(* The tick of the last snapshot that a room with this tick has made.           *)
Newest(t) == t - (t % 3)

(* The server tick in a client's snapshots never goes back: a room move does    *)
(* not rewind time (RoomManager.cpp:519).  And a client is behind only if the   *)
(* newest snapshot found its ring full or its session gone: the first one that  *)
(* fits after any number of dropped ones is the room's newest, a room move in   *)
(* between or not (RoomManager.cpp:431-449).                                    *)
SnapMonotone ==
    [][\A i \in Used : members'[i].used =>
          /\ lastSnap[i] <= lastSnap'[i]
          /\ lastSnap'[i] > 0 /\ Reached(i, Newest(tick')) => lastSnap'[i] = Newest(tick')]_vars

================================================================================
