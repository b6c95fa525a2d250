# MO_Belt in TLA+

A verification development for the room server of MO_Belt (`src/server/src`): a
process that accepts TCP clients on several epoll workers, seats them in rooms of
four, and ticks the rooms at 60 Hz on several game workers; and for the load
generator (`src/dummy`) whose verdict the project relies on. The modules model the
concurrent core of the server, the walk of a party through its rooms, the way the
process comes up and goes down, and the generator's worker. TLC checks them on small
instances, and TLAPS proves the results of section 4 for every value of the
constants.

## 1. Inventory

| component | state | operations | talks to |
|---|---|---|---|
| session pool (`Session.h`) | slots with `refs`, `gen`, `dead`; the free list under a mutex | `Alloc`, `AddRef`, `Release` | called by epoll workers (netRef) and game workers (gameRef) |
| dirty map (`Session.h`) | one atomic bit per worker and slot | `Mark`, `Drain` | set by game workers, drained by the owning epoll worker every 1 ms |
| epoll worker (`EpollWorker.cpp`) | `_mySessions`, the sockets' epoll set; per session `fd`, `owner`, `wantWrite`, `inRoom`, rings | accept, read and parse, dispatch, send and flush, disconnect, dirty scan | `RoomManager::Join`, `OnSessionLeave`, `PushInput`, `GetPingInfo` |
| room manager (`RoomManager.cpp`, `Room.h`) | `_freeRooms`, `_openRooms`, loads and mailboxes under `_lock`; per room the seat ledger and two queues under `room.lock`, the input queue under `inLock`, members and world of the game worker | `Join`, `OnSessionLeave`, `DrainRoomAddQ`, `ProcessRoomQueues`, `RoomTick`, `TransferRoom` | both kinds of workers |
| game worker (`GameWorker.cpp`) | schedule (`next`), published `g_nextTickAtNs`, `_myRooms` | `Loop` (sleep, tick, catch up, rebase), `TickOnce` | room manager; PONG reads its schedule |
| room world (`Sim.cpp`, `Constants.h`) | positions of 14 actors, 4 players and 10 orcs | `SimStep`: walk, push apart, clamp to the stage | `RoomTick`; the exit line decides over `TransferRoom` |
| wire protocol (`Protocol.h`) | message layouts | | epoll workers, clients |
| start and shutdown (`main.cpp`) | the pools and services as locals, in order of start | start, `Stop`, destructors | all |
| metrics (`Metrics.cpp`) | relaxed counters; a listener and a thread that answers scrapes | `Start`, `Loop`, `Stop` | all count; no other part reads |
| self test (`SelfTest.cpp`) | none | checks of the build's assumptions | |
| load generator (`dummy/dummy_main.cpp`) | per client a connection state, held-back bytes, read buffer, sequence numbers, timers; the epoll interest of its socket | connect, join or echo, verify, churn, attack | the server's port |
| browser game, web relay, probe tools | | | |

What is hard here:

* **Two owners of one slot.** A session is alive while the epoll worker (netRef)
  or the room (gameRef) holds it; either side may drop the last reference.
* **One lock section at a time.** Join, disconnect and a room move touch the
  manager's ledger, a room's ledger and a session's fields in several sections
  and unlocked stores; other threads run in between.
* **Room moves.** A party that reaches the exit is moved to another slot with
  queues, seats, references, unconsumed inputs and tick counter, while inputs,
  pings and disconnects go on arriving at whichever room `roomIdx` names.
* **The wakeup protocol** of the send path: ring, dirty bit, short writes, EPOLLOUT.
* **The generator's clients**: short writes and reads, cuts at any point,
  reconnects, and several places that write one socket's epoll interest.
* **The crowd**: 14 bodies pushed apart pair after pair, against walls, while the
  whole party has to cross one line.
* **Going down**: a start that fails half-way, threads blocked in four kinds of
  calls, descriptors whose numbers the kernel hands out again at once.
* **Pacing**: late wakes, long ticks, catch-up and rebase in any mixture.

What makes each part correct: exact reference counts and no entry that outlives
its session (pool); exact seat and load ledgers, one holder per session, one
worker per room, nobody stranded (manager); inputs applied in order, once and
only to their sender, and ticks that do not rewind (input); no lost wakeup and no
bytes for the wrong client (send path); a crowd that neither jumps, trembles nor
jams (world); every thread gone before what it uses, and an exit that is reached
(lifecycle); no tick early, none lost without being
counted (pacing); a verification that neither misses nor invents an error
(generator). `PROJECT.json` lists the hazards line by line.

## 2. Modules

`SessionPool` holds the operators of the pool. `RoomManager` and `EpollWorker`
extend it and use them as parts of their actions.

**`RoomManager`**: sessions, seats and rooms. One action is one critical section
or one access to shared memory of one thread. A thread inside an operation has a
frame (`net[e]`, `game[w]`): a program counter and the operation's locals.

| actions | code |
|---|---|
| `Accept`, `AcceptAborted` | `HandleAccept`, with `epoll_ctl(ADD)` succeeding or failing |
| `JoinReserve`, `JoinAlloc`, `JoinFail`, `JoinReserveFirst`, `JoinEnter` | `Dispatch` C2S_JOIN and `RoomManager::Join` |
| `HandleSession`, `HandleSessionDone` | a worker begins, and ends, the handling of a socket's event |
| `Disconnect`, `OnSessionLeave`, `PushLeave`, `ReleaseNetRef` | `EpollWorker::Disconnect`, with `OnSessionLeave` in two steps: the load of `roomIdx`, the push |
| `DrainRoomAddQ`, `SwapQueues`, `InstallMember`, `SkipJoin`, `ProcessLeave`, `DeathCheck`, `ReapRoom`, `RoomTick` | `TickOnce` and `ProcessRoomQueues` |
| `TransferBegin`, `TransferMember`, `TransferEnd` | `TransferRoom` |

`_lock` is not a variable: it is held exactly at the program counters that
`MgrLockHeld` names, and an action that takes it waits until nobody is there.
Queues are sets, because the entries of one queue name different seats and
sessions. Whether the players stand in the exit zone is a free choice here; where
they walk is in `World`.

A worker that handles an event of a session looks at its `dead` flag again after each
message and each read, and at nothing else: neither at the generation nor at whose session
it is by then (`Serves`; `EpollWorker.cpp:197`, `223`, `270`). So in `Spec` a worker may join or
cut a session of another worker, when the slot was recycled under it. `AcceptsAfter` excludes
that: a slot is handed out only when no worker is inside `HandleSession` for it.
**`PatientSpec`**, `Spec` with `AcceptsAfter`, is what all the results about `RoomManager` are
about, but for the types. The code does not enforce it for several epoll workers: that is the
finding `RecycledParse`, and without it `RefLedger` fails. `LoneWorkerPatient` proves it of one epoll worker.

**`SeatService`** is what the room manager promises, without threads, locks, queues
and reference counts: who is online and who has which seat, with one atomic action
for a connect, a seat taken, a seat given up, and the move of a party.
`RoomManager!SeatContract` maps the one to the other: a slot is online while it is
handed out and not `dead`; its seats are those of its membership, of its queued join entry and of
the frames that carry either. A join takes effect when the seat is reserved, a leave
when the game worker gives the seat back, and a move at the moment its queues are
carried over, which is before the members' `roomIdx` is redirected one by one.

**`EpollWorker`**: sockets, send rings and the dirty map. Here `HandleAccept` is
split at its stores (slot, `fd`, `owner`), `SendBytes`, `FlushSend`, `Disconnect`
and the re-checks of `dead` are separate steps, `Drain` takes a word and visits
its bits one by one, and the game worker's snapshot is test, `Enqueue`, `Mark`.
The room is reduced to the entry that holds the gameRef. A ring holds whole
messages, tagged with the generation they were meant for. Going down is part of it:
`StopGame`, `StopNet` per worker, `LoopExit`, and `CleanupInThread` one session at a
time (`Mine`, `CleanupCut`, `CleanupDone`).

**`Outbox`** is what the send path promises: a queue per connection, emptied from the
front, lost only with the connection, and never handed to another one
(`EpollWorker!SendContract`).

**`GameWorker`**: `Loop`. Time advances between any two steps, so a late wake and
a long tick are both just time passing.

**`RoomInput`**: inputs, acknowledgements and ticks. `PushInput` and
`GetPingInfo` are two steps each, the load of `roomIdx` and the use of the room;
`TransferMember` moves one member and stores its `roomIdx`, `TransferEnd` stores
the tick. Seats and references are reduced to single steps.

**`DummyWorker`**: one worker thread of the generator. `Loop` is a cycle of head
(`Ramp`, `RampDone`, `Finish`), `EpollWait`, the events (`OnNothing`, `OnHup`,
`OnConnected`, `OnReady`: the ways through `OnEvent`) and the pass over the
clients (`ScanReconnect`, `ScanChurn`, `ScanAttack`, `ScanSend`, `ScanQuiet`).
Handlers are atomic, since one thread runs them all; what `epoll_wait` reported
may be out of date when it is handled. `SendBytes`, `FlushPend`, `UpdateWrite`,
`ParseFrames` and `Kill` are operators on a client. A message is two halves, so
that writes and reads may stop inside one; `Handshake`, `Serve` and `Cut` are the
network and the server, external.

**`World`**: one party from room to room. `SimStep` is translated loop by loop
(`Walked`, the two loops `Separated` and `PushedBy`, `OnStage`) on a grid of integers, 240 points to a
pixel, on which a tick's straight walk is a whole number; the code computes in doubles.
`RoomTick` is a tick of the room: inputs consumed or held, step, tick counter, every third
tick a snapshot, which a client whose send ring is full or whose session is gone does not get
(`Reached`), exit test and room move. An input is any pair of bytes (`Directions`): the server
does not hold a client to the -1, 0 and 1 of `Protocol.h:94`, and `SimStep` multiplies what it got. `ProcessRoomQueues` puts joining players at
their spawn points and takes leaving ones out. The clients are external: each follows
a plan (when it joins, leaves, falls silent, turns, and which snapshots find its ring full) that `Init` picks, so that a
behaviour is determined by the plans and by the tick from which a room slot is free.

**`Lifecycle`**: `main`, the metrics server and the threads. `main` starts the
parts in order (`StartMetrics`, `InitPools`, `StartNetWorker`, `StartGameWorkers`), may
fail at each, and goes down by a list of calls `todo`: the explicit `Stop`s, the
destructors of the locals in reverse order, or both. The kernel's descriptor table
is a variable: numbers are handed out lowest first, as they are reused. A worker's
work is reduced to using its objects and opening and closing descriptors.

The theorems: `RoomManagerProofs` (types, locks, whose hand a slot is in, seats) and
`RoomHolderProofs`, which extends it (sessions, and the refinement), `RoomInputProofs`,
`EpollWorkerProofs`, `LifecycleProofs`, `GameWorkerProofs`, `DummyWorkerProofs` and
`WorldProofs`.
`MC...` modules instantiate the models for TLC.

## 3. Runs

| run | question | result |
|---|---|---|
| `RoomSafety` | ledgers, ownership and membership under two epoll and two game workers, with room moves and slot reuse, under `AcceptsAfter`; the refinement of `SeatService` | holds, 1 085 000 states |
| `RoomLiveness` | slots, joins and rooms are served in the end, under `AcceptsAfter`; the room pool is exhausted on the way | holds, 87 000 states |
| `SendPath` | no lost wakeup, snapshots get out, what a shutdown leaves behind; the refinement of `Outbox` | holds, 315 000 states |
| `Pacing` | the tick accounting, never early, published time, no debt | holds, 710 000 states |
| `Input` | order, ownership and acknowledgement of inputs | holds, 1 670 000 states |
| `Dummy` | echo verification, held-back bytes and reconnects of the load generator | holds, 18 000 states |
| `World` | a party that walks right moves on, nobody jumps while all clients keep to the protocol, a room left alone comes to rest, snapshot ticks do not rewind and catch up after any number of drops | holds, 70 000 states |
| `Lifecycle` | on every way down: no thread outlives what it uses, no closed descriptor is used, the process exits | holds, 15 000 states |
| `LostLeave` | with room moves, is every disconnected slot reclaimed? | **no** |
| `PongRewind` | do PONG ticks stay monotone through a move? | **no** |
| `DeafReader` | does a slow reader always listen again? | **no** |
| `RecycledParse` | does a worker parse only sessions it owns? | **no**, with two workers |

Each property of a passing run is broken by a mutant of the code: the definition it
is applied to and its mutated form stand next to each other in the modules
(`Matches` and `Matches_AnyGen`), and `PROJECT.json` pairs them with the properties.

### Findings

* `LostLeave`: `OnSessionLeave` reads the room number before it has the room's
  lock. If the party moves in between, the leave entry is pushed to the old slot
  after its queue was carried over; nobody processes it. The seat, the gameRef
  and the session slot leak, and the new room never empties. `RoomLiveness`
  shows the same properties holding when no move falls in between, and
  `RoomSafety` shows that the ledgers stay consistent even then: it is an orphan,
  not a corruption. `LeavesExactly` proves that this is the only way a leave is lost.
* `PongRewind`: `roomIdx` names the new room before its tick counter is set, so
  a PONG in between carries tick 0. `PongSteady` names the two ways a PONG can go back
  and proves that there is no third.
* `RecycledParse`: after `Disconnect` has returned the reference, callers look at
  `dead` of the slot. Another worker may have been handed the slot by then.
  `PatientAccept` proves that workers keep to their own sessions if a slot is accepted only
  when its last worker has finished with it.
  What it does to the room manager: the first worker goes on reading from the other worker's
  socket and cuts that session at its end, so that the reference that comes back is the other
  worker's, which still has the slot in its list. Take `AcceptsAfter` out of `RoomSafety.cfg`, and TLC
  finds `RefLedger` violated by such a run of nine steps, with one slot and two connections.
* `DeafReader`: `UpdateWrite` never asks for `EPOLLIN` for an attacker. When a slow
  reader's timer fires, `Loop` registers `EPOLLIN` and clears the timer; if the echo
  sent next falls short, `UpdateWrite` takes `EPOLLIN` away again, and with the timer
  cleared nobody restores it. The client reads nothing more until it is cut.
  `DeafExactly` proves that the finding occurs in the runs with such a step and in no others.

Smaller observations, without a run of their own:

* A room that was full once never goes back to the open list when a seat is given
  back (`RoomManager.cpp:140`, `220`, `258`), although `Room.h:165` calls the list
  "rooms with a vacancy". `RoomOwnership` states what does hold: every room in
  the list has a seat to give.
* `EpollWorker::Start` leaves its descriptors open when it fails (`EpollWorker.cpp:64`,
  `71`); the only caller exits.
* With the descriptor table full, the metrics thread retries `accept` without a
  pause (`Metrics.cpp:179`).
* A scrape after `game.Stop()` asks for the clocks of threads that have ended
  (`Metrics.cpp:132`); the call fails and the line is left out.
* The comment at `RoomManager.cpp:456` still has the exit line at `WORLD_W-80`, the
  code and `Constants.h:26` at -200. The mutant of `PartyMovesOn` is that line: with it
  a party does jam.
* `GameWorker.cpp:67` says a `Stop` waits 16.7 ms at most; in the first 100 ms of the
  process it waits for the first tick.

### Bounds, and why they are enough

* `RoomSafety`: two seats per room are the least where a room can be neither
  empty nor full; two room slots let a move and the reuse of the old slot happen;
  two game workers let rooms change hands; two session slots and three
  connections let one slot be reused while the other is in play. The two epoll
  workers are symmetric. The one temporal property is a refinement, which has no
  liveness and names no worker, so symmetry is sound for it. `AcceptsAfter` is an action
  constraint of this run and of `RoomLiveness`: it removes steps of `Accept` and
  `AcceptAborted` and no others, and no fairness condition is about those, so that what is left has all
  the fair behaviours of `PatientSpec`.
* `RoomLiveness` has one room slot, so that `Join` fails for want of rooms, and no
  moves (`ExitReachable = FALSE`): with moves `SlotReclaimed` fails, which is the
  run `LostLeave`. No symmetry.
* `SendPath` has a ring of two messages over a socket buffer of one: full writes,
  short writes, `EAGAIN` and a full ring all occur. Two slots make a dirty word
  with two bits; the temporal properties watch one of them (`Watched`), since the slots
  are alike. It has one epoll worker: with two, the race of `RecycledParse`,
  and the stores of `fd` and `owner` in `HandleAccept` in that order, let a foreign
  worker touch a ring, and no wakeup property survives that (section 4 proves them for several workers as long
  as no slot is accepted too early). What the run shows is the protocol between an owner and the game
  worker. Connections stop at `MaxConns`, so the system may come to rest and
  deadlock is not checked; the same holds of the clock in `Pacing`.
* `Pacing`: a period of 3 units and a limit of 3 steps per wake, up to time 20,
  reaches several rebases per worker at every offset within a period. The proofs
  remove these bounds.
* `Input`: one seat per room and a ring of one make every second input overflow;
  two room slots and two sessions let a late push land in another party's room;
  one reconnection per slot. The tick is kept out (`MaxTick = 0`); pressed
  directions as well, since order and ownership do not depend on them. Time and
  directions are in `World`.
* `World` has the code's own numbers: stage, bodies, speeds, spawn points, ten orcs, ten
  ticks until neutral. Twenty-four parties, each with a slot free at once or from tick
  950, up to two room moves and 1900 ticks: walking straight and diagonally, in one lane and
  in four, joining late, leaving, falling silent, walking into the party's own back, missing
  every snapshot for 650 ticks and through a room move, and sending the largest steps a byte can say, which
  throws four bodies onto one spot of a corner. `CrossTicks = 940` is the
  longest a party needed with some reserve (the first player's 1220 pixels take 341 ticks when nothing
  is in the way; orcs and the own party cost the rest); of `SettleTicks = 80` the four bodies in the
  corner need 56. `NoJump` is stated of parties that keep to -1, 0 and 1 (`InProtocol`). Of others it is
  false, by the walk alone (127 steps a tick) and, since such a walk may end inside other bodies, by
  the pushes as well; `TypeOK`, that all of them stay on the stage, is not restricted. The
  steps are rounded to 1/240 pixel, a push to the point below: bodies at rest may
  overlap by one point, which `Settles` allows.
* `Lifecycle`: two workers of each kind, so that a start can fail between two; seven
  descriptors, two more than the workers and the metrics server hold, so that sessions
  and scrapes fill the table.

* `Dummy`: the command lines of `tools/echo-verify.sh` and `echo-soak.sh`, and a
  game run. One client: the clients of a worker share nothing but counters and the
  stop flag. A send buffer of three halves makes writes stop inside a message, a
  limit of four halves for what is held back makes it overflow, a way back of six
  makes the server cut a reader that does not read; four echoes per connection and
  a window of three make the window close; two connections make state left over
  from the first one matter. The process ends, so deadlock is not checked.

`gen` is a natural number (32 bits in the code), times do not overflow (64-bit
nanoseconds), and `emptyStreak` stops at the first value that matters.

### Fairness

* `RoomManager`: weak fairness of each game worker's next step (its loop never
  ends) and of each epoll worker's steps inside an operation. Nothing obliges a
  client to connect, join or leave. A thread waiting for `_lock` is not promised
  to win against others, only to run when the lock stays free.
* `EpollWorker`: weak fairness of the worker's and of the game worker's own steps.
  Strong fairness of `DrainTake` and `HandleWritable`: each round of `Loop` ends
  with the dirty scan and `epoll_wait` reports an armed socket, whatever else the
  worker does in between. Strong fairness of `ParseDone` is an assumption on the
  clients, not on the code: a socket runs dry at times. `ReadSession` has no
  budget, so a client that never pauses does keep its worker. Clients read in the
  end; one that does not is cut when its ring is full.
* `RoomInput` and `World` are checked for safety only; progress in `World` is stated
  in ticks (`PartyMovesOn`), which is stronger.
* `Lifecycle`: weak fairness of `main` on its way up and down, of the metrics thread
  (`SO_RCVTIMEO` bounds its reads) and of each worker's leaving its loop: `epoll_wait` has a
  timeout of a millisecond, a tick's sleep ends. Nobody has to scrape or to connect, and
  `--run-secs` need not be given.
* `DummyWorker`: weak fairness of the thread, of the handshake and of the server.
  Strong fairness of a reconnect that succeeds: its wait ends and every pass looks
  at the client. A socket call may fail, but not for ever.

## 4. Proofs

`GameWorkerProofs`, for every number of workers, period, catch-up limit and start
time. The inductive invariant is `IInv == TypeOK /\ TickLedger /\ DebtSettled /\
RemainBounded /\ Loops`. `Loops`
says what each program counter guarantees: before the first tick the schedule is
the first tick; a sleeping worker's published time is its schedule; inside the
do-while loop the wake-up time has reached the schedule, is not later than the
clock and at most `steps` ticks have been run; outside it the wake-up time is
behind the schedule, which is at most a period ahead of the clock. Without it
none of the four properties is inductive: `DebtSettled` needs that the loop is
left only when the schedule is ahead, `NeverAhead` needs the wake-up time between
schedule and clock. The ledger's step is arithmetic: `RebaseRemainder` shows that
a rebase moves the schedule by less than a period beyond the skipped ticks
(`DivBounds` gives the bounds of the division). From `PacingInv` follow
`PacingTyped`, `LedgerExact`, `RealTime`, `PublishedSoon` and `NoDebt`.

**`RoomManager`**, for every number of epoll and game workers, sessions, rooms and
seats. `TypeOK` is inductive by itself (`RoomManagerProofs`: `TypeCorrect`). The other
invariants are not: whether a seat may be given depends on who holds a lock, who may
touch a room, and who else is on the way to that seat. The inductive invariant is built
in layers, each proved from the ones before; TLC checked every layer as an invariant
of `RoomSafety` before it was proved. All theorems of the two modules but `TypeCorrect` and
`LoneWorkerPatient` are about `PatientSpec`: they assume `AcceptsAfter`, which enters in the
first layer. `LoneWorkerPatient`: with one epoll worker `Spec => PatientSpec`.

1. `LockInv`: `_lock` has one holder, a worker inside `HandleSession` for a living session
   (or in a `Disconnect`) has it in its list, which is where `AcceptsAfter` is needed, and a batch does not
   outlive its room's turn (`LockHolder`).
2. `HandInv`: a slot is in one place: the pool, one `Join`, a mailbox, a worker's list,
   or the new room of a move; the open list has no room twice and none of the pool
   (`RoomsInHand`).
3. `SeatInv`: `used` of a room is exactly the seats of its members, queued joins, batch
   and reservation, and those have different seats; `occ` and `reserved` count them; a
   dead or free room has none; in a move the party is split between the old room and the
   new one (`SeatsSound`).
4. `OfferInv`: the open list's rooms are alive with a seat to give, and the load by
   which `Join` chooses a worker is what the worker has (`OffersSound`).
5. `HoldInv`: the entries that name a session, wherever they lie, are one at most, of
   its generation; `refs` is one for the owner and one for the entry (`HoldersSound`).
6. `LeaveInv`: a leave entry names a session that has gone (`LeavesSound`).
7. `RouteInv`: `roomIdx` and `seat` are where the entry is (`RoutesSound`).
8. `DeadLeaving`: a dead session that still has an owner is in that owner's `Disconnect`
   (`LeaversSound`).
9. `LeftInv`: a member that a transfer has still to move is routed to the old room, and a leave
   entry of a slot's present generation means that its owner has done all but return the
   reference (`LeftSound`).

From these follow `SeatLedgerHolds`, `NobodyStrandedHolds`, `RoomOwnershipHolds`
(`RoomManagerProofs`), `OneHolderHolds`, `RefLedgerHolds` and `MembershipAgreesHolds`
(`RoomHolderProofs`). Each action is first turned into a lemma on what it does
(`JoinReserveEffect`, `TransferMemberEffect`, ...), and the layers cite those lemmas.

`RefLedgerHolds` says that the count of a slot is what its owner and its entry account for, and that the
slot is out of the pool as long as either is left. It does not say that an entry goes away in the end: the
member that `LostLeave` orphans is counted exactly, for ever.

`SeatContractHolds`: `PatientSpec => SeatContract`, the refinement of `SeatService`. Under the
mapping of `RoomManager!Seating` a session is online while its slot is out of the pool and
not dead, and has the seats that queues, batches and rooms name it for. The step of `Join`
that reserves a seat and queues the entry is `TakeSeat`, a processed leave or a skipped
join is `GiveUp`, `TransferBegin` is `MoveParty`, the move of a whole party in one step, and
every other step is `Connect`, `Disconnect` or a stutter. That the move is one step is what
the layers are needed for: entries that are still in the old room or in the batch count as
claims on the new one.

`SeatsExclusive`: what the contract is worth. Every step of `SeatService` preserves
`NoDoubleBooking`: a slot has at most one seat and a seat at most one slot. The one step
that is not immediate is the move of a party, where a seat of the new room might
belong to somebody already (`MovedApart`: nobody sits there, and two seats that were
different stay different). With `SeatContractHolds` it holds of `RoomManager`, in every
step of a join or a three-part transfer.

`LeavesExactly` is the finding `LostLeave` with both directions:
`PatientSpec => ([]LeaveFound <=> []~LateLeave)`. `LeaveFound` says that the leave of every member
whose session has gone is on its way: its worker is about to queue it where the member is
or will be moved from, it is queued there, or the game worker of that room has it in its batch.
`LateLeave` is the state in which a worker has read the number of a room that a transfer
has just emptied, with the leaver in the party. One such state loses a leave; without one
none is lost, and that needs all nine layers.

**`RoomInput`** (`RoomInputProofs`), for any sets of sessions, rooms and seats, any depth
of the rings and any bounds.

* `PlacesSound`: who is where, `PlaceInv`, inductive with `TypeOK` as a part (`InputTyped`).
  `OnePlace`: a session waits for one room or sits in one seat; `Present`: who waits or sits
  has the generation of its slot and is in a room or has a leave entry, and an operation is
  begun only in a room; `FreeRooms`: a free slot has nobody and an idle worker;
  `MoveSound`: one party moves at a time, into a live slot where only its moved members
  sit; `SeatsApart`: a seat that is waited for is empty and waited for by one session.
  That the sessions of a moving party still sit in exactly one seat, some in the old
  room and some in the new one, is what the acknowledgements rest on.
* `InputsSound`: `InputOrder` and `OwnInputsOnly` are not inductive, because a queued command
  may be routed later, in a room where the sender sits by then. `QueueSound` says of every
  queue, those of free slots included, that each command was sent on the present or an earlier
  connection of its slot and that commands of a connection lie in send order. `PlayerAt` says
  of every player that its ring is its own, in order, newer than the acknowledgement and
  not beyond `seq`, and that the queue of its room holds for it only what is newer still;
  during a move it says so of the queue of the *new* room too, for a push may reach either. A late
  push into a slot already left does no harm because `FreshQueue` empties the slot before
  anybody sits there. `InputOrderHolds` and `OwnInputsOnlyHolds` follow.
* The loop that routes the queue is a recursive function. `RoutedSteps` gives its steps,
  and `UpTo`, induction over a list's positions by the least one at which a claim fails
  (`LeastNat`), what holds at its end (`RoutedAllOrder`).
* `AckSoundHolds`: the action property, from `Follows`: whoever sits somewhere after a step
  has waited before it or sat somewhere with an acknowledgement that is not larger.

* `RoomIdxHolds`: `roomIdx` names a live room in which its player waits or sits.
* `PongMonotone` does not hold; it is the finding `PongRewind`. `PongSteady` proves it under
  `PingsSteady`: between reading `roomIdx` and `GetPingInfo` the slot is not handed out
  again, and `GetPingInfo` does not read the slot into which a party is being moved. TLC
  violates `PongMonotone` with either half alone. Its invariant, `PongSound`, bounds what a
  connection was told by the clocks of the room it is in and of any room its pending ping
  may read, so that a ping which comes late to a room its party has left is covered.

**`EpollWorker`** (`EpollWorkerProofs`), for every number of epoll workers, sessions,
connections and snapshots, and any capacities. `SendTypeCorrect` needs nothing else. The
other theorems have the form `Spec /\ []OwnWork => ...`, where `OwnWork` says that what a
worker parses, answers or flushes is a session of its own list. The server runs four
epoll workers, and with more than one the code does not guarantee that: a slot may be
recycled in the middle of `ReadSession` (the finding `RecycledParse`), and a dirty bit that
outlives its session may meet the slot in another worker's `HandleAccept`, where `fd` is
set and `owner` is still the old one. `PatientAccept` proves that these are the only two ways:
`Spec /\ [][AcceptsAfter]_vars => []OwnWork`, where `AcceptsAfter` says that a slot is accepted
by the worker that had it last or after that worker has finished with it (no dirty bit of
it set or in hand, no dead test of it still to come). With two workers TLC
violates `OwnWork` when either half is dropped. `PatientSends` draws the conclusion for the
send path: whatever else interleaves does no harm. One worker always is the one that had
the slot last, so `LoneWorker` and `LoneWorkerSends` have no such condition; the
latter is what `SendPath` checks on its instance.

* `SendHolds`: the inductive `HoldInv` (exact reference counts over list, `HandleAccept`,
  `Disconnect` and room; one owner; a session of a list is alive, open and owned; an
  entry has the current generation and owner) and `CleanupBits` (what `CleanupInThread`
  has still to cut is what is left in the list). `ShutdownLedgerHolds` follows without a
  further induction.
* `WakeupHolds`: `NoLostWakeup` with `ParseBits` added, which says that a worker that goes
  back to its loop from `HandleAccept` or `ReadSession` has no bits of the dirty word in
  its hand to forget.
* `SendContractHolds`: `EpollWorker` implements `Outbox`. Storing the socket is `Open`,
  `Enqueue` is `Put`, a write that takes something is `Take`, the first half of
  `Disconnect` is `Cut`. That a slot goes back to the pool, or gets its next generation,
  only when it serves nobody comes from `HoldInv`.

**`Lifecycle`** (`LifecycleProofs`), for every number of workers and every descriptor
limit. A start may fail at any of its steps, `--run-secs` may end the process, and each way
down is another list of calls: the theorems are about all of them.

* `LifecycleTyped`: with `todo` a sequence of calls. That the kernel's lowest free number
  exists needs `LeastNat`: a non-empty set of numbers has a least one.
* `WayDownOrdered`: `WayInv`, of which `NoDanglingUse` is a part that is not inductive
  alone. `Built` says what is alive by which step of the start; `ToldNothing` that no
  thread is told to stop before `main` goes down; `AwaitedFirst` that in `todo` each call
  that frees what a thread uses, or closes the listener, comes after a join of that
  thread or a `Stop` that will lead to one; `AllAwaited` that no thread is forgotten. What
  the lists look like from each step of the start is where the work is: `AddStops` and
  `AddFree` extend such a list at its end, `DestructorsStopFirst` puts them together.
* `DescriptorsOwned`: `FdInv`: every open descriptor has one who will close it, except one
  left by a failed start; a running metrics thread has its listener (`Listening`), a scrape its
  own number (`Serving`), and the list still holds the call that closes the listener
  (`Closing`). `OwnListenerHolds` follows.
* `CleanExitHolds`: when `main` has exited every thread has ended, and unless the start
  failed every descriptor is free: the safety half of `ComesDown`.

**`DummyWorker`** (`DummyWorkerProofs`), for any number of clients, any set of command
lines and all sizes of the buffers. The invariant `IInv` says of every client, in any
state of the loop, that it is `Sound`; TLC checked it on the instance of `Dummy` before it
was proved.

* `Calm`: typed, no buffer over its limit, counted in `active` exactly while `Active`, a
  socket exactly while it may have one, `EPOLLOUT` registered whenever the client wants it,
  no alarm. `Waiting`: who holds bytes back wants it. `UpdateWrite`, the slow reader's deaf
  spell and its end each write the whole interest set, so each has to keep `Waiting` and
  `Registered` together.
* `InEcho`: what is held back, in the send buffer, on the way back and in the receive
  buffer is, read in order, exactly `Echoes(expectRecv, echoSeq)`, and `pending` counts it.
  Where a write or a read stopped does not appear in it, which is why it survives both: a
  short write moves halves within the pipe (`Follow`, `Regroup`), `SendEcho` appends one
  message, the server takes one from the front of its side and puts it behind the other,
  `ParseFrames` takes the whole messages off the end that is received. That `ParseFrames`
  raises no alarm follows from the first half in front of it being the one that
  `expectRecv` says; it is a recursive function over the frames, followed frame by frame.
* `InGame`: in game mode what comes back is whole answers and what goes out whole
  requests, so that a frame never begins in the middle of a message there either.

`AlwaysSound` is the induction; `DummyTypeCorrect`, `EchoPipeIsExact`,
`VerificationIsSound` and `HeldBackAlwaysArmed` follow. `DeafExactly` is the finding
`DeafReader` with both directions, `Spec => ([]SlowReaderReturns <=> [][NoTurn]_vars)`:
`NoTurn` is the absence of a step in which a slow reader with no timer set begins or ends to
hold bytes back. What the theorems rest on is the model of
the server: it answers in order, whole messages only, and keeps what it has not sent
within `RingCap`, or cuts.

**`World`** (`WorldProofs`), for any number of players and actors, any spawn points on the
stage, any grid, bodies, speeds and plans of the clients.

* `WorldTypeCorrect`: whoever is present stands on the stage, whatever pushes it; and who
  is present is exactly the players with a seat and the orcs. The pushing is two nested
  loops, recursive functions in the model. `Iterates` shows that a loop over a finite
  range has a run (by `UpTo`), `InnerExists` and `OuterExists` apply it to the two loops, and
  `PushedBySound` and `SeparatedSound` follow the runs: actors move, nobody comes or goes.
  That all end up on the stage is due to `OnStage` alone (`ClampedStands`), for nothing
  bounds where the pushing of a crowd may leave an actor.
* `SnapshotsRunOn`: the action property `SnapMonotone`, from `SnapKept`: a player's last
  snapshot is not later than the room's newest, and is the newest unless that one was dropped
  or the player has had none yet. How long a client may be behind is not bounded, since a ring may stay
  full. The carried tick counter keeps this through a room move, where a counter that began again would not.
* `PushTakesApart`: one push leaves the two bodies apart (up to the grid's one point) along
  one axis, moves each by at most half a body, neither past the other, and nobody
  else.
* `WalksFreely`: if nobody overlaps by more than that point when all have walked, both loops
  change nothing (`RestPushed`, `RestPushedBy`, `RestSeparated`, again along the runs), and a
  tick is everybody's own input, clamped to the stage.
* `InputsRunOut`: a room without input for more than `NeutralAfter` ticks has nobody who
  holds a direction; from `RunDown`, which ties each member's streak to the time since the
  room was last stirred. `RestLasts` adds the two up to the safety half of `Settles`: once the
  inputs have run out and bodies have come apart, no tick moves anybody that is there, and
  they stay apart, until somebody stirs the room.
* Over a whole tick the pushes of a crowd add up: that the sum stays small (`NoJump`), that
  a crowd gets to rest in `SettleTicks` (the other half of `Settles`) and that a party always
  gets through (`PartyMovesOn`) holds for the code's numbers and not for all, and is
  model-checked. `NoJump` does not even hold of every world that is typed: in one with many
  bodies stacked on a spot the pushes of one tick can add up to more than half a body. That no such
  stack is reached by clients that keep to the protocol is a matter of the whole history of the crowd.

The assumptions are the modules' `ASSUME`s: non-empty sets of slots, rooms, seats and
workers, positive period, limit and capacities; of `kPendMax` that one message fits (4096
bytes in the code, a message has at most 1024); of `World` that the stage has room
between its margins and that everybody is spawned on it.

Only model-checked: the three properties of `World` just named, the liveness properties,
which are out of the prover's reach, and the runs that show a finding.

## 5. Not modelled

* Whose session a worker works on, outside `RoomManager` and `EpollWorker`: `RoomInput` and
  `SeatService` have no epoll workers, and an input or a ping there is that of the slot's own
  connection. They rest on what `AcceptsAfter` says. `RoomManager` has one of the two ways in which a
  worker comes back to a slot it has given up, the re-check of `dead`; the other, a dirty bit that outlives its session,
  reaches only the send path and is in `EpollWorker`, whose `AcceptsAfter` covers both.
* Bytes of messages, parsing at byte level, ring wrap-around: the rings are in
  another repository (`ServerCore`), taken as queues that accept a message whole
  or not at all. `Protocol.h` is layouts; that positions fit the 16 bits of a snapshot
  is part of `World!TypeOK`.
* `epoll_ctl(MOD)` failing, wrap-around of `gen`, the LIFO order of free lists, an
  `emptyStreak` of more than 2^31 ticks, and a server started without game workers
  (every join fails).
* What `main` does before it starts anything: options, self test, the descriptor
  limit, the core budget. It has no state that the rest depends on.
* The metrics counters and the text made of them; face, state and kind of an actor.
* The generator's `main` with its exit gate and totals (a verdict about sums over all
  workers at the end), its histograms and its report.
* The web parts, the browser game and the tools. The movement that `logic.js` shares
  with the server is modelled from `Sim.cpp`.
* ROOM_EVENT in `TransferRoom`: an `Enqueue` and `Mark` like a snapshot's.

## 6. Plan

The plan of the modules, runs and theorems is carried out. What would be worth adding:

1. `World`: for which bodies, speeds and spawn points the pushes of one tick stay below
   half a body. It needs a bound on how deep a crowd can be packed, which the code does not state.
2. The load generator's exit gate, and the answers to a join from two threads (the hazards without
   a property in `PROJECT.json`).
