--------------------------- MODULE RoomHolderProofs ----------------------------
(* The sessions of RoomManager, for every number of sessions, rooms, seats and  *)
(* workers: a session is named in one place at most, its reference count is     *)
(* exact, and the room and seat it was told are the ones it has. At the end:    *)
(* RoomManager implements SeatService under the mapping of Seating, and so no   *)
(* seat is booked twice.                                                        *)
(*                                                                              *)
(* Every theorem but the last is about PatientSpec: the code looks at nothing   *)
(* but dead when it goes on with a session, so all of this rests on             *)
(* AcceptsAfter, which the code does not enforce when it has more than one      *)
(* epoll worker. The last theorem shows that one epoll worker has it for        *)
(* certain.                                                                     *)
EXTENDS RoomManagerProofs

--------------------------------------------------------------------------------
(* The places as one function, and what moving, adding and dropping an entry    *)
(* does to it.                                                                  *)

(* The members of room r, as a place.                                           *)
AtMember(r) == <<"member", r>>

(* The join queue of room r, as a place.                                        *)
AtPending(r) == <<"pending", r>>

(* The batch of game worker w, as a place.                                      *)
AtBatch(w) == <<"batch", w>>

(* The entries of each place.                                                   *)
Where == [p \in Place |-> EntriesAt(p)]

(* What Where can be.                                                           *)
Holders == [Place -> SUBSET JoinEntry]

(* A session is named once in E.                                                *)
OnceIn(E) == \A p, q \in Place : \A x \in E[p], y \in E[q] : x.sess = y.sess => p = q /\ x = y

(* A session is named in E.                                                     *)
HeldIn(E, s) == \E p \in Place : \E x \in E[p] : x.sess = s

(* Entry x is in some place of E.                                               *)
SomewhereIn(E, x) == \E p \in Place : x \in E[p]

(* F has the entries of E, each once, in whatever places.                       *)
Carried(E, F) ==
    /\ OnceIn(F)
    /\ \A s \in Sess : HeldIn(F, s) <=> HeldIn(E, s)
    /\ \A p \in Place : \A x \in F[p] : SomewhereIn(E, x)

(* The three kinds of places.                                                   *)
LEMMA PlaceCases ==
    /\ \A r \in Rooms : AtMember(r) \in Place /\ AtPending(r) \in Place
    /\ \A w \in Game : AtBatch(w) \in Place
    /\ \A p \in Place : \/ \E r \in Rooms : p = AtMember(r)
                        \/ \E r \in Rooms : p = AtPending(r)
                        \/ \E w \in Game : p = AtBatch(w)
BY DEF Place, AtMember, AtPending, AtBatch

(* Places of different kinds, rooms or workers are different.                   *)
LEMMA PlacesApart ==
    /\ \A r, q : AtMember(r) # AtPending(q) /\ AtMember(r) # AtBatch(q) /\ AtPending(r) # AtBatch(q)
    /\ \A r, q : AtMember(r) = AtMember(q) => r = q
    /\ \A r, q : AtPending(r) = AtPending(q) => r = q
    /\ \A r, q : AtBatch(r) = AtBatch(q) => r = q
BY DEF AtMember, AtPending, AtBatch

(* The entries of the three kinds of places.                                    *)
LEMMA WhereIs ==
    /\ \A r \in Rooms : Where[AtMember(r)] = members[r] /\ Where[AtPending(r)] = pendingJoin[r]
    /\ \A w \in Game : Where[AtBatch(w)] = game[w].joins
<1>1. /\ \A r \in Rooms : EntriesAt(AtMember(r)) = members[r] /\ EntriesAt(AtPending(r)) = pendingJoin[r]
      /\ \A w \in Game : EntriesAt(AtBatch(w)) = game[w].joins
  BY DEF EntriesAt, AtMember, AtPending, AtBatch
<1> QED BY <1>1, PlaceCases DEF Where

(* The same, after a step.                                                      *)
LEMMA WhereIsNext ==
    /\ \A r \in Rooms : Where'[AtMember(r)] = members'[r] /\ Where'[AtPending(r)] = pendingJoin'[r]
    /\ \A w \in Game : Where'[AtBatch(w)] = game'[w].joins
<1>1. /\ \A r \in Rooms : EntriesAt(AtMember(r))' = members'[r] /\ EntriesAt(AtPending(r))' = pendingJoin'[r]
      /\ \A w \in Game : EntriesAt(AtBatch(w))' = game'[w].joins
  BY DEF EntriesAt, AtMember, AtPending, AtBatch
<1>2. \A p \in Place : Where'[p] = EntriesAt(p)'
  BY DEF Where
<1> QED BY <1>1, <1>2, PlaceCases

(* Every place has entries.                                                     *)
LEMMA WhereTyped == TypeOK => Where \in Holders
<1> SUFFICES ASSUME TypeOK PROVE Where \in Holders OBVIOUS
<1>1. ASSUME NEW p \in Place PROVE Where[p] \in SUBSET JoinEntry
  <2>1. CASE \E r \in Rooms : p = AtMember(r)
    BY <2>1, WhereIs DEF TypeOK, MemberTypeOK
  <2>2. CASE \E r \in Rooms : p = AtPending(r)
    BY <2>2, WhereIs DEF TypeOK, QueueTypeOK
  <2>3. CASE \E w \in Game : p = AtBatch(w)
    BY <2>3, WhereIs, GameTyped DEF TypeOK
  <2> QED BY <2>1, <2>2, <2>3, PlaceCases
<1>2. Where = [p \in Place |-> Where[p]] BY DEF Where
<1> HIDE DEF Where
<1> QED BY <1>1, <1>2 DEF Holders

(* Entries that stay are carried.                                               *)
LEMMA StayCarried ==
    ASSUME NEW E, NEW F, OnceIn(E), \A p \in Place : F[p] = E[p]
    PROVE  Carried(E, F)
BY DEF Carried, OnceIn, HeldIn, SomewhereIn

(* Entries that move from one place to another are carried.                     *)
LEMMA MoveCarried ==
    ASSUME NEW E, NEW F, OnceIn(E), NEW a \in Place, NEW b \in Place, NEW M, a # b,
           M \subseteq E[a], F[a] = E[a] \ M, F[b] = E[b] \cup M,
           \A p \in Place : p # a /\ p # b => F[p] = E[p]
    PROVE  Carried(E, F)
<1>1. \A p \in Place : \A x \in F[p] : x \in E[p] \/ (p = b /\ x \in M)
  OBVIOUS
<1>2. \A p \in Place : \A x \in E[p] : x \in F[p] \/ (p = a /\ x \in M)
  OBVIOUS
<1>3. OnceIn(F)
  <2> SUFFICES ASSUME NEW p \in Place, NEW q \in Place, NEW x \in F[p], NEW y \in F[q], x.sess
                      = y.sess
               PROVE  p = q /\ x = y
    BY DEF OnceIn
  <2>1. PICK p0 \in Place : x \in E[p0] /\ (p0 = p \/ (p = b /\ p0 = a /\ x \in M)) BY <1>1
  <2>2. PICK q0 \in Place : y \in E[q0] /\ (q0 = q \/ (q = b /\ q0 = a /\ y \in M)) BY <1>1
  <2>3. p0 = q0 /\ x = y BY <2>1, <2>2 DEF OnceIn
  <2>4. ASSUME x \in M PROVE p = b
    <3>1. p0 = a BY <2>1, <2>4 DEF OnceIn
    <3>2. p # a BY <2>4
    <3> QED BY <2>1, <3>1, <3>2
  <2>5. ASSUME y \in M PROVE q = b
    <3>1. q0 = a BY <2>2, <2>5 DEF OnceIn
    <3>2. q # a BY <2>5
    <3> QED BY <2>2, <3>1, <3>2
  <2> QED BY <2>1, <2>2, <2>3, <2>4, <2>5
<1>4. \A s \in Sess : HeldIn(F, s) <=> HeldIn(E, s)
  BY <1>1, <1>2 DEF HeldIn
<1>5. \A p \in Place : \A x \in F[p] : SomewhereIn(E, x)
  BY <1>1 DEF SomewhereIn
<1> QED BY <1>3, <1>4, <1>5 DEF Carried

(* An entry of a session that had none leaves every session named once.         *)
LEMMA AddOnce ==
    ASSUME NEW E, NEW F, OnceIn(E), NEW b \in Place, NEW x, ~HeldIn(E, x.sess),
           F[b] = E[b] \cup {x}, \A p \in Place : p # b => F[p] = E[p]
    PROVE  /\ OnceIn(F)
           /\ \A s \in Sess : HeldIn(F, s) <=> HeldIn(E, s) \/ s = x.sess
<1>1. \A p \in Place : \A y \in F[p] : y \in E[p] \/ (p = b /\ y = x)
  OBVIOUS
<1>2. OnceIn(F)
  BY <1>1 DEF OnceIn, HeldIn
<1>3. \A s \in Sess : HeldIn(F, s) => HeldIn(E, s) \/ s = x.sess
  BY <1>1 DEF HeldIn
<1>4. \A p \in Place : E[p] \subseteq F[p]
  OBVIOUS
<1>5. \A s \in Sess : HeldIn(E, s) \/ s = x.sess => HeldIn(F, s)
  BY <1>4 DEF HeldIn
<1> QED BY <1>2, <1>3, <1>5

(* An entry that is dropped leaves its session unnamed, and no other.           *)
LEMMA DropOnce ==
    ASSUME NEW E, NEW F, OnceIn(E), NEW a \in Place, NEW x \in E[a],
           F[a] = E[a] \ {x}, \A p \in Place : p # a => F[p] = E[p]
    PROVE  /\ OnceIn(F)
           /\ \A s \in Sess : HeldIn(F, s) <=> HeldIn(E, s) /\ s # x.sess
           /\ \A p \in Place : F[p] \subseteq E[p]
<1>1. \A p \in Place : F[p] \subseteq E[p]
  OBVIOUS
<1>2. OnceIn(F)
  BY <1>1 DEF OnceIn
<1>3. \A s \in Sess : HeldIn(F, s) => HeldIn(E, s)
  BY <1>1 DEF HeldIn
<1>4. ~HeldIn(F, x.sess)
  <2> SUFFICES ASSUME NEW p \in Place, NEW y \in F[p], y.sess = x.sess PROVE FALSE BY DEF HeldIn
  <2>1. y \in E[p] BY <1>1
  <2>2. p = a /\ y = x BY <2>1 DEF OnceIn
  <2> QED BY <2>2
<1>5. \A s \in Sess : HeldIn(E, s) /\ s # x.sess => HeldIn(F, s)
  <2> SUFFICES ASSUME NEW s \in Sess, NEW p \in Place, NEW y \in E[p], y.sess = s, s # x.sess
                      PROVE HeldIn(F, s) BY DEF HeldIn
  <2>1. y \in F[p] OBVIOUS
  <2> QED BY <2>1 DEF HeldIn
<1> QED BY <1>1, <1>2, <1>3, <1>4, <1>5

--------------------------------------------------------------------------------
(* Fifth layer: one holder per session, exact reference counts.                 *)

(* An entry has the generation of its session: it was never recycled.           *)
GenAgrees == \A p \in Place : \A x \in Where[p] : x.gen = gen[x.sess]

(* A session has one epoll worker.                                              *)
OneOwner == \A e, f \in Net : \A s \in mySessions[e] : s \in mySessions[f] => e = f

(* A session whose inRoom is down has no entry, unless its worker has just      *)
(* taken it down to leave.                                                      *)
NotYetIn ==
    \A e \in Net :
        /\ Locked(net[e].pc) => ~inRoom[net[e].sess]
        /\ \A s \in mySessions[e] :
              ~inRoom[s] /\ ~(net[e].pc \in {"pushLeave", "release"} /\ net[e].sess = s)
                  => ~HeldIn(Where, s)

(* refs counts the netRef and the gameRef; a slot is free at zero.              *)
RefsExact ==
    \A s \in Sess : /\ refs[s] = One(NetHeld(s)) + One(HeldIn(Where, s))
                    /\ s \in free <=> refs[s] = 0

(* Fifth layer of the inductive invariant.                                      *)
HoldInv == OnceIn(Where) /\ GenAgrees /\ OneOwner /\ NotYetIn /\ RefsExact

(* At the start every slot is free and no entry exists.                         *)
LEMMA HoldInit == Init => HoldInv
<1> SUFFICES ASSUME Init PROVE HoldInv OBVIOUS
<1>1. \A p \in Place : Where[p] = {}
  BY WhereIs, PlaceCases DEF Init, BetweenRooms
<1>2. \A s \in Sess : ~HeldIn(Where, s) /\ ~NetHeld(s)
  BY <1>1 DEF HeldIn, NetHeld, Init
<1>3. OnceIn(Where) /\ GenAgrees
  BY <1>1 DEF OnceIn, GenAgrees
<1>4. RefsExact
  <2>1. \A s \in Sess : One(NetHeld(s)) = 0 /\ One(HeldIn(Where, s)) = 0
    BY <1>2 DEF One
  <2>2. \A s \in Sess : refs[s] = 0 /\ s \in free
    BY DEF Init, PoolInit
  <2> SUFFICES ASSUME NEW s \in Sess
               PROVE  refs[s] = One(NetHeld(s)) + One(HeldIn(Where, s)) /\ (s \in free <=> refs[s] = 0)
    BY DEF RefsExact
  <2>3. One(NetHeld(s)) = 0 /\ One(HeldIn(Where, s)) = 0
    BY <2>1
  <2>4. refs[s] = 0 /\ s \in free
    BY <2>2
  <2> QED BY <2>3, <2>4
<1>5. OneOwner /\ NotYetIn
  BY DEF Init, OneOwner, NotYetIn, NetIdle, Locked
<1> QED BY <1>3, <1>4, <1>5 DEF HoldInv

(* A step that touches no epoll worker and adds no session keeps NotYetIn.      *)
LEMMA QuietNotYetIn ==
    ASSUME TypeOK, NotYetIn, UNCHANGED <<mySessions, inRoom, net>>,
           \A s \in Sess : HeldIn(Where', s) => HeldIn(Where, s)
    PROVE  NotYetIn'
<1>1. \A e \in Net : mySessions[e] \in SUBSET Sess
  BY DEF TypeOK, SessTypeOK
<1> QED BY <1>1 DEF NotYetIn

(* A step that only carries entries and touches no reference keeps HoldInv as   *)
(* far as NotYetIn lets it.                                                     *)
LEMMA KeepStep ==
    ASSUME TypeOK, HoldInv, Carried(Where, Where'), UNCHANGED <<free, gen, refs, mySessions>>,
           NotYetIn'
    PROVE  HoldInv'
<1>1. OnceIn(Where)'
  BY DEF Carried
<1>2. GenAgrees'
  BY DEF HoldInv, GenAgrees, Carried, SomewhereIn
<1>3. OneOwner'
  BY DEF HoldInv, OneOwner
<1>4. \A s \in Sess : (HeldIn(Where', s) <=> HeldIn(Where, s)) /\ (NetHeld(s)' <=> NetHeld(s))
  BY DEF Carried, NetHeld
<1>5. RefsExact'
  BY <1>4 DEF HoldInv, RefsExact, One
<1> QED BY <1>1, <1>2, <1>3, <1>5 DEF HoldInv

(* A game worker's step that only carries entries keeps HoldInv.                *)
LEMMA QuietStep ==
    ASSUME TypeOK, HoldInv, Carried(Where, Where'),
           UNCHANGED <<free, gen, refs, mySessions, inRoom, net>>
    PROVE  HoldInv'
<1>1. NotYetIn'
  BY QuietNotYetIn DEF HoldInv, Carried
<1> QED BY <1>1, KeepStep

(* An entry that is dropped with its gameRef keeps HoldInv: if that was the     *)
(* last reference, the generation moves on and no entry of the old one is       *)
(* left.                                                                        *)
LEMMA DropStep ==
    ASSUME TypeOK, HoldInv, NEW a \in Place, NEW x \in Where[a],
           Where'[a] = Where[a] \ {x}, \A p \in Place : p # a => Where'[p] = Where[p],
           Release(x.sess), UNCHANGED <<mySessions, inRoom, net>>
    PROVE  HoldInv'
<1>0. x.sess \in Sess /\ \A p \in Place : \A y \in Where[p] : y.sess \in Sess
  BY WhereTyped, EntryTyped DEF Holders
<1>1. /\ OnceIn(Where')
      /\ \A s \in Sess : HeldIn(Where', s) <=> HeldIn(Where, s) /\ s # x.sess
      /\ \A p \in Place : Where'[p] \subseteq Where[p]
  <2>1. OnceIn(Where) BY DEF HoldInv
  <2> HIDE DEF Where
  <2> QED BY <2>1, DropOnce
<1>2. HeldIn(Where, x.sess)
  BY DEF HeldIn
<1>3. /\ refs' = [refs EXCEPT ![x.sess] = @ - 1]
      /\ IF refs[x.sess] = 1 THEN gen' = [gen EXCEPT ![x.sess] = @ + 1] /\ free' = free \cup {x.sess}
         ELSE UNCHANGED <<gen, free>>
  BY DEF Release
<1>4. GenAgrees'
  <2> SUFFICES ASSUME NEW p \in Place, NEW y \in Where'[p] PROVE y.gen = gen'[y.sess]
    BY DEF GenAgrees
  <2>1. y \in Where[p] /\ y.sess \in Sess BY <1>0, <1>1
  <2>2. y.gen = gen[y.sess] BY <2>1 DEF HoldInv, GenAgrees
  <2>3. HeldIn(Where', y.sess) BY DEF HeldIn
  <2>4. y.sess # x.sess BY <1>1, <2>1, <2>3
  <2> QED BY <1>0, <1>3, <2>1, <2>2, <2>4 DEF TypeOK, PoolTypeOK
<1>5. NotYetIn'
  BY <1>1, QuietNotYetIn DEF HoldInv
<1>6. OneOwner'
  BY DEF HoldInv, OneOwner
<1>7. RefsExact'
  <2> SUFFICES ASSUME NEW s \in Sess
               PROVE  /\ refs'[s] = One(NetHeld(s)') + One(HeldIn(Where', s))
                      /\ s \in free' <=> refs'[s] = 0
    BY DEF RefsExact
  <2>1. NetHeld(s)' <=> NetHeld(s) BY DEF NetHeld
  <2>2. refs[s] = One(NetHeld(s)) + One(HeldIn(Where, s)) /\ (s \in free <=> refs[s] = 0)
    BY DEF HoldInv, RefsExact
  <2>3. CASE s = x.sess
    BY <1>0, <1>1, <1>2, <1>3, <2>1, <2>2, <2>3 DEF One, TypeOK, PoolTypeOK
  <2>4. CASE s # x.sess
    BY <1>0, <1>1, <1>3, <2>1, <2>2, <2>4 DEF One, TypeOK, PoolTypeOK
  <2> QED BY <2>3, <2>4
<1> QED BY <1>1, <1>4, <1>5, <1>6, <1>7 DEF HoldInv

(* A free slot has no owner and no entry.                                       *)
LEMMA FreeSession ==
    ASSUME TypeOK, HoldInv, NEW s \in free
    PROVE  s \in Sess /\ refs[s] = 0 /\ ~HeldIn(Where, s) /\ \A e \in Net : s \notin mySessions[e]
<1>1. s \in Sess BY DEF TypeOK, PoolTypeOK
<1>2. refs[s] = 0 /\ refs[s] = One(NetHeld(s)) + One(HeldIn(Where, s))
  BY <1>1 DEF HoldInv, RefsExact
<1>3. ~NetHeld(s) /\ ~HeldIn(Where, s)
  BY <1>2 DEF One
<1> QED BY <1>1, <1>2, <1>3 DEF NetHeld

(* A slot in the pool has no members and no queued joins.                       *)
LEMMA FreeRoom ==
    ASSUME TypeOK, LockInv, HandInv, SeatInv, NEW r \in freeRooms
    PROVE  r \in Rooms /\ ~Moving(r) /\ members[r] = {} /\ pendingJoin[r] = {}
<1>1. r \in Rooms
  BY DEF TypeOK, MgrTypeOK
<1>2. ~Moving(r)
  BY MovingHands DEF Moving
<1>3. UsedIsClaimed(r) /\ DeadIsUnused(r)
  BY <1>1, <1>2 DEF SeatInv, RoomSound
<1>4. \A i \in Seats : ~Claimed(r, i)
  BY <1>3 DEF DeadIsUnused, UsedIsClaimed
<1>5. \A x \in members[r] \cup pendingJoin[r] : x.seat \in Seats
  BY <1>1, EntryTyped DEF TypeOK, MemberTypeOK, QueueTypeOK
<1> QED BY <1>1, <1>2, <1>4, <1>5 DEF Claimed

(* The step moves no entry.                                                     *)
Stays == \A p \in Place : Where'[p] = Where[p]

(* The step moves the entries M from place a to place b.                        *)
Moves(a, b, M) ==
    /\ a \in Place /\ b \in Place /\ a # b /\ M \subseteq Where[a]
    /\ Where'[a] = Where[a] \ M /\ Where'[b] = Where[b] \cup M
    /\ \A p \in Place : p # a /\ p # b => Where'[p] = Where[p]

(* The step drops the entry x of place a.                                       *)
Drops(a, x) ==
    /\ a \in Place /\ x \in Where[a] /\ Where'[a] = Where[a] \ {x}
    /\ \A p \in Place : p # a => Where'[p] = Where[p]

(* A step that touches no members, join queue or batch moves no entry.          *)
LEMMA EntriesStay ==
    ASSUME \A r \in Rooms : members'[r] = members[r] /\ pendingJoin'[r] = pendingJoin[r],
           \A w \in Game : game'[w].joins = game[w].joins
    PROVE  Stays
BY PlaceCases, WhereIs, WhereIsNext DEF Stays

(* A step that touches two places only leaves the others.                       *)
LEMMA OthersStay ==
    ASSUME NEW a, NEW b,
           \A r \in Rooms : AtMember(r) # a /\ AtMember(r) # b => members'[r] = members[r],
           \A r \in Rooms : AtPending(r) # a /\ AtPending(r) # b
                     => pendingJoin'[r] = pendingJoin[r],
           \A w \in Game : AtBatch(w) # a /\ AtBatch(w) # b => game'[w].joins = game[w].joins
    PROVE  \A p \in Place : p # a /\ p # b => Where'[p] = Where[p]
BY PlaceCases, WhereIs, WhereIsNext

(* HoldInv is kept by a step that moves no entry and no reference.              *)
LEMMA StaysStep ==
    ASSUME TypeOK, HoldInv, Stays, UNCHANGED <<free, gen, refs, mySessions>>, NotYetIn'
    PROVE  HoldInv'
BY StayCarried, KeepStep DEF HoldInv, Stays

(* HoldInv is kept by a game worker's step that moves no entry.                 *)
LEMMA StillStep ==
    ASSUME TypeOK, HoldInv, Stays, UNCHANGED <<free, gen, refs, mySessions, inRoom, net>>
    PROVE  HoldInv'
BY StayCarried, QuietStep DEF HoldInv, Stays

(* HoldInv is kept by a game worker's step that moves entries.                  *)
LEMMA MovesStep ==
    ASSUME TypeOK, HoldInv, NEW a, NEW b, NEW M, Moves(a, b, M),
           UNCHANGED <<free, gen, refs, mySessions, inRoom, net>>
    PROVE  HoldInv'
BY MoveCarried, QuietStep DEF HoldInv, Moves

(* The batch in process is that of the worker's room, and its seats are apart   *)
(* from the members'.                                                           *)
LEMMA BatchApart ==
    ASSUME TypeOK, HandInv, SeatInv, NEW w \in Game, game[w].pc = "queues"
    PROVE  Apart(game[w].cur) /\ BatchOf(game[w].cur) = game[w].joins
<1>1. /\ game[w].cur \in Rooms /\ gameWorker[game[w].cur] = w /\ ~Moving(game[w].cur)
  BY MovingHands
<1> QED BY <1>1 DEF BatchOf, SeatInv, RoomSound

(* SwapQueues moves the join queue into the batch, which is empty.              *)
LEMMA SwapMoves ==
    ASSUME TypeOK, LockInv, NEW w \in Game, NEW r \in todo[w], SwapQueues(w, r)
    PROVE  r \in Rooms /\ Where[AtBatch(w)] = {} /\ Moves(AtPending(r), AtBatch(w), pendingJoin[r])
<1>1. r \in Rooms
  BY DEF TypeOK, FrameTypeOK
<1>2. /\ game[w].joins = {} /\ pendingJoin'[r] = {} /\ game'[w].joins = pendingJoin[r]
      /\ \A q \in Rooms : q # r => pendingJoin'[q] = pendingJoin[q]
      /\ \A v \in Game : v # w => game'[v] = game[v]
      /\ members' = members
  BY <1>1, SwapQueuesEffect DEF LockInv, BatchInUse, GameAt, TypeOK, QueueTypeOK
<1>3. Moves(AtPending(r), AtBatch(w), pendingJoin[r])
  <2>1. \A p \in Place : p # AtPending(r) /\ p # AtBatch(w) => Where'[p] = Where[p]
    <3>1. \A x \in Rooms : AtMember(x) # AtPending(r) /\ AtMember(x) # AtBatch(w)
              => members'[x] = members[x]
      BY <1>1, <1>2, PlacesApart
    <3>2. \A x \in Rooms : AtPending(x) # AtPending(r) /\ AtPending(x) # AtBatch(w)
              => pendingJoin'[x] = pendingJoin[x]
      BY <1>1, <1>2, PlacesApart
    <3>3. \A v \in Game : AtBatch(v) # AtPending(r) /\ AtBatch(v) # AtBatch(w)
              => game'[v].joins = game[v].joins
      BY <1>1, <1>2, PlacesApart
    <3> QED BY <3>1, <3>2, <3>3, OthersStay
  <2>2. AtPending(r) \in Place /\ AtBatch(w) \in Place /\ AtPending(r) # AtBatch(w)
    BY PlaceCases, PlacesApart, <1>1
  <2>3. /\ Where[AtPending(r)] = pendingJoin[r] /\ Where'[AtPending(r)] = {}
        /\ Where[AtBatch(w)] = {} /\ Where'[AtBatch(w)] = pendingJoin[r]
    BY <1>1, <1>2, WhereIs, WhereIsNext
  <2> QED BY <2>1, <2>2, <2>3 DEF Moves
<1> QED BY <1>1, <1>2, <1>3, WhereIs

(* InstallMember moves its entry to the members and overwrites nobody.          *)
LEMMA InstallMoves ==
    ASSUME TypeOK, HandInv, SeatInv, NEW w \in Game, NEW j \in game[w].joins, InstallMember(w,
           j)
    PROVE  Moves(AtBatch(w), AtMember(game[w].cur), {j})
<1>0. PICK c \in Rooms : c = game[w].cur
  BY GameTyped DEF TypeOK
<1>1. \A m \in members[c] : m.seat # j.seat
  BY <1>0, InstallMemberEffect, BatchApart DEF Apart, SeatsApart
<1>2. /\ members' = [members EXCEPT ![c] = {m \in @ : m.seat # j.seat} \cup {j}]
      /\ pendingJoin' = pendingJoin
  BY <1>0, InstallMemberEffect
<1>3. /\ game'[w].joins = game[w].joins \ {j}
      /\ \A v \in Game : v # w => game'[v] = game[v]
  BY InstallMemberEffect DEF GameAt
<1>4. members'[c] = members[c] \cup {j} /\ \A q \in Rooms : q # c => members'[q] = members[q]
  BY <1>1, <1>2 DEF TypeOK, MemberTypeOK
<1>5. Moves(AtBatch(w), AtMember(c), {j})
  <2>1. \A p \in Place : p # AtBatch(w) /\ p # AtMember(c) => Where'[p] = Where[p]
    <3>1. \A x \in Rooms : AtMember(x) # AtBatch(w) /\ AtMember(x) # AtMember(c)
              => members'[x] = members[x]
      BY <1>2, <1>3, <1>4, PlacesApart
    <3>2. \A x \in Rooms : AtPending(x) # AtBatch(w) /\ AtPending(x) # AtMember(c)
              => pendingJoin'[x] = pendingJoin[x]
      BY <1>2, <1>3, <1>4, PlacesApart
    <3>3. \A v \in Game : AtBatch(v) # AtBatch(w) /\ AtBatch(v) # AtMember(c)
              => game'[v].joins = game[v].joins
      BY <1>2, <1>3, <1>4, PlacesApart
    <3> QED BY <3>1, <3>2, <3>3, OthersStay
  <2>2. AtBatch(w) \in Place /\ AtMember(c) \in Place /\ AtBatch(w) # AtMember(c)
    BY PlaceCases, PlacesApart
  <2>3. /\ Where[AtBatch(w)] = game[w].joins /\ Where'[AtBatch(w)] = game[w].joins \ {j}
        /\ Where[AtMember(c)] = members[c] /\ Where'[AtMember(c)] = members[c] \cup {j}
    BY <1>3, <1>4, WhereIs, WhereIsNext
  <2> QED BY <2>1, <2>2, <2>3 DEF Moves
<1> QED BY <1>0, <1>5

(* SkipJoin drops its entry.                                                    *)
LEMMA SkipDrops ==
    ASSUME TypeOK, NEW w \in Game, NEW j \in game[w].joins, SkipJoin(w, j)
    PROVE  Drops(AtBatch(w), j)
<1>1. /\ game'[w].joins = game[w].joins \ {j}
      /\ \A v \in Game : v # w => game'[v] = game[v]
      /\ members' = members /\ pendingJoin' = pendingJoin
  BY SkipJoinEffect DEF GameAt
<1> QED BY <1>1, PlaceCases, PlacesApart, WhereIs, WhereIsNext DEF Drops

(* ProcessLeave drops the member it matches, or nothing.                        *)
LEMMA LeaveDrops ==
    ASSUME TypeOK, NEW w \in Game, NEW l \in game[w].leaves, ProcessLeave(w, l)
    PROVE  \/ \E m \in members[game[w].cur] :
                /\ Matches(m, l) /\ Release(m.sess)
                /\ Drops(AtMember(game[w].cur), m)
           \/ Stays /\ UNCHANGED <<free, gen, refs>>
<1>0. PICK c \in Rooms : c = game[w].cur
  BY GameTyped DEF TypeOK
<1>1. /\ \A v \in Game : game'[v].joins = game[v].joins
      /\ pendingJoin' = pendingJoin
  BY ProcessLeaveEffect DEF GameAt
<1>2. ASSUME NEW m \in members[c], members' = [members EXCEPT ![c] = @ \ {m}]
      PROVE  Drops(AtMember(c), m)
  <2>1. members'[c] = members[c] \ {m} /\ \A q \in Rooms : q # c => members'[q] = members[q]
    BY <1>2 DEF TypeOK, MemberTypeOK
  <2> QED BY <1>1, <2>1, PlaceCases, PlacesApart, WhereIs, WhereIsNext DEF Drops
<1>3. members' = members => Stays
  BY <1>1, EntriesStay
<1>4. \/ \E m \in members[c] : /\ Matches(m, l) /\ Release(m.sess)
                               /\ members' = [members EXCEPT ![c] = @ \ {m}]
      \/ UNCHANGED <<free, gen, refs, members>>
  <2>1. \/ \E m \in members[game[w].cur] :
              /\ Matches(m, l)
              /\ members' = [members EXCEPT ![game[w].cur] = @ \ {m}]
              /\ memberCount' = [memberCount EXCEPT ![game[w].cur] = @ - 1]
              /\ seatUsed' = [seatUsed EXCEPT ![game[w].cur] = @ \ {m.seat}]
              /\ reservedSeats' = [reservedSeats EXCEPT ![game[w].cur] = @ - 1]
              /\ Release(m.sess)
        \/ /\ \A m \in members[game[w].cur] : ~Matches(m, l)
           /\ UNCHANGED <<free, gen, refs, members, memberCount, seatUsed, reservedSeats>>
    BY ProcessLeaveEffect
  <2> QED BY <1>0, <2>1
<1>5. \/ \E m \in members[c] : Matches(m, l) /\ Release(m.sess) /\ Drops(AtMember(c), m)
      \/ Stays /\ UNCHANGED <<free, gen, refs>>
  BY <1>2, <1>3, <1>4
<1> QED BY <1>0, <1>5

(* JoinAlloc empties a slot that has no entries.                                *)
LEMMA AllocStays ==
    ASSUME TypeOK, LockInv, HandInv, SeatInv, NEW e \in Net, NEW s \in Sess, JoinAlloc(e, s)
    PROVE  Stays
<1>1. PICK r \in Rooms, w \in Game : AllocRoomSlotLocked(r, w, {})
  BY JoinAllocEffect
<1>2. game' = game
  BY JoinAllocEffect
<1>3. /\ r \in freeRooms /\ members'[r] = {} /\ pendingJoin'[r] = {}
      /\ \A x \in Rooms : x # r => members'[x] = members[x] /\ pendingJoin'[x] = pendingJoin[x]
  <2>1. {} \in SUBSET Rooms OBVIOUS
  <2> QED BY <1>1, <2>1, AllocEffect
<1>4. members[r] = {} /\ pendingJoin[r] = {}
  BY <1>3, FreeRoom
<1> QED BY <1>2, <1>3, <1>4, EntriesStay

(* TransferBegin moves the join queue into the batch, which is empty, and       *)
(* empties a slot that has no entries.                                          *)
LEMMA BeginMoves ==
    ASSUME TypeOK, LockInv, HandInv, SeatInv, NEW w \in Game, TransferBegin(w)
    PROVE  /\ Where[AtBatch(w)] = {}
           /\ Moves(AtPending(game[w].cur), AtBatch(w), pendingJoin[game[w].cur])
           /\ game'[w].pc = "move" /\ game'[w].cur = game[w].cur
           /\ game'[w].nr \in freeRooms /\ game'[w].nr # game[w].cur
           /\ members'[game'[w].nr] = {}
           /\ \A v \in Game : v # w => game'[v] = game[v]
<1>0. PICK old \in Rooms : old = game[w].cur
  BY GameTyped DEF TypeOK
<1>1. PICK new \in Rooms :
         /\ AllocRoomSlotLocked(new, gameWorker[old], {old})
         /\ GameAt(w, "move", old, new, pendingJoin[old], pendingLeave[old])
  BY <1>0, TransferBeginEffect
<1>2. game[w].pc = "tick"
  BY TransferBeginEffect
<1>3. /\ new \in freeRooms /\ members'[new] = {} /\ pendingJoin'[new] = {} /\ pendingJoin'[old] = {}
      /\ \A x \in Rooms : x # new => members'[x] = members[x]
      /\ \A x \in Rooms : x \notin {old, new} => pendingJoin'[x] = pendingJoin[x]
  <2>1. {old} \in SUBSET Rooms /\ gameWorker[old] \in Game BY DEF TypeOK, MgrTypeOK
  <2> QED BY <1>1, <2>1, AllocEffect
<1>4. members[new] = {} /\ pendingJoin[new] = {} /\ game[w].joins = {}
  BY <1>2, <1>3, FreeRoom DEF LockInv, BatchInUse
<1>5. old # new
  BY <1>0, <1>2, <1>3, MovingHands
<1>6. game'[w].joins = pendingJoin[old] /\ \A v \in Game : v # w => game'[v] = game[v]
  BY <1>1 DEF GameAt
<1>7. Moves(AtPending(old), AtBatch(w), pendingJoin[old]) /\ Where[AtBatch(w)] = {}
  <2>1. \A p \in Place : p # AtPending(old) /\ p # AtBatch(w) => Where'[p] = Where[p]
    <3>1. \A x \in Rooms : AtMember(x) # AtPending(old) /\ AtMember(x) # AtBatch(w)
              => members'[x] = members[x]
      BY <1>3, <1>4, <1>5, <1>6, PlacesApart
    <3>2. \A x \in Rooms : AtPending(x) # AtPending(old) /\ AtPending(x) # AtBatch(w)
              => pendingJoin'[x] = pendingJoin[x]
      BY <1>3, <1>4, <1>5, <1>6, PlacesApart
    <3>3. \A v \in Game : AtBatch(v) # AtPending(old) /\ AtBatch(v) # AtBatch(w)
              => game'[v].joins = game[v].joins
      BY <1>3, <1>4, <1>5, <1>6, PlacesApart
    <3> QED BY <3>1, <3>2, <3>3, OthersStay
  <2>2. AtPending(old) \in Place /\ AtBatch(w) \in Place /\ AtPending(old) # AtBatch(w)
    BY PlaceCases, PlacesApart
  <2>3. /\ Where[AtPending(old)] = pendingJoin[old] /\ Where'[AtPending(old)] = {}
        /\ Where[AtBatch(w)] = {} /\ Where'[AtBatch(w)] = pendingJoin[old]
    BY <1>3, <1>4, <1>6, WhereIs, WhereIsNext
  <2> QED BY <2>1, <2>2, <2>3 DEF Moves
<1> QED BY <1>0, <1>1, <1>3, <1>5, <1>6, <1>7 DEF GameAt

(* TransferMember moves one member to the new room and overwrites nobody        *)
(* there.                                                                       *)
LEMMA MemberMoves ==
    ASSUME TypeOK, HandInv, SeatInv, NEW w \in Game, NEW m \in members[game[w].cur],
           TransferMember(w, m)
    PROVE  Moves(AtMember(game[w].cur), AtMember(game[w].nr), {m})
<1>0. PICK old \in Rooms, new \in Rooms : old = game[w].cur /\ new = game[w].nr
  BY GameTyped DEF TypeOK
<1>1. /\ game[w].pc = "move"
      /\ members' = [members EXCEPT ![old] = @ \ {m}, ![new] = {o \in @ : o.seat # m.seat} \cup {m}]
      /\ pendingJoin' = pendingJoin /\ game' = game
  BY <1>0, TransferMemberEffect
<1>2. old # new /\ \A o \in members[new] : o.seat # m.seat
  BY <1>0, <1>1, MovingHands DEF SeatInv, PartySound, SeatsApart
<1>3. /\ members'[old] = members[old] \ {m} /\ members'[new] = members[new] \cup {m}
      /\ \A x \in Rooms : x \notin {old, new} => members'[x] = members[x]
  BY <1>1, <1>2 DEF TypeOK, MemberTypeOK
<1>4. Moves(AtMember(old), AtMember(new), {m})
  <2>1. \A p \in Place : p # AtMember(old) /\ p # AtMember(new) => Where'[p] = Where[p]
    <3>1. \A x \in Rooms : AtMember(x) # AtMember(old) /\ AtMember(x) # AtMember(new)
              => members'[x] = members[x]
      BY <1>1, <1>2, <1>3, PlacesApart
    <3>2. \A x \in Rooms : AtPending(x) # AtMember(old) /\ AtPending(x) # AtMember(new)
              => pendingJoin'[x] = pendingJoin[x]
      BY <1>1, <1>2, <1>3, PlacesApart
    <3>3. \A v \in Game : AtBatch(v) # AtMember(old) /\ AtBatch(v) # AtMember(new)
              => game'[v].joins = game[v].joins
      BY <1>1, <1>2, <1>3, PlacesApart
    <3> QED BY <3>1, <3>2, <3>3, OthersStay
  <2>2. AtMember(old) \in Place /\ AtMember(new) \in Place /\ AtMember(old) # AtMember(new)
    BY PlaceCases, PlacesApart, <1>2
  <2>3. /\ Where[AtMember(old)] = members[old] /\ Where'[AtMember(old)] = members[old] \ {m}
        /\ Where[AtMember(new)] = members[new] /\ Where'[AtMember(new)] = members[new] \cup {m}
    BY <1>3, WhereIs, WhereIsNext
  <2> QED BY <1>0, <2>1, <2>2, <2>3 DEF Moves
<1> QED BY <1>0, <1>4

(* TransferEnd moves the carried joins to the new room's queue, which is        *)
(* empty.                                                                       *)
LEMMA EndMoves ==
    ASSUME TypeOK, SeatInv, NEW w \in Game, TransferEnd(w)
    PROVE  /\ Moves(AtBatch(w), AtPending(game[w].nr), game[w].joins)
           /\ Where[AtPending(game[w].nr)] = {}
<1>0. PICK new \in Rooms : new = game[w].nr
  BY GameTyped DEF TypeOK
<1>1. /\ game[w].pc = "move" /\ pendingJoin' = [pendingJoin EXCEPT ![new] = @ \cup game[w].joins]
      /\ members' = members
  BY <1>0, TransferEndEffect
<1>2. game'[w].joins = {} /\ \A v \in Game : v # w => game'[v] = game[v]
  BY TransferEndEffect DEF GameAt
<1>3. pendingJoin[new] = {}
  BY <1>0, <1>1 DEF SeatInv, PartySound
<1>4. pendingJoin'[new] = game[w].joins /\ \A x \in Rooms : x # new
          => pendingJoin'[x] = pendingJoin[x]
  BY <1>1, <1>3 DEF TypeOK, QueueTypeOK
<1>5. Moves(AtBatch(w), AtPending(new), game[w].joins) /\ Where[AtPending(new)] = {}
  <2>1. \A p \in Place : p # AtBatch(w) /\ p # AtPending(new) => Where'[p] = Where[p]
    <3>1. \A x \in Rooms : AtMember(x) # AtBatch(w) /\ AtMember(x) # AtPending(new)
              => members'[x] = members[x]
      BY <1>1, <1>2, <1>3, <1>4, PlacesApart
    <3>2. \A x \in Rooms : AtPending(x) # AtBatch(w) /\ AtPending(x) # AtPending(new)
              => pendingJoin'[x] = pendingJoin[x]
      BY <1>1, <1>2, <1>3, <1>4, PlacesApart
    <3>3. \A v \in Game : AtBatch(v) # AtBatch(w) /\ AtBatch(v) # AtPending(new)
              => game'[v].joins = game[v].joins
      BY <1>1, <1>2, <1>3, <1>4, PlacesApart
    <3> QED BY <3>1, <3>2, <3>3, OthersStay
  <2>2. AtBatch(w) \in Place /\ AtPending(new) \in Place /\ AtBatch(w) # AtPending(new)
    BY PlaceCases, PlacesApart
  <2>3. /\ Where[AtBatch(w)] = game[w].joins /\ Where'[AtBatch(w)] = {}
        /\ Where[AtPending(new)] = {} /\ Where'[AtPending(new)] = game[w].joins
    BY <1>2, <1>3, <1>4, WhereIs, WhereIsNext
  <2> QED BY <2>1, <2>2, <2>3 DEF Moves
<1> QED BY <1>0, <1>5

(* Every step keeps every session named once, and its references exact.         *)
LEMMA HoldStep ==
    TypeOK /\ TypeOK' /\ LockInv /\ HandInv /\ SeatInv /\ HoldInv /\ [Next]_vars => HoldInv'
<1> SUFFICES ASSUME TypeOK, TypeOK', LockInv, HandInv, SeatInv, HoldInv, [Next]_vars
             PROVE  HoldInv'
  OBVIOUS
<1>0. /\ FrameTypeOK /\ PoolTypeOK /\ SessTypeOK
      /\ OnceIn(Where) /\ GenAgrees /\ OneOwner /\ NotYetIn /\ RefsExact
      /\ \A e \in Net : net[e].pc \notin {"idle", "serve"} => net[e].sess \in mySessions[e]
      /\ \A p \in Place : \A x \in Where[p] : x.sess \in Sess
  BY WhereTyped, EntryTyped DEF TypeOK, HoldInv, LockInv, NetHasSession, Holders
<1>1. ASSUME NEW e \in Net, NEW s \in Sess, Accept(e, s) PROVE HoldInv'
  <2>1. /\ s \in free /\ UNCHANGED <<members, pendingJoin, game, net>>
        /\ inRoom' = [inRoom EXCEPT ![s] = FALSE]
        /\ free' = free \ {s} /\ refs' = [refs EXCEPT ![s] = 1] /\ gen' = gen
        /\ mySessions' = [mySessions EXCEPT ![e] = @ \cup {s}]
    BY <1>1, AcceptEffect
  <2>2. /\ refs[s] = 0 /\ ~HeldIn(Where, s)
        /\ \A f \in Net : s \notin mySessions[f]
    BY <2>1, FreeSession
  <2>3. Stays
    BY <2>1, EntriesStay
  <2>4. OnceIn(Where)' /\ \A t \in Sess : HeldIn(Where', t) <=> HeldIn(Where, t)
    BY <1>0, <2>3 DEF OnceIn, HeldIn, Stays
  <2>5. GenAgrees'
    <3> SUFFICES ASSUME NEW p \in Place, NEW x \in Where'[p] PROVE x.gen = gen'[x.sess]
      BY DEF GenAgrees
    <3>1. x \in Where[p] BY <2>3 DEF Stays
    <3>2. x.sess # s BY <2>2, <3>1 DEF HeldIn
    <3> QED BY <1>0, <2>1, <3>1, <3>2 DEF GenAgrees, PoolTypeOK
  <2>6. /\ mySessions'[e] = mySessions[e] \cup {s}
        /\ \A f \in Net : f # e => mySessions'[f] = mySessions[f]
        /\ \A f \in Net : mySessions[f] \in SUBSET Sess
        /\ ~inRoom'[s] /\ \A t \in Sess : t # s => inRoom'[t] = inRoom[t]
    BY <1>0, <2>1 DEF SessTypeOK
  <2>7. OneOwner'
    BY <1>0, <2>2, <2>6 DEF OneOwner
  <2>8. NotYetIn'
    <3>1. ASSUME NEW f \in Net, Locked(net[f].pc) PROVE ~inRoom'[net[f].sess]
      <4>1. net[f].sess \in mySessions[f] BY <1>0, <3>1 DEF Locked
      <4>2. ~inRoom[net[f].sess] BY <1>0, <3>1 DEF NotYetIn
      <4> QED BY <2>2, <2>6, <4>1, <4>2
    <3>2. ASSUME NEW f \in Net, NEW t \in mySessions'[f], ~inRoom'[t],
                 ~(net[f].pc \in {"pushLeave", "release"} /\ net[f].sess = t)
          PROVE  ~HeldIn(Where', t)
      <4>1. CASE t = s BY <2>2, <2>4, <4>1
      <4>2. CASE t # s
        <5>1. t \in mySessions[f] /\ t \in Sess BY <2>6, <4>2
        <5>2. ~inRoom[t] BY <2>6, <3>2, <4>2, <5>1
        <5>3. ~HeldIn(Where, t) BY <1>0, <3>2, <5>1, <5>2 DEF NotYetIn
        <5> QED BY <2>4, <5>1, <5>3
      <4> QED BY <4>1, <4>2
    <3> QED BY <2>1, <3>1, <3>2 DEF NotYetIn
  <2>9. RefsExact'
    <3> SUFFICES ASSUME NEW t \in Sess
                 PROVE  /\ refs'[t] = One(NetHeld(t)') + One(HeldIn(Where', t))
                        /\ t \in free' <=> refs'[t] = 0
      BY DEF RefsExact
    <3>1. CASE t = s
      <4>1. NetHeld(t)' BY <2>6, <3>1 DEF NetHeld
      <4>2. ~HeldIn(Where', t) BY <2>2, <2>4, <3>1
      <4> QED BY <1>0, <2>1, <3>1, <4>1, <4>2 DEF One, PoolTypeOK
    <3>2. CASE t # s
      <4>1. NetHeld(t)' <=> NetHeld(t) BY <2>6, <3>2 DEF NetHeld
      <4>2. refs'[t] = refs[t] /\ (t \in free' <=> t \in free) BY <1>0, <2>1, <3>2 DEF PoolTypeOK
      <4>3. HeldIn(Where', t) <=> HeldIn(Where, t) BY <2>4
      <4>4. refs[t] = One(NetHeld(t)) + One(HeldIn(Where, t)) /\ (t \in free <=> refs[t] = 0)
        BY <1>0 DEF RefsExact
      <4> QED BY <4>1, <4>2, <4>3, <4>4 DEF One
    <3> QED BY <3>1, <3>2
  <2> QED BY <2>4, <2>5, <2>7, <2>8, <2>9 DEF HoldInv
<1>2. ASSUME NEW e \in Net, NEW s \in Sess, AcceptAborted(e, s) PROVE HoldInv'
  <2>1. /\ s \in free /\ UNCHANGED <<members, pendingJoin, game, net>>
        /\ inRoom' = [inRoom EXCEPT ![s] = FALSE]
        /\ refs' = [refs EXCEPT ![s] = 0] /\ gen' = [gen EXCEPT ![s] = @ + 1]
        /\ UNCHANGED <<free, mySessions>>
    BY <1>2, AcceptAbortedEffect
  <2>2. /\ refs[s] = 0 /\ ~HeldIn(Where, s)
        /\ \A f \in Net : s \notin mySessions[f]
    BY <2>1, FreeSession
  <2>3. Stays
    BY <2>1, EntriesStay
  <2>4. OnceIn(Where)' /\ \A t \in Sess : HeldIn(Where', t) <=> HeldIn(Where, t)
    BY <1>0, <2>3 DEF OnceIn, HeldIn, Stays
  <2>5. GenAgrees'
    <3> SUFFICES ASSUME NEW p \in Place, NEW x \in Where'[p] PROVE x.gen = gen'[x.sess]
      BY DEF GenAgrees
    <3>1. x \in Where[p] BY <2>3 DEF Stays
    <3>2. x.sess # s BY <2>2, <3>1 DEF HeldIn
    <3> QED BY <1>0, <2>1, <3>1, <3>2 DEF GenAgrees, PoolTypeOK
  <2>6. /\ \A f \in Net : mySessions[f] \in SUBSET Sess
        /\ ~inRoom'[s] /\ \A t \in Sess : t # s => inRoom'[t] = inRoom[t]
    BY <1>0, <2>1 DEF SessTypeOK
  <2>7. OneOwner'
    BY <1>0, <2>1 DEF OneOwner
  <2>8. NotYetIn'
    <3>1. ASSUME NEW f \in Net, Locked(net[f].pc) PROVE ~inRoom'[net[f].sess]
      <4>1. net[f].sess \in mySessions[f] BY <1>0, <3>1 DEF Locked
      <4>2. ~inRoom[net[f].sess] BY <1>0, <3>1 DEF NotYetIn
      <4> QED BY <2>2, <2>6, <4>1, <4>2
    <3>2. ASSUME NEW f \in Net, NEW t \in mySessions[f], ~inRoom'[t],
                 ~(net[f].pc \in {"pushLeave", "release"} /\ net[f].sess = t)
          PROVE  ~HeldIn(Where', t)
      <4>1. t # s /\ t \in Sess BY <2>2, <2>6
      <4>2. ~inRoom[t] BY <2>6, <3>2, <4>1
      <4>3. ~HeldIn(Where, t) BY <1>0, <3>2, <4>2 DEF NotYetIn
      <4> QED BY <2>4, <4>1, <4>3
    <3> QED BY <2>1, <3>1, <3>2 DEF NotYetIn
  <2>9. RefsExact'
    <3> SUFFICES ASSUME NEW t \in Sess
                 PROVE  /\ refs'[t] = One(NetHeld(t)') + One(HeldIn(Where', t))
                        /\ t \in free' <=> refs'[t] = 0
      BY DEF RefsExact
    <3>1. NetHeld(t)' <=> NetHeld(t) BY <2>1 DEF NetHeld
    <3>2. refs'[t] = refs[t] /\ free' = free BY <1>0, <2>1, <2>2 DEF PoolTypeOK
    <3>3. HeldIn(Where', t) <=> HeldIn(Where, t) BY <2>4
    <3>4. refs[t] = One(NetHeld(t)) + One(HeldIn(Where, t)) /\ (t \in free <=> refs[t] = 0)
      BY <1>0 DEF RefsExact
    <3> QED BY <3>1, <3>2, <3>3, <3>4 DEF One
  <2> QED BY <2>4, <2>5, <2>7, <2>8, <2>9 DEF HoldInv
<1>3. ASSUME NEW e \in Net, NEW s \in Sess, JoinReserve(e, s) PROVE HoldInv'
  <2>1. /\ UNCHANGED <<free, gen, refs, mySessions, inRoom, members, pendingJoin, game>>
        /\ net[e].pc = "serve" /\ ~inRoom[s] /\ net'[e].pc = "enter" /\ net'[e].sess = s
        /\ \A f \in Net : f # e => net'[f] = net[f]
    BY <1>3, JoinReserveEffect DEF NetAt
  <2>2. Stays
    BY <2>1, EntriesStay
  <2>3. NotYetIn'
    BY <1>0, <2>1, <2>2 DEF NotYetIn, HeldIn, Stays
  <2> QED BY <2>1, <2>2, <2>3, StaysStep
<1>4. ASSUME NEW e \in Net, NEW s \in Sess, JoinAlloc(e, s) PROVE HoldInv'
  <2>1. /\ UNCHANGED <<free, gen, refs, mySessions, inRoom>>
        /\ net[e].pc = "serve" /\ ~inRoom[s] /\ net'[e].pc = "reserve0" /\ net'[e].sess = s
        /\ \A f \in Net : f # e => net'[f] = net[f]
    BY <1>4, JoinAllocEffect DEF NetAt
  <2>2. Stays
    BY <1>4, AllocStays
  <2>3. NotYetIn'
    BY <1>0, <2>1, <2>2 DEF NotYetIn, HeldIn, Stays
  <2> QED BY <2>1, <2>2, <2>3, StaysStep
<1>5. ASSUME NEW e \in Net, NEW s \in Sess, JoinFail(e, s) PROVE HoldInv'
  <2>1. Stays
    BY <1>5, JoinFailEffect, EntriesStay DEF GameAt
  <2>2. UNCHANGED <<free, gen, refs, mySessions, inRoom, net>>
    BY <1>5, JoinFailEffect
  <2> QED BY <2>1, <2>2, StillStep
<1>6. ASSUME NEW e \in Net, NEW s \in Sess, Disconnect(e, s) PROVE HoldInv'
  <2>1. /\ UNCHANGED <<free, gen, refs, mySessions, inRoom, members, pendingJoin, game>>
        /\ net[e].pc = "serve" /\ net'[e].pc = "leave"
        /\ \A f \in Net : f # e => net'[f] = net[f]
    BY <1>6, DisconnectEffect DEF NetAt
  <2>2. Stays
    BY <2>1, EntriesStay
  <2>3. NotYetIn'
    BY <1>0, <2>1, <2>2 DEF NotYetIn, HeldIn, Stays, Locked
  <2> QED BY <2>1, <2>2, <2>3, StaysStep
<1>7. ASSUME NEW e \in Net, JoinReserveFirst(e) PROVE HoldInv'
  <2>1. /\ UNCHANGED <<free, gen, refs, mySessions, inRoom, members, pendingJoin, game>>
        /\ net[e].pc = "reserve0" /\ net'[e].pc = "enter" /\ net'[e].sess = net[e].sess
        /\ \A f \in Net : f # e => net'[f] = net[f]
    BY <1>7, JoinReserveFirstEffect DEF NetAt
  <2>2. Stays
    BY <2>1, EntriesStay
  <2>3. NotYetIn'
    BY <1>0, <2>1, <2>2 DEF NotYetIn, HeldIn, Stays, Locked
  <2> QED BY <2>1, <2>2, <2>3, StaysStep
<1>8. ASSUME NEW e \in Net, JoinEnter(e) PROVE HoldInv'
  <2>0. PICK s \in Sess, r \in Rooms : s = net[e].sess /\ r = net[e].room
    BY <1>0, NetTyped
  <2> DEFINE x == Claim(e)
             b == AtPending(r)
  <2>1. /\ net[e].pc = "enter" /\ refs' = [refs EXCEPT ![s] = @ + 1]
        /\ pendingJoin' = [pendingJoin EXCEPT ![r] = @ \cup {x}]
        /\ inRoom' = [inRoom EXCEPT ![s] = TRUE]
        /\ net'[e].pc = "serve" /\ \A f \in Net : f # e => net'[f] = net[f]
        /\ UNCHANGED <<free, gen, mySessions, members, game>>
    BY <1>8, <2>0, JoinEnterEffect DEF NetAt
  <2>2. s \in mySessions[e] /\ ~HeldIn(Where, s)
    BY <1>0, <2>0, <2>1 DEF NotYetIn, Locked
  <2>3. x.sess = s /\ x.gen = gen[s]
    BY <2>0 DEF Claim
  <2> HIDE DEF x
  <2>4. /\ b \in Place /\ Where'[b] = Where[b] \cup {x}
        /\ \A p \in Place : p # b => Where'[p] = Where[p]
    <3>1. pendingJoin'[r] = pendingJoin[r] \cup {x} /\ \A q \in Rooms : q # r
              => pendingJoin'[q] = pendingJoin[q]
      BY <2>1 DEF TypeOK, QueueTypeOK
    <3>2. \A q \in Rooms : AtPending(q) # b => pendingJoin'[q] = pendingJoin[q]
      BY <3>1
    <3>3. \A p \in Place : p # b => Where'[p] = Where[p]
      <4>1. \A q \in Rooms : members'[q] = members[q] BY <2>1
      <4>2. \A v \in Game : game'[v].joins = game[v].joins BY <2>1
      <4> HIDE DEF b
      <4> QED BY <3>2, <4>1, <4>2, PlaceCases, WhereIs, WhereIsNext
    <3> QED BY <3>1, <3>3, PlaceCases, WhereIs, WhereIsNext
  <2> HIDE DEF b
  <2>5. /\ OnceIn(Where')
        /\ \A t \in Sess : HeldIn(Where', t) <=> HeldIn(Where, t) \/ t = s
    BY <1>0, <2>2, <2>3, <2>4, AddOnce
  <2>6. GenAgrees'
    <3> SUFFICES ASSUME NEW p \in Place, NEW y \in Where'[p] PROVE y.gen = gen'[y.sess]
      BY DEF GenAgrees
    <3>1. y \in Where[p] \/ y = x BY <2>4
    <3> QED BY <1>0, <2>1, <2>3, <3>1 DEF GenAgrees
  <2>7. OneOwner'
    BY <1>0, <2>1 DEF OneOwner
  <2>8. inRoom'[s] /\ \A t \in Sess : t # s => inRoom'[t] = inRoom[t]
    BY <1>0, <2>1 DEF SessTypeOK
  <2>9. NotYetIn'
    <3>1. ASSUME NEW f \in Net, Locked(net'[f].pc) PROVE FALSE
      BY <2>1, <3>1 DEF LockInv, LockExclusive, Locked
    <3>2. ASSUME NEW f \in Net, NEW t \in mySessions[f], ~inRoom'[t],
                 ~(net'[f].pc \in {"pushLeave", "release"} /\ net'[f].sess = t)
          PROVE  ~HeldIn(Where', t)
      <4>1. t \in Sess /\ t # s BY <1>0, <2>8, <3>2 DEF SessTypeOK
      <4>2. ~inRoom[t] BY <2>8, <3>2, <4>1
      <4>3. ~(net[f].pc \in {"pushLeave", "release"} /\ net[f].sess = t) BY <2>1, <3>2
      <4>4. ~HeldIn(Where, t) BY <1>0, <4>2, <4>3 DEF NotYetIn
      <4> QED BY <2>5, <4>1, <4>4
    <3> QED BY <2>1, <3>1, <3>2 DEF NotYetIn
  <2>10. RefsExact'
    <3> SUFFICES ASSUME NEW t \in Sess
                 PROVE  /\ refs'[t] = One(NetHeld(t)') + One(HeldIn(Where', t))
                        /\ t \in free' <=> refs'[t] = 0
      BY DEF RefsExact
    <3>1. NetHeld(t)' <=> NetHeld(t) BY <2>1 DEF NetHeld
    <3>2. refs[t] = One(NetHeld(t)) + One(HeldIn(Where, t)) /\ (t \in free <=> refs[t] = 0)
      BY <1>0 DEF RefsExact
    <3>3. CASE t = s
      <4>1. NetHeld(t) BY <2>2, <3>3 DEF NetHeld
      <4> QED BY <1>0, <2>1, <2>2, <2>5, <3>1, <3>2, <3>3, <4>1 DEF One, PoolTypeOK
    <3>4. CASE t # s
      BY <1>0, <2>1, <2>5, <3>1, <3>2, <3>4 DEF One, PoolTypeOK
    <3> QED BY <3>3, <3>4
  <2> QED BY <2>5, <2>6, <2>7, <2>9, <2>10 DEF HoldInv
<1>9. ASSUME NEW e \in Net, OnSessionLeave(e) PROVE HoldInv'
  <2>1. /\ UNCHANGED <<free, gen, refs, mySessions, members, pendingJoin, game>>
        /\ net[e].pc = "leave" /\ net'[e].pc \in {"pushLeave", "release"} /\ net'[e].sess = net[e].sess
        /\ inRoom' = [inRoom EXCEPT ![net[e].sess] = FALSE]
        /\ \A f \in Net : f # e => net'[f] = net[f]
    BY <1>9, OnSessionLeaveEffect DEF NetAt
  <2>2. Stays
    BY <2>1, EntriesStay
  <2>3. \A t \in Sess : (HeldIn(Where', t) <=> HeldIn(Where, t))
    BY <2>2 DEF HeldIn, Stays
  <2>4. PICK s \in Sess : s = net[e].sess /\ s \in mySessions[e]
    BY <1>0, <2>1, NetTyped
  <2>5. ~inRoom'[s] /\ \A t \in Sess : t # s => inRoom'[t] = inRoom[t]
    BY <1>0, <2>1, <2>4 DEF SessTypeOK
  <2>6. ASSUME NEW f \in Net PROVE Locked(net'[f].pc) => ~inRoom'[net'[f].sess]
    <3>1. CASE f = e BY <2>1, <3>1 DEF Locked
    <3>2. CASE f # e
      <4>1. net'[f] = net[f] /\ net[f].sess \in Sess BY <1>0, <2>1, <3>2, NetTyped
      <4>2. Locked(net[f].pc) => ~inRoom[net[f].sess] BY <1>0 DEF NotYetIn
      <4> QED BY <2>5, <4>1, <4>2
    <3> QED BY <3>1, <3>2
  <2>7. ASSUME NEW f \in Net, NEW t \in mySessions[f], ~inRoom'[t],
               ~(net'[f].pc \in {"pushLeave", "release"} /\ net'[f].sess = t)
        PROVE  ~HeldIn(Where', t)
    <3>0. t \in Sess BY <1>0 DEF SessTypeOK
    <3>1. t # s
      BY <1>0, <2>1, <2>4, <2>7 DEF OneOwner
    <3>2. ~inRoom[t] /\ ~(net[f].pc \in {"pushLeave", "release"} /\ net[f].sess = t)
      BY <2>1, <2>5, <2>7, <3>0, <3>1
    <3> QED BY <1>0, <2>3, <3>0, <3>2 DEF NotYetIn
  <2>8. NotYetIn'
    BY <2>1, <2>6, <2>7 DEF NotYetIn
  <2> QED BY <2>1, <2>2, <2>8, StaysStep
<1>10. ASSUME NEW e \in Net, PushLeave(e) PROVE HoldInv'
  <2>1. /\ UNCHANGED <<free, gen, refs, mySessions, inRoom, members, pendingJoin, game>>
        /\ net[e].pc = "pushLeave" /\ net'[e].pc = "release" /\ net'[e].sess = net[e].sess
        /\ \A f \in Net : f # e => net'[f] = net[f]
    BY <1>10, PushLeaveEffect DEF NetAt
  <2>2. Stays
    BY <2>1, EntriesStay
  <2>3. NotYetIn'
    BY <1>0, <2>1, <2>2 DEF NotYetIn, HeldIn, Stays, Locked
  <2> QED BY <2>1, <2>2, <2>3, StaysStep
<1>11. ASSUME NEW e \in Net, ReleaseNetRef(e) PROVE HoldInv'
  <2>0. PICK s \in Sess : s = net[e].sess
    BY <1>0, NetTyped
  <2>1. /\ net[e].pc = "release" /\ Release(s)
        /\ mySessions' = [mySessions EXCEPT ![e] = @ \ {s}]
        /\ net'[e].pc = "serve" /\ \A f \in Net : f # e => net'[f] = net[f]
        /\ UNCHANGED <<inRoom, members, pendingJoin, game>>
    BY <1>11, <2>0, ReleaseNetRefEffect DEF NetAt
  <2>2. Stays
    BY <2>1, EntriesStay
  <2>3. OnceIn(Where)' /\ \A t \in Sess : HeldIn(Where', t) <=> HeldIn(Where, t)
    BY <1>0, <2>2 DEF OnceIn, HeldIn, Stays
  <2>4. /\ s \in mySessions[e]
        /\ \A f \in Net : f # e => s \notin mySessions[f]
    BY <1>0, <2>0, <2>1 DEF OneOwner
  <2>5. /\ mySessions'[e] = mySessions[e] \ {s}
        /\ \A f \in Net : f # e => mySessions'[f] = mySessions[f]
        /\ \A f \in Net : mySessions[f] \in SUBSET Sess
    BY <1>0, <2>1 DEF SessTypeOK
  <2>6. /\ refs' = [refs EXCEPT ![s] = @ - 1]
        /\ IF refs[s] = 1 THEN gen' = [gen EXCEPT ![s] = @ + 1] /\ free' = free \cup {s}
           ELSE UNCHANGED <<gen, free>>
    BY <2>1 DEF Release
  <2>7. refs[s] = 1 + One(HeldIn(Where, s)) /\ NetHeld(s) /\ ~NetHeld(s)'
    <3>1. NetHeld(s) BY <2>4 DEF NetHeld
    <3>2. ~NetHeld(s)' BY <2>4, <2>5 DEF NetHeld
    <3>3. refs[s] = One(NetHeld(s)) + One(HeldIn(Where, s)) BY <1>0 DEF RefsExact
    <3> QED BY <3>1, <3>2, <3>3 DEF One
  <2>8. GenAgrees'
    <3> SUFFICES ASSUME NEW p \in Place, NEW x \in Where'[p] PROVE x.gen = gen'[x.sess]
      BY DEF GenAgrees
    <3>1. x \in Where[p] BY <2>2 DEF Stays
    <3>2. x.sess \in Sess /\ x.gen = gen[x.sess] BY <1>0, <3>1 DEF GenAgrees
    <3>3. CASE x.sess = s
      <4>1. HeldIn(Where, s) BY <3>1, <3>3 DEF HeldIn
      <4>2. refs[s] # 1 BY <2>7, <4>1 DEF One
      <4> QED BY <2>6, <3>2, <4>2
    <3>4. CASE x.sess # s
      BY <1>0, <2>6, <3>2, <3>4 DEF PoolTypeOK
    <3> QED BY <3>3, <3>4
  <2>9. OneOwner'
    BY <1>0, <2>5 DEF OneOwner
  <2>10. NotYetIn'
    <3>1. ASSUME NEW f \in Net, Locked(net'[f].pc) PROVE ~inRoom[net'[f].sess]
      BY <1>0, <2>1, <3>1 DEF NotYetIn, Locked
    <3>2. ASSUME NEW f \in Net, NEW t \in mySessions'[f], ~inRoom[t],
                 ~(net'[f].pc \in {"pushLeave", "release"} /\ net'[f].sess = t)
          PROVE  ~HeldIn(Where', t)
      <4>1. t \in mySessions[f] /\ t \in Sess BY <2>5
      <4>2. ~(net[f].pc \in {"pushLeave", "release"} /\ net[f].sess = t)
        <5>1. CASE f = e BY <2>0, <2>5, <3>2, <5>1
        <5>2. CASE f # e BY <2>1, <3>2, <5>2
        <5> QED BY <5>1, <5>2
      <4> QED BY <1>0, <2>3, <3>2, <4>1, <4>2 DEF NotYetIn
    <3> QED BY <2>1, <3>1, <3>2 DEF NotYetIn
  <2>11. RefsExact'
    <3> SUFFICES ASSUME NEW t \in Sess
                 PROVE  /\ refs'[t] = One(NetHeld(t)') + One(HeldIn(Where', t))
                        /\ t \in free' <=> refs'[t] = 0
      BY DEF RefsExact
    <3>1. refs[t] = One(NetHeld(t)) + One(HeldIn(Where, t)) /\ (t \in free <=> refs[t] = 0)
      BY <1>0 DEF RefsExact
    <3>2. CASE t = s
      BY <1>0, <2>3, <2>6, <2>7, <3>1, <3>2 DEF One, PoolTypeOK
    <3>3. CASE t # s
      <4>1. NetHeld(t)' <=> NetHeld(t) BY <2>5, <3>3 DEF NetHeld
      <4>2. refs'[t] = refs[t] /\ (t \in free' <=> t \in free) BY <1>0, <2>6, <3>3 DEF PoolTypeOK
      <4>3. HeldIn(Where', t) <=> HeldIn(Where, t) BY <2>3
      <4> QED BY <3>1, <4>1, <4>2, <4>3 DEF One
    <3> QED BY <3>2, <3>3
  <2> QED BY <2>3, <2>8, <2>9, <2>10, <2>11 DEF HoldInv
<1>12. ASSUME NEW w \in Game, DrainRoomAddQ(w) PROVE HoldInv'
  <2>1. Stays
    BY <1>12, DrainRoomAddQEffect, EntriesStay DEF GameAt
  <2>2. UNCHANGED <<free, gen, refs, mySessions, inRoom, net>>
    BY <1>12, DrainRoomAddQEffect
  <2> QED BY <2>1, <2>2, StillStep
<1>13. ASSUME NEW w \in Game, NEW r \in todo[w], SwapQueues(w, r) PROVE HoldInv'
  <2>1. UNCHANGED <<free, gen, refs, mySessions, inRoom, net>>
    BY <1>13, SwapQueuesEffect
  <2> QED BY <1>13, <2>1, SwapMoves, MovesStep
<1>14. ASSUME NEW w \in Game, NEW j \in game[w].joins, InstallMember(w, j) PROVE HoldInv'
  <2>1. UNCHANGED <<free, gen, refs, mySessions, inRoom, net>>
    BY <1>14, InstallMemberEffect
  <2> QED BY <1>14, <2>1, InstallMoves, MovesStep
<1>15. ASSUME NEW w \in Game, NEW j \in game[w].joins, SkipJoin(w, j) PROVE HoldInv'
  <2>1. Drops(AtBatch(w), j)
    BY <1>15, SkipDrops
  <2>2. Release(j.sess) /\ UNCHANGED <<mySessions, inRoom, net>>
    BY <1>15, SkipJoinEffect
  <2> QED BY <2>1, <2>2, DropStep DEF Drops
<1>16. ASSUME NEW w \in Game, NEW l \in game[w].leaves, ProcessLeave(w, l) PROVE HoldInv'
  <2>1. UNCHANGED <<mySessions, inRoom, net>>
    BY <1>16, ProcessLeaveEffect
  <2>2. CASE \E m \in members[game[w].cur] :
                 Matches(m, l) /\ Release(m.sess) /\ Drops(AtMember(game[w].cur), m)
    BY <2>1, <2>2, DropStep DEF Drops
  <2>3. CASE Stays /\ UNCHANGED <<free, gen, refs>>
    BY <2>1, <2>3, StillStep
  <2> QED BY <1>16, <2>2, <2>3, LeaveDrops
<1>17. ASSUME NEW w \in Game, DeathCheck(w) PROVE HoldInv'
  <2>1. /\ UNCHANGED <<free, gen, refs, mySessions, inRoom, net, members, pendingJoin>>
        /\ \A v \in Game : game'[v].joins = game[v].joins
    BY <1>17, DeathCheckEffect DEF GameAt, LockInv, BatchInUse
  <2> QED BY <2>1, EntriesStay, StillStep
<1>18. ASSUME NEW w \in Game, ReapRoom(w) PROVE HoldInv'
  <2>1. /\ UNCHANGED <<free, gen, refs, mySessions, inRoom, net, members, pendingJoin>>
        /\ \A v \in Game : game'[v].joins = game[v].joins
    BY <1>18, ReapRoomEffect DEF GameAt, LockInv, BatchInUse
  <2> QED BY <2>1, EntriesStay, StillStep
<1>19. ASSUME NEW w \in Game, RoomTick(w) PROVE HoldInv'
  <2>1. /\ UNCHANGED <<free, gen, refs, mySessions, inRoom, net, members, pendingJoin>>
        /\ \A v \in Game : game'[v].joins = game[v].joins
    BY <1>19, RoomTickEffect DEF GameAt, LockInv, BatchInUse
  <2> QED BY <2>1, EntriesStay, StillStep
<1>20. ASSUME NEW w \in Game, TransferBegin(w) PROVE HoldInv'
  <2>1. UNCHANGED <<free, gen, refs, mySessions, inRoom, net>>
    BY <1>20, TransferBeginEffect
  <2> QED BY <1>20, <2>1, BeginMoves, MovesStep
<1>21. ASSUME NEW w \in Game, NEW m \in members[game[w].cur], TransferMember(w, m) PROVE HoldInv'
  <2>1. UNCHANGED <<free, gen, refs, mySessions, inRoom, net>>
    BY <1>21, TransferMemberEffect
  <2> QED BY <1>21, <2>1, MemberMoves, MovesStep
<1>22. ASSUME NEW w \in Game, TransferEnd(w) PROVE HoldInv'
  <2>1. UNCHANGED <<free, gen, refs, mySessions, inRoom, net>>
    BY <1>22, TransferEndEffect
  <2> QED BY <1>22, <2>1, EndMoves, MovesStep
<1>23. CASE UNCHANGED vars
  <2>1. UNCHANGED <<free, gen, refs, mySessions, inRoom, net, members, pendingJoin, game>>
    BY <1>23 DEF vars, poolVars, sessVars, roomVars, queueVars, memberVars, gameVars
  <2> QED BY <2>1, EntriesStay, StillStep
<1>24. ASSUME NEW e \in Net, ServeStep(e) PROVE HoldInv'
  <2>1. /\ UNCHANGED <<free, gen, refs, mySessions, inRoom, members, pendingJoin, game>>
        /\ net[e].pc \in {"idle", "serve"} /\ net'[e].pc \in {"idle", "serve"}
        /\ \A f \in Net : f # e => net'[f] = net[f]
    BY <1>24, ServeEffect
  <2>2. Stays
    BY <2>1, EntriesStay
  <2>3. NotYetIn'
    BY <1>0, <2>1, <2>2 DEF NotYetIn, HeldIn, Stays, Locked
  <2> QED BY <2>1, <2>2, <2>3, StaysStep
<1> QED
  BY <1>1, <1>2, <1>3, <1>4, <1>5, <1>6, <1>7, <1>8, <1>9, <1>10, <1>11, <1>12,
     <1>13, <1>14, <1>15, <1>16, <1>17, <1>18, <1>19, <1>20, <1>21, <1>22, <1>23,
     <1>24 DEF Next, NetStep, ServeStep, GameStep

(* Every session is in one place at most and its reference count is exact,      *)
(* however Join, Disconnect, ProcessRoomQueues and TransferRoom interleave, as  *)
(* long as no slot is handed out while a worker is inside HandleSession for it  *)
(* (Session.cpp: Release; RoomManager.cpp).                                     *)
THEOREM HoldersSound == PatientSpec => []HoldInv
<1>1. TypeOK /\ TypeOK' /\ LockInv /\ HandInv /\ SeatInv /\ HoldInv /\ [Next]_vars => HoldInv'
  BY HoldStep
<1> QED BY HoldInit, <1>1, TypeCorrect, LockHolder, RoomsInHand, SeatsSound, PTL DEF Spec, PatientSpec

--------------------------------------------------------------------------------
(* Sixth layer: a leave entry names a session that has gone.                    *)

(* The leave entry l names a past generation, or a session that is dead.        *)
OldLeave(l) == /\ l.gen <= gen[l.sess]
               /\ l.gen = gen[l.sess] => dead[l.sess] /\ l.sess \notin free

(* The leave entry l is in a queue or a batch.                                  *)
LeaveQueued(l) == (\E r \in Rooms : l \in pendingLeave[r]) \/ (\E w \in Game : l \in game[w].leaves)

(* Every leave entry names a session that has gone.                             *)
LeavesOld == \A l \in LeaveEntry : LeaveQueued(l) => OldLeave(l)

(* A worker in Disconnect has raised dead.                                      *)
Leaving == \A e \in Net : net[e].pc \in {"leave", "pushLeave", "release"} => dead[net[e].sess]

(* Sixth layer of the inductive invariant.                                      *)
LeaveInv == LeavesOld /\ Leaving

(* At the start there is no leave entry.                                        *)
LEMMA LeaveInit == Init => LeaveInv
<1> SUFFICES ASSUME Init PROVE LeaveInv OBVIOUS
<1>1. \A l : ~LeaveQueued(l)
  BY DEF Init, LeaveQueued, BetweenRooms
<1>2. Leaving
  BY DEF Init, Leaving, NetIdle
<1> QED BY <1>1, <1>2 DEF LeaveInv, LeavesOld

(* A step that touches no leave entry and no session keeps LeavesOld.           *)
LEMMA LeavesSame ==
    ASSUME LeavesOld, UNCHANGED <<pendingLeave, free, gen, dead>>,
           \A v \in Game : game'[v].leaves = game[v].leaves
    PROVE  LeavesOld'
BY DEF LeavesOld, LeaveQueued, OldLeave

(* A step that adds no leave entry and revives no session keeps LeavesOld.      *)
LEMMA LeavesKept ==
    ASSUME LeavesOld, \A l \in LeaveEntry : LeaveQueued(l)' => LeaveQueued(l),
           \A l \in LeaveEntry : OldLeave(l) => OldLeave(l)'
    PROVE  LeavesOld'
BY DEF LeavesOld

(* A reference that is given back makes no leave entry younger.                 *)
LEMMA OlderByRelease ==
    ASSUME TypeOK, NEW s \in Sess, Release(s), NEW l \in LeaveEntry, OldLeave(l)
    PROVE  OldLeave(l)'
<1>1. l.sess \in Sess /\ l.gen \in Nat
  BY EntryTyped
<1>2. dead' = dead
  BY DEF Release
<1>3. CASE refs[s] = 1
  <2>1. gen' = [gen EXCEPT ![s] = @ + 1] /\ free' = free \cup {s}
    BY <1>3 DEF Release
  <2>2. gen'[l.sess] = IF l.sess = s THEN gen[l.sess] + 1 ELSE gen[l.sess]
    BY <1>1, <2>1 DEF TypeOK, PoolTypeOK
  <2> QED BY <1>1, <1>2, <2>1, <2>2 DEF OldLeave, TypeOK, PoolTypeOK
<1>4. CASE refs[s] # 1
  <2>1. gen' = gen /\ free' = free
    BY <1>4 DEF Release
  <2> QED BY <1>2, <2>1 DEF OldLeave
<1> QED BY <1>3, <1>4

(* Every step keeps the leave entries old.                                      *)
LEMMA LeaveStep ==
    TypeOK /\ TypeOK' /\ LockInv /\ HandInv /\ SeatInv /\ HoldInv /\ LeaveInv
    /\ [Next]_vars => LeaveInv'
<1> SUFFICES ASSUME TypeOK, TypeOK', LockInv, HandInv, SeatInv, HoldInv, LeaveInv,
                    [Next]_vars
             PROVE  LeaveInv'
  OBVIOUS
<1>0. /\ FrameTypeOK /\ PoolTypeOK /\ SessTypeOK /\ QueueTypeOK /\ LeavesOld /\ Leaving
      /\ \A e \in Net : net[e].pc \notin {"idle", "serve"} => net[e].sess \in mySessions[e]
  BY DEF TypeOK, LeaveInv, LockInv, NetHasSession
<1>1. ASSUME NEW e \in Net, NEW s \in Sess, Accept(e, s) PROVE LeaveInv'
  <2>1. /\ s \in free /\ free' = free \ {s} /\ dead' = [dead EXCEPT ![s] = FALSE]
        /\ UNCHANGED <<gen, pendingLeave, net, game>>
    BY <1>1, AcceptEffect
  <2>2. \A f \in Net : s \notin mySessions[f]
    BY <2>1, FreeSession
  <2>3. \A t \in Sess : t # s => dead'[t] = dead[t]
    BY <1>0, <2>1 DEF PoolTypeOK
  <2>4. \A l \in LeaveEntry : OldLeave(l) => OldLeave(l)'
    BY <2>1, <2>3, EntryTyped DEF OldLeave
  <2>5. LeavesOld'
    BY <1>0, <2>1, <2>4, LeavesKept DEF LeaveQueued
  <2>6. Leaving'
    <3> SUFFICES ASSUME NEW f \in Net, net[f].pc \in {"leave", "pushLeave", "release"}
                 PROVE  dead'[net[f].sess]
      BY <2>1 DEF Leaving
    <3>1. dead[net[f].sess] /\ net[f].sess \in mySessions[f] /\ net[f].sess \in Sess
      BY <1>0, NetTyped DEF Leaving
    <3> QED BY <2>2, <2>3, <3>1
  <2> QED BY <2>5, <2>6 DEF LeaveInv
<1>2. ASSUME NEW e \in Net, NEW s \in Sess, AcceptAborted(e, s) PROVE LeaveInv'
  <2>1. /\ dead' = [dead EXCEPT ![s] = TRUE] /\ gen' = [gen EXCEPT ![s] = @ + 1]
        /\ UNCHANGED <<free, pendingLeave, net, game>>
    BY <1>2, AcceptAbortedEffect
  <2>2. /\ dead'[s] /\ \A t \in Sess : t # s => dead'[t] = dead[t]
        /\ gen'[s] = gen[s] + 1 /\ \A t \in Sess : t # s => gen'[t] = gen[t]
        /\ \A t \in Sess : gen[t] \in Nat
    BY <1>0, <2>1 DEF PoolTypeOK
  <2>3. ASSUME NEW l \in LeaveEntry, OldLeave(l) PROVE OldLeave(l)'
    <3>1. l.sess \in Sess /\ l.gen \in Nat BY EntryTyped
    <3>2. CASE l.sess = s BY <2>1, <2>2, <2>3, <3>1, <3>2 DEF OldLeave
    <3>3. CASE l.sess # s BY <2>1, <2>2, <2>3, <3>1, <3>3 DEF OldLeave
    <3> QED BY <3>2, <3>3
  <2>4. LeavesOld'
    BY <1>0, <2>1, <2>3, LeavesKept DEF LeaveQueued
  <2>5. Leaving'
    BY <1>0, <2>1, <2>2, NetTyped DEF Leaving
  <2> QED BY <2>4, <2>5 DEF LeaveInv
<1>3. ASSUME NEW e \in Net, NEW s \in Sess, JoinReserve(e, s) PROVE LeaveInv'
  <2>1. /\ UNCHANGED <<pendingLeave, free, gen, dead, game>>
        /\ net'[e].pc = "enter" /\ \A f \in Net : f # e => net'[f] = net[f]
    BY <1>3, JoinReserveEffect DEF NetAt
  <2>2. LeavesOld'
    BY <1>0, <2>1, LeavesSame
  <2>3. Leaving'
    BY <1>0, <2>1 DEF Leaving
  <2> QED BY <2>2, <2>3 DEF LeaveInv
<1>4. ASSUME NEW e \in Net, NEW s \in Sess, JoinAlloc(e, s) PROVE LeaveInv'
  <2>1. /\ UNCHANGED <<free, gen, dead, game>>
        /\ net'[e].pc = "reserve0" /\ \A f \in Net : f # e => net'[f] = net[f]
    BY <1>4, JoinAllocEffect DEF NetAt
  <2>2. \A r \in Rooms : pendingLeave'[r] \subseteq pendingLeave[r]
    <3>1. PICK r \in Rooms, w \in Game : AllocRoomSlotLocked(r, w, {})
      BY <1>4, JoinAllocEffect
    <3>2. {} \in SUBSET Rooms OBVIOUS
    <3>3. pendingLeave'[r] = {} /\ \A x \in Rooms : x # r => pendingLeave'[x] = pendingLeave[x]
      BY <3>1, <3>2, AllocEffect
    <3> QED BY <3>3
  <2>3. LeavesOld'
    BY <1>0, <2>1, <2>2 DEF LeavesOld, LeaveQueued, OldLeave
  <2>4. Leaving'
    BY <1>0, <2>1 DEF Leaving
  <2> QED BY <2>3, <2>4 DEF LeaveInv
<1>5. ASSUME NEW e \in Net, NEW s \in Sess, JoinFail(e, s) PROVE LeaveInv'
  <2>1. /\ UNCHANGED <<pendingLeave, free, gen, dead, net>>
        /\ \A v \in Game : game'[v].leaves = game[v].leaves
    BY <1>5, JoinFailEffect DEF GameAt, LockInv, BatchInUse
  <2> QED BY <1>0, <2>1, LeavesSame DEF LeaveInv, Leaving
<1>6. ASSUME NEW e \in Net, NEW s \in Sess, Disconnect(e, s) PROVE LeaveInv'
  <2>1. /\ dead' = [dead EXCEPT ![s] = TRUE]
        /\ net'[e].pc = "leave" /\ net'[e].sess = s /\ \A f \in Net : f # e => net'[f] = net[f]
        /\ UNCHANGED <<free, gen, pendingLeave, game>>
    BY <1>6, DisconnectEffect DEF NetAt
  <2>2. dead'[s] /\ \A t \in Sess : dead[t] => dead'[t]
    BY <1>0, <2>1 DEF PoolTypeOK
  <2>3. \A l \in LeaveEntry : OldLeave(l) => OldLeave(l)'
    BY <2>1, <2>2, EntryTyped DEF OldLeave
  <2>4. LeavesOld'
    BY <1>0, <2>1, <2>3, LeavesKept DEF LeaveQueued
  <2>5. Leaving'
    BY <1>0, <2>1, <2>2, NetTyped DEF Leaving
  <2> QED BY <2>4, <2>5 DEF LeaveInv
<1>7. ASSUME NEW e \in Net, JoinReserveFirst(e) PROVE LeaveInv'
  <2>1. /\ UNCHANGED <<pendingLeave, free, gen, dead, game>>
        /\ net'[e].pc = "enter" /\ \A f \in Net : f # e => net'[f] = net[f]
    BY <1>7, JoinReserveFirstEffect DEF NetAt
  <2>2. LeavesOld'
    BY <1>0, <2>1, LeavesSame
  <2>3. Leaving'
    BY <1>0, <2>1 DEF Leaving
  <2> QED BY <2>2, <2>3 DEF LeaveInv
<1>8. ASSUME NEW e \in Net, JoinEnter(e) PROVE LeaveInv'
  <2>1. /\ UNCHANGED <<pendingLeave, free, gen, dead, game>>
        /\ net'[e].pc = "serve" /\ \A f \in Net : f # e => net'[f] = net[f]
    BY <1>8, JoinEnterEffect DEF NetAt
  <2>2. LeavesOld'
    BY <1>0, <2>1, LeavesSame
  <2>3. Leaving'
    BY <1>0, <2>1 DEF Leaving
  <2> QED BY <2>2, <2>3 DEF LeaveInv
<1>9. ASSUME NEW e \in Net, OnSessionLeave(e) PROVE LeaveInv'
  <2>1. /\ UNCHANGED <<pendingLeave, free, gen, dead, game>>
        /\ net[e].pc = "leave" /\ net'[e].sess = net[e].sess
        /\ \A f \in Net : f # e => net'[f] = net[f]
    BY <1>9, OnSessionLeaveEffect DEF NetAt
  <2>2. LeavesOld'
    BY <1>0, <2>1, LeavesSame
  <2>3. Leaving'
    BY <1>0, <2>1 DEF Leaving
  <2> QED BY <2>2, <2>3 DEF LeaveInv
<1>10. ASSUME NEW e \in Net, PushLeave(e) PROVE LeaveInv'
  <2>0. PICK s \in Sess, r \in Rooms : s = net[e].sess /\ r = net[e].room
    BY <1>0, NetTyped
  <2>1. /\ UNCHANGED <<free, gen, dead, game>>
        /\ net[e].pc = "pushLeave" /\ net'[e].sess = s
        /\ \A f \in Net : f # e => net'[f] = net[f]
        /\ pendingLeave' = [pendingLeave EXCEPT ![r] = @ \cup {LeaveOf(s)}]
    BY <1>10, <2>0, PushLeaveEffect DEF NetAt
  <2>2. dead[s]
    BY <1>0, <2>0, <2>1 DEF Leaving
  <2>3. s \notin free
    BY <1>0, <2>0, <2>1, FreeSession
  <2>4. OldLeave(LeaveOf(s))
    BY <1>0, <2>2, <2>3 DEF OldLeave, LeaveOf, PoolTypeOK
  <2>5. ASSUME NEW l \in LeaveEntry, LeaveQueued(l)' PROVE OldLeave(l)'
    <3>1. LeaveQueued(l) \/ l = LeaveOf(s)
      BY <1>0, <2>1, <2>5 DEF LeaveQueued, QueueTypeOK
    <3>2. OldLeave(l)
      BY <1>0, <2>4, <3>1 DEF LeavesOld
    <3> QED BY <2>1, <3>2 DEF OldLeave
  <2>6. Leaving'
    BY <1>0, <2>0, <2>1, <2>2 DEF Leaving
  <2> QED BY <2>5, <2>6 DEF LeaveInv, LeavesOld
<1>11. ASSUME NEW e \in Net, ReleaseNetRef(e) PROVE LeaveInv'
  <2>0. PICK s \in Sess : s = net[e].sess
    BY <1>0, NetTyped
  <2>1. /\ Release(s) /\ UNCHANGED <<dead, pendingLeave, game>>
        /\ net'[e].pc = "serve" /\ \A f \in Net : f # e => net'[f] = net[f]
    BY <1>11, <2>0, ReleaseNetRefEffect DEF NetAt
  <2>2. LeavesOld'
    BY <1>0, <2>1, LeavesKept, OlderByRelease DEF LeaveQueued
  <2>3. Leaving'
    BY <1>0, <2>1 DEF Leaving
  <2> QED BY <2>2, <2>3 DEF LeaveInv
<1>12. ASSUME NEW w \in Game, DrainRoomAddQ(w) PROVE LeaveInv'
  <2>1. /\ UNCHANGED <<pendingLeave, free, gen, dead, net>>
        /\ \A v \in Game : game'[v].leaves = game[v].leaves
    BY <1>12, DrainRoomAddQEffect DEF GameAt, LockInv, BatchInUse
  <2> QED BY <1>0, <2>1, LeavesSame DEF LeaveInv, Leaving
<1>13. ASSUME NEW w \in Game, NEW r \in todo[w], SwapQueues(w, r) PROVE LeaveInv'
  <2>0. r \in Rooms
    BY <1>0 DEF FrameTypeOK
  <2>1. /\ UNCHANGED <<free, gen, dead, net>>
        /\ pendingLeave' = [pendingLeave EXCEPT ![r] = {}]
        /\ game'[w].leaves = pendingLeave[r] /\ \A v \in Game : v # w => game'[v] = game[v]
    BY <1>13, SwapQueuesEffect DEF GameAt
  <2>2. \A l \in LeaveEntry : LeaveQueued(l)' => LeaveQueued(l)
    BY <1>0, <2>0, <2>1 DEF LeaveQueued, QueueTypeOK
  <2>3. LeavesOld'
    BY <1>0, <2>1, <2>2, LeavesKept DEF OldLeave
  <2> QED BY <1>0, <2>1, <2>3 DEF LeaveInv, Leaving
<1>14. ASSUME NEW w \in Game, NEW j \in game[w].joins, InstallMember(w, j) PROVE LeaveInv'
  <2>1. /\ UNCHANGED <<pendingLeave, free, gen, dead, net>>
        /\ \A v \in Game : game'[v].leaves = game[v].leaves
    BY <1>14, InstallMemberEffect DEF GameAt, LockInv, BatchInUse
  <2> QED BY <1>0, <2>1, LeavesSame DEF LeaveInv, Leaving
<1>15. ASSUME NEW w \in Game, NEW j \in game[w].joins, SkipJoin(w, j) PROVE LeaveInv'
  <2>0. PICK s \in Sess : s = j.sess
    BY <1>0, GameTyped, EntryTyped
  <2>1. /\ Release(s) /\ UNCHANGED <<dead, pendingLeave, net>>
        /\ \A v \in Game : game'[v].leaves = game[v].leaves
    BY <1>15, <2>0, SkipJoinEffect DEF GameAt
  <2>2. LeavesOld'
    BY <1>0, <2>1, LeavesKept, OlderByRelease DEF LeaveQueued
  <2> QED BY <1>0, <2>1, <2>2 DEF LeaveInv, Leaving
<1>16. ASSUME NEW w \in Game, NEW l \in game[w].leaves, ProcessLeave(w, l) PROVE LeaveInv'
  <2>1. /\ UNCHANGED <<dead, pendingLeave, net>>
        /\ game'[w].leaves = game[w].leaves \ {l} /\ \A v \in Game : v # w => game'[v] = game[v]
    BY <1>16, ProcessLeaveEffect DEF GameAt
  <2>2. \A k \in LeaveEntry : LeaveQueued(k)' => LeaveQueued(k)
    BY <2>1 DEF LeaveQueued
  <2>3. \A k \in LeaveEntry : OldLeave(k) => OldLeave(k)'
    <3>1. CASE \E m \in members[game[w].cur] : Release(m.sess)
      <4>1. \A m \in members[game[w].cur] : m.sess \in Sess
        BY <1>0, GameTyped, EntryTyped DEF TypeOK, MemberTypeOK
      <4> QED BY <3>1, <4>1, OlderByRelease
    <3>2. CASE UNCHANGED <<free, gen, refs>>
      BY <2>1, <3>2 DEF OldLeave
    <3> QED BY <1>16, <3>1, <3>2, LeaveDrops
  <2>4. LeavesOld'
    BY <1>0, <2>2, <2>3, LeavesKept
  <2> QED BY <1>0, <2>1, <2>4 DEF LeaveInv, Leaving
<1>17. ASSUME NEW w \in Game, DeathCheck(w) PROVE LeaveInv'
  <2>1. /\ UNCHANGED <<pendingLeave, free, gen, dead, net>>
        /\ \A v \in Game : game'[v].leaves = game[v].leaves
    BY <1>17, DeathCheckEffect DEF GameAt, LockInv, BatchInUse
  <2> QED BY <1>0, <2>1, LeavesSame DEF LeaveInv, Leaving
<1>18. ASSUME NEW w \in Game, ReapRoom(w) PROVE LeaveInv'
  <2>1. /\ UNCHANGED <<pendingLeave, free, gen, dead, net>>
        /\ \A v \in Game : game'[v].leaves = game[v].leaves
    BY <1>18, ReapRoomEffect DEF GameAt, LockInv, BatchInUse
  <2> QED BY <1>0, <2>1, LeavesSame DEF LeaveInv, Leaving
<1>19. ASSUME NEW w \in Game, RoomTick(w) PROVE LeaveInv'
  <2>1. /\ UNCHANGED <<pendingLeave, free, gen, dead, net>>
        /\ \A v \in Game : game'[v].leaves = game[v].leaves
    BY <1>19, RoomTickEffect DEF GameAt, LockInv, BatchInUse
  <2> QED BY <1>0, <2>1, LeavesSame DEF LeaveInv, Leaving
<1>20. ASSUME NEW w \in Game, TransferBegin(w) PROVE LeaveInv'
  <2>0. PICK old \in Rooms : old = game[w].cur
    BY <1>0, GameTyped
  <2>1. PICK new \in Rooms :
           /\ AllocRoomSlotLocked(new, gameWorker[old], {old})
           /\ GameAt(w, "move", old, new, pendingJoin[old], pendingLeave[old])
    BY <1>20, <2>0, TransferBeginEffect
  <2>2. UNCHANGED <<free, gen, dead, net>>
    BY <1>20, TransferBeginEffect
  <2>3. \A x \in Rooms : pendingLeave'[x] \subseteq pendingLeave[x]
    <3>1. {old} \in SUBSET Rooms /\ gameWorker[old] \in Game
      BY DEF TypeOK, MgrTypeOK
    <3>2. \A x \in {old, new} : pendingLeave'[x] = {}
      BY <2>1, <3>1, AllocEffect
    <3>3. \A x \in Rooms : x \notin {old, new} => pendingLeave'[x] = pendingLeave[x]
      BY <2>1, <3>1, AllocEffect
    <3> QED BY <3>2, <3>3
  <2>4. game'[w].leaves = pendingLeave[old] /\ \A v \in Game : v # w => game'[v] = game[v]
    BY <2>1 DEF GameAt
  <2>5. \A l \in LeaveEntry : LeaveQueued(l)' => LeaveQueued(l)
    BY <2>3, <2>4 DEF LeaveQueued
  <2>6. LeavesOld'
    BY <1>0, <2>2, <2>5, LeavesKept DEF OldLeave
  <2> QED BY <1>0, <2>2, <2>6 DEF LeaveInv, Leaving
<1>21. ASSUME NEW w \in Game, NEW m \in members[game[w].cur], TransferMember(w, m) PROVE LeaveInv'
  <2>1. /\ UNCHANGED <<pendingLeave, free, gen, dead, net>>
        /\ \A v \in Game : game'[v].leaves = game[v].leaves
    BY <1>21, TransferMemberEffect DEF GameAt, LockInv, BatchInUse
  <2> QED BY <1>0, <2>1, LeavesSame DEF LeaveInv, Leaving
<1>22. ASSUME NEW w \in Game, TransferEnd(w) PROVE LeaveInv'
  <2>0. PICK new \in Rooms : new = game[w].nr
    BY <1>0, GameTyped
  <2>1. /\ UNCHANGED <<free, gen, dead, net>>
        /\ pendingLeave' = [pendingLeave EXCEPT ![new] = @ \cup game[w].leaves]
        /\ game'[w].leaves = {} /\ \A v \in Game : v # w => game'[v] = game[v]
    BY <1>22, <2>0, TransferEndEffect DEF GameAt
  <2>2. \A l \in LeaveEntry : LeaveQueued(l)' => LeaveQueued(l)
    BY <1>0, <2>0, <2>1 DEF LeaveQueued, QueueTypeOK
  <2>3. LeavesOld'
    BY <1>0, <2>1, <2>2, LeavesKept DEF OldLeave
  <2> QED BY <1>0, <2>1, <2>3 DEF LeaveInv, Leaving
<1>23. CASE UNCHANGED vars
  <2>1. UNCHANGED <<free, gen, dead, pendingLeave, net, game>>
    BY <1>23 DEF vars, poolVars, roomVars, queueVars, gameVars
  <2> QED BY <1>0, <2>1, LeavesSame DEF LeaveInv, Leaving
<1>24. ASSUME NEW e \in Net, ServeStep(e) PROVE LeaveInv'
  <2>1. /\ UNCHANGED <<pendingLeave, free, gen, dead, game>>
        /\ net'[e].pc \in {"idle", "serve"} /\ \A f \in Net : f # e => net'[f] = net[f]
    BY <1>24, ServeEffect
  <2>2. LeavesOld'
    BY <1>0, <2>1, LeavesSame
  <2>3. Leaving'
    BY <1>0, <2>1 DEF Leaving
  <2> QED BY <2>2, <2>3 DEF LeaveInv
<1> QED
  BY <1>1, <1>2, <1>3, <1>4, <1>5, <1>6, <1>7, <1>8, <1>9, <1>10, <1>11, <1>12,
     <1>13, <1>14, <1>15, <1>16, <1>17, <1>18, <1>19, <1>20, <1>21, <1>22, <1>23,
     <1>24 DEF Next, NetStep, ServeStep, GameStep

(* No leave entry ever names a living session, so ProcessRoomQueues throws      *)
(* nobody out who has not left, even when a slot was recycled in between        *)
(* (RoomManager.cpp: ProcessRoomQueues, OnSessionLeave).                        *)
THEOREM LeavesSound == PatientSpec => []LeaveInv
<1>1. /\ TypeOK /\ TypeOK' /\ LockInv /\ HandInv /\ SeatInv /\ HoldInv /\ LeaveInv /\ [Next]_vars
      => LeaveInv'
  BY LeaveStep
<1> QED BY LeaveInit, <1>1, TypeCorrect, LockHolder, RoomsInHand, SeatsSound, HoldersSound,
           PTL DEF Spec, PatientSpec

--------------------------------------------------------------------------------
(* Seventh layer: where a session is told it is, it is.                         *)

(* The session of entry x of place p was told its seat, and the room of p       *)
(* unless that is being moved.                                                  *)
Right(p, x) ==
    /\ x.seat = actorId[x.sess]
    /\ \E r \in Rooms : RoomOf(p) = r /\ (Moving(r) \/ r = roomIdx[x.sess])

(* The session of every entry was told where it is.                             *)
Routed == \A p \in Place : \A x \in Where[p] : Right(p, x)

(* A member that a transfer has moved was told the new room.                    *)
MovedOn == \A w \in Game : game[w].pc = "move" =>
               \A m \in members[game[w].nr] : roomIdx[m.sess] = game[w].nr

(* A living session that believes it is in a room has an entry.                 *)
Present == \A s \in Sess : inRoom[s] /\ ~dead[s] => HeldIn(Where, s)

(* Seventh layer of the inductive invariant.                                    *)
RouteInv == Routed /\ MovedOn /\ Present

(* At the start there is no entry and nobody believes to be in a room.          *)
LEMMA RouteInit == Init => RouteInv
<1> SUFFICES ASSUME Init PROVE RouteInv OBVIOUS
<1>1. \A p \in Place : Where[p] = {}
  BY WhereIs, PlaceCases DEF Init, BetweenRooms
<1>2. Routed
  BY <1>1 DEF Routed
<1>3. MovedOn /\ Present
  BY DEF Init, MovedOn, Present, BetweenRooms
<1> QED BY <1>2, <1>3 DEF RouteInv

(* The room of each kind of place.                                              *)
LEMMA RoomOfIs ==
    /\ \A r : RoomOf(AtMember(r)) = r /\ RoomOf(AtPending(r)) = r
    /\ \A w : RoomOf(AtBatch(w)) = game[w].cur
BY DEF RoomOf, AtMember, AtPending, AtBatch

(* The same, after a step.                                                      *)
LEMMA RoomOfIsNext ==
    /\ \A r : RoomOf(AtMember(r))' = r /\ RoomOf(AtPending(r))' = r
    /\ \A w : RoomOf(AtBatch(w))' = game'[w].cur
BY DEF RoomOf, AtMember, AtPending, AtBatch

(* A step of an epoll worker begins or ends no transfer.                        *)
LEMMA NetSameRooms ==
    ASSUME game' = game
    PROVE  /\ \A r : Moving(r) <=> Moving(r)'
           /\ \A p \in Place : RoomOf(p)' = RoomOf(p)
<1>1. \A r : Moving(r) <=> Moving(r)'
  BY DEF Moving
<1>2. \A p \in Place : RoomOf(p)' = RoomOf(p)
  BY DEF RoomOf
<1> QED BY <1>1, <1>2

(* A game worker outside a transfer changes the room of no place but its        *)
(* batch.                                                                       *)
LEMMA GameSameRooms ==
    ASSUME NEW w \in Game, \A v \in Game : v # w => game'[v] = game[v],
           game[w].pc # "move", game'[w].pc # "move"
    PROVE  /\ \A r : Moving(r) <=> Moving(r)'
           /\ \A p \in Place : p # AtBatch(w) => RoomOf(p)' = RoomOf(p)
<1>1. \A r : Moving(r) <=> Moving(r)'
  BY DEF Moving
<1>2. \A p \in Place : p # AtBatch(w) => RoomOf(p)' = RoomOf(p)
  BY PlaceCases, RoomOfIs, RoomOfIsNext
<1> QED BY <1>1, <1>2

(* An entry stays right when its room, its seat and what its session was told   *)
(* stay.                                                                        *)
LEMMA StillRight ==
    ASSUME NEW p, NEW q, NEW x, Right(q, x),
           \A r \in Rooms : Moving(r) => Moving(r)', RoomOf(p)' = RoomOf(q),
           actorId'[x.sess] = actorId[x.sess], roomIdx'[x.sess] = roomIdx[x.sess]
    PROVE  Right(p, x)'
<1>1. PICK r \in Rooms : RoomOf(q) = r /\ (Moving(r) \/ r = roomIdx[x.sess])
  BY DEF Right
<1>2. Moving(r) => Moving(r)'
  OBVIOUS
<1>3. RoomOf(p)' = r /\ (Moving(r)' \/ r = roomIdx'[x.sess])
  BY <1>1, <1>2
<1> QED BY <1>3 DEF Right

(* Routed is kept when every entry comes from a place of the same room and      *)
(* its session was told nothing new.                                            *)
LEMMA RoutedFrom ==
    ASSUME Routed, \A r \in Rooms : Moving(r) => Moving(r)',
           \A p \in Place : \A x \in Where'[p] :
               \E q \in Place : /\ x \in Where[q] /\ RoomOf(p)' = RoomOf(q)
                                /\ actorId'[x.sess] = actorId[x.sess]
                                /\ roomIdx'[x.sess] = roomIdx[x.sess]
    PROVE  Routed'
<1> SUFFICES ASSUME NEW p \in Place, NEW x \in Where'[p] PROVE Right(p, x)'
  BY DEF Routed
<1>1. PICK q \in Place : /\ x \in Where[q] /\ RoomOf(p)' = RoomOf(q)
                         /\ actorId'[x.sess] = actorId[x.sess]
                         /\ roomIdx'[x.sess] = roomIdx[x.sess]
  OBVIOUS
<1>2. Right(q, x)
  BY <1>1 DEF Routed
<1> QED BY <1>1, <1>2, StillRight

(* MovedOn is kept by a step that begins no transfer and tells no moved         *)
(* member another room.                                                         *)
LEMMA MovedStays ==
    ASSUME MovedOn,
           \A v \in Game : game'[v].pc = "move" =>
               /\ game'[v] = game[v] /\ members'[game[v].nr] \subseteq members[game[v].nr]
               /\ \A m \in members[game[v].nr] : roomIdx'[m.sess] = roomIdx[m.sess]
    PROVE  MovedOn'
BY DEF MovedOn

(* Present is kept by a step after which nobody more believes to be in a        *)
(* room, and nobody has lost an entry.                                          *)
LEMMA PresentStays ==
    ASSUME Present,
           \A s \in Sess : inRoom'[s] /\ ~dead'[s] =>
               inRoom[s] /\ ~dead[s] /\ (HeldIn(Where, s) => HeldIn(Where', s))
    PROVE  Present'
BY DEF Present

(* RouteInv is kept by an epoll worker's step that touches no entry, no room    *)
(* number and no seat.                                                          *)
LEMMA NetQuiet ==
    ASSUME RouteInv, UNCHANGED <<members, pendingJoin, game, roomIdx, actorId>>,
           \A s \in Sess : inRoom'[s] /\ ~dead'[s] => inRoom[s] /\ ~dead[s]
    PROVE  RouteInv'
<1>1. Stays
  BY EntriesStay
<1>2. Routed'
  BY <1>1, NetSameRooms, RoutedFrom DEF Stays, RouteInv
<1>3. MovedOn'
  BY MovedStays DEF RouteInv
<1>4. Present'
  BY <1>1, PresentStays DEF RouteInv, Stays, HeldIn
<1> QED BY <1>2, <1>3, <1>4 DEF RouteInv

(* RouteInv is kept by a game worker's step outside a transfer that touches     *)
(* no entry and no session.                                                     *)
LEMMA GameQuiet ==
    ASSUME RouteInv, NEW w \in Game, \A v \in Game : v # w => game'[v] = game[v],
           game[w].pc # "move", game'[w].pc # "move", Where[AtBatch(w)] = {}, game'[w].joins = {},
           UNCHANGED <<members, pendingJoin, roomIdx, actorId, inRoom, dead>>
    PROVE  RouteInv'
<1>1. Stays
  <2>1. \A v \in Game : game'[v].joins = game[v].joins
    BY WhereIs
  <2> QED BY <2>1, EntriesStay
<1>2. Routed'
  <2> SUFFICES ASSUME NEW p \in Place, NEW x \in Where'[p]
               PROVE  x \in Where[p] /\ RoomOf(p)' = RoomOf(p)
    BY GameSameRooms, RoutedFrom DEF RouteInv
  <2> QED BY <1>1, GameSameRooms DEF Stays
<1>3. MovedOn'
  BY MovedStays DEF RouteInv
<1>4. Present'
  BY <1>1, PresentStays DEF RouteInv, Stays, HeldIn
<1> QED BY <1>2, <1>3, <1>4 DEF RouteInv

(* Moving entries leaves every session named as it was.                         *)
LEMMA MovesHeld ==
    ASSUME HoldInv, NEW a, NEW b, NEW M, Moves(a, b, M)
    PROVE  OnceIn(Where') /\ \A s \in Sess : HeldIn(Where', s) <=> HeldIn(Where, s)
<1>1. Carried(Where, Where')
  BY MoveCarried DEF HoldInv, Moves
<1> QED BY <1>1 DEF Carried

(* Dropping an entry leaves every other session named as it was.                *)
LEMMA DropsHeld ==
    ASSUME HoldInv, NEW a, NEW x, Drops(a, x)
    PROVE  /\ \A s \in Sess : HeldIn(Where', s) <=> HeldIn(Where, s) /\ s # x.sess
           /\ \A p \in Place : Where'[p] \subseteq Where[p]
BY DropOnce DEF HoldInv, Drops

(* Every step keeps every session where it was told it is.                      *)
LEMMA RouteStep ==
    TypeOK /\ TypeOK' /\ LockInv /\ LockInv' /\ HandInv /\ SeatInv /\ HoldInv
    /\ HoldInv' /\ LeaveInv /\ RouteInv /\ [Next]_vars => RouteInv'
<1> SUFFICES ASSUME TypeOK, TypeOK', LockInv, LockInv', HandInv, SeatInv, HoldInv,
                    HoldInv', LeaveInv, RouteInv, [Next]_vars
             PROVE  RouteInv'
  OBVIOUS
<1>0. /\ FrameTypeOK /\ PoolTypeOK /\ SessTypeOK /\ Routed /\ MovedOn /\ Present
      /\ OnceIn(Where) /\ GenAgrees
      /\ \A p \in Place : \A x \in Where[p] : x \in JoinEntry /\ x.sess \in Sess
  BY WhereTyped, EntryTyped DEF TypeOK, RouteInv, HoldInv, Holders
<1>1. ASSUME NEW e \in Net, NEW s \in Sess, Accept(e, s) PROVE RouteInv'
  <2>1. /\ s \in free /\ UNCHANGED <<members, pendingJoin, game>>
        /\ inRoom' = [inRoom EXCEPT ![s] = FALSE]
        /\ \A t \in Sess : t # s => dead'[t] = dead[t]
    BY <1>0, <1>1, AcceptEffect DEF PoolTypeOK
  <2>2. \A t \in Sess : t # s => roomIdx'[t] = roomIdx[t] /\ actorId'[t] = actorId[t]
    BY <1>0, <1>1 DEF Accept, SessTypeOK
  <2>3. ~HeldIn(Where, s)
    BY <2>1, FreeSession
  <2>4. Stays
    BY <2>1, EntriesStay
  <2>5. ASSUME NEW p \in Place, NEW x \in Where'[p]
        PROVE  /\ x \in Where[p] /\ RoomOf(p)' = RoomOf(p)
               /\ actorId'[x.sess] = actorId[x.sess] /\ roomIdx'[x.sess] = roomIdx[x.sess]
    <3>1. x \in Where[p] BY <2>4 DEF Stays
    <3>2. x.sess \in Sess /\ x.sess # s BY <1>0, <2>3, <3>1 DEF HeldIn
    <3> QED BY <2>1, <2>2, <3>1, <3>2, NetSameRooms
  <2>6. Routed'
    BY <1>0, <2>1, <2>5, NetSameRooms, RoutedFrom
  <2>7. MovedOn'
    <3>1. ASSUME NEW v \in Game, NEW m \in members[game[v].nr] PROVE m.sess \in Sess /\ m.sess # s
      <4>1. game[v].nr \in Rooms BY <1>0, GameTyped
      <4>2. AtMember(game[v].nr) \in Place /\ m \in Where[AtMember(game[v].nr)]
        BY <4>1, PlaceCases, WhereIs
      <4> QED BY <1>0, <2>3, <4>2 DEF HeldIn
    <3> QED BY <1>0, <2>1, <2>2, <3>1, MovedStays
  <2>8. Present'
    <3>1. \A t \in Sess : inRoom'[t] /\ ~dead'[t] => inRoom[t] /\ ~dead[t]
      BY <1>0, <2>1 DEF SessTypeOK
    <3> QED BY <1>0, <2>4, <3>1, PresentStays DEF Stays, HeldIn
  <2> QED BY <2>6, <2>7, <2>8 DEF RouteInv
<1>2. ASSUME NEW e \in Net, NEW s \in Sess, AcceptAborted(e, s) PROVE RouteInv'
  <2>1. /\ s \in free /\ UNCHANGED <<members, pendingJoin, game>>
        /\ inRoom' = [inRoom EXCEPT ![s] = FALSE]
        /\ \A t \in Sess : t # s => dead'[t] = dead[t]
    BY <1>0, <1>2, AcceptAbortedEffect DEF PoolTypeOK
  <2>2. \A t \in Sess : t # s => roomIdx'[t] = roomIdx[t] /\ actorId'[t] = actorId[t]
    BY <1>0, <1>2 DEF AcceptAborted, SessTypeOK
  <2>3. ~HeldIn(Where, s)
    BY <2>1, FreeSession
  <2>4. Stays
    BY <2>1, EntriesStay
  <2>5. ASSUME NEW p \in Place, NEW x \in Where'[p]
        PROVE  /\ x \in Where[p] /\ RoomOf(p)' = RoomOf(p)
               /\ actorId'[x.sess] = actorId[x.sess] /\ roomIdx'[x.sess] = roomIdx[x.sess]
    <3>1. x \in Where[p] BY <2>4 DEF Stays
    <3>2. x.sess \in Sess /\ x.sess # s BY <1>0, <2>3, <3>1 DEF HeldIn
    <3> QED BY <2>1, <2>2, <3>1, <3>2, NetSameRooms
  <2>6. Routed'
    BY <1>0, <2>1, <2>5, NetSameRooms, RoutedFrom
  <2>7. MovedOn'
    <3>1. ASSUME NEW v \in Game, NEW m \in members[game[v].nr] PROVE m.sess \in Sess /\ m.sess # s
      <4>1. game[v].nr \in Rooms BY <1>0, GameTyped
      <4>2. AtMember(game[v].nr) \in Place /\ m \in Where[AtMember(game[v].nr)]
        BY <4>1, PlaceCases, WhereIs
      <4> QED BY <1>0, <2>3, <4>2 DEF HeldIn
    <3> QED BY <1>0, <2>1, <2>2, <3>1, MovedStays
  <2>8. Present'
    <3>1. \A t \in Sess : inRoom'[t] /\ ~dead'[t] => inRoom[t] /\ ~dead[t]
      BY <1>0, <2>1 DEF SessTypeOK
    <3> QED BY <1>0, <2>4, <3>1, PresentStays DEF Stays, HeldIn
  <2> QED BY <2>6, <2>7, <2>8 DEF RouteInv
<1>3. ASSUME NEW e \in Net, NEW s \in Sess, JoinReserve(e, s) PROVE RouteInv'
  <2>1. /\ UNCHANGED <<members, pendingJoin, game, roomIdx, actorId>>
        /\ UNCHANGED <<inRoom, dead>>
    BY <1>3, JoinReserveEffect
  <2>2. \A t \in Sess : inRoom'[t] /\ ~dead'[t] => inRoom[t] /\ ~dead[t]
    BY <1>0, <2>1, NetTyped DEF SessTypeOK, PoolTypeOK
  <2> QED BY <2>1, <2>2, NetQuiet
<1>4. ASSUME NEW e \in Net, NEW s \in Sess, JoinAlloc(e, s) PROVE RouteInv'
  <2>1. /\ UNCHANGED <<game, roomIdx, actorId, inRoom, dead>>
        /\ ~MgrLockHeld
    BY <1>4, JoinAllocEffect
  <2>2. Stays
    BY <1>4, AllocStays
  <2>3. Routed'
    BY <1>0, <2>1, <2>2, NetSameRooms, RoutedFrom DEF Stays
  <2>4. MovedOn'
    BY <2>1 DEF MovedOn, MgrLockHeld
  <2>5. Present'
    BY <1>0, <2>1, <2>2, PresentStays DEF Stays, HeldIn
  <2> QED BY <2>3, <2>4, <2>5 DEF RouteInv
<1>5. ASSUME NEW e \in Net, NEW s \in Sess, JoinFail(e, s) PROVE RouteInv'
  <2>1. /\ UNCHANGED <<members, pendingJoin, game, roomIdx, actorId>>
        /\ UNCHANGED <<inRoom, dead>>
    BY <1>5, JoinFailEffect
  <2>2. \A t \in Sess : inRoom'[t] /\ ~dead'[t] => inRoom[t] /\ ~dead[t]
    BY <1>0, <2>1, NetTyped DEF SessTypeOK, PoolTypeOK
  <2> QED BY <2>1, <2>2, NetQuiet
<1>6. ASSUME NEW e \in Net, NEW s \in Sess, Disconnect(e, s) PROVE RouteInv'
  <2>1. /\ UNCHANGED <<members, pendingJoin, game, roomIdx, actorId>>
        /\ dead' = [dead EXCEPT ![s] = TRUE] /\ inRoom' = inRoom
    BY <1>6, DisconnectEffect
  <2>2. \A t \in Sess : inRoom'[t] /\ ~dead'[t] => inRoom[t] /\ ~dead[t]
    BY <1>0, <2>1, NetTyped DEF SessTypeOK, PoolTypeOK
  <2> QED BY <2>1, <2>2, NetQuiet
<1>7. ASSUME NEW e \in Net, JoinReserveFirst(e) PROVE RouteInv'
  <2>1. /\ UNCHANGED <<members, pendingJoin, game, roomIdx, actorId>>
        /\ UNCHANGED <<inRoom, dead>>
    BY <1>7, JoinReserveFirstEffect
  <2>2. \A t \in Sess : inRoom'[t] /\ ~dead'[t] => inRoom[t] /\ ~dead[t]
    BY <1>0, <2>1, NetTyped DEF SessTypeOK, PoolTypeOK
  <2> QED BY <2>1, <2>2, NetQuiet
<1>8. ASSUME NEW e \in Net, JoinEnter(e) PROVE RouteInv'
  <2>0. PICK s \in Sess, r \in Rooms : s = net[e].sess /\ r = net[e].room
    BY <1>0, NetTyped
  <2> DEFINE y == Claim(e)
  <2>1. /\ net[e].pc = "enter" /\ pendingJoin' = [pendingJoin EXCEPT ![r] = @ \cup {y}]
        /\ inRoom' = [inRoom EXCEPT ![s] = TRUE] /\ roomIdx' = [roomIdx EXCEPT ![s] = r]
        /\ actorId' = [actorId EXCEPT ![s] = net[e].seat]
        /\ UNCHANGED <<members, game, dead>>
    BY <1>8, <2>0, JoinEnterEffect
  <2>2. ~HeldIn(Where, s)
    <3>1. s \in mySessions[e] BY <2>0, <2>1 DEF LockInv, NetHasSession
    <3> QED BY <2>0, <2>1, <3>1 DEF HoldInv, NotYetIn, Locked
  <2>3. y.sess = s /\ y.seat = net[e].seat
    BY <2>0 DEF Claim
  <2> HIDE DEF y
  <2>4. /\ AtPending(r) \in Place /\ Where'[AtPending(r)] = Where[AtPending(r)] \cup {y}
        /\ \A p \in Place : p # AtPending(r) => Where'[p] = Where[p]
    <3>1. pendingJoin'[r] = pendingJoin[r] \cup {y} /\ \A q \in Rooms : q # r
              => pendingJoin'[q] = pendingJoin[q]
      BY <2>1 DEF TypeOK, QueueTypeOK
    <3>2. \A q \in Rooms : AtPending(q) # AtPending(r) => pendingJoin'[q] = pendingJoin[q]
      BY <3>1
    <3> QED BY <2>1, <3>1, <3>2, PlaceCases, WhereIs, WhereIsNext
  <2>5. /\ roomIdx'[s] = r /\ actorId'[s] = net[e].seat
        /\ \A t \in Sess : t # s => roomIdx'[t] = roomIdx[t] /\ actorId'[t] = actorId[t]
        /\ \A t \in Sess : t # s => inRoom'[t] = inRoom[t]
    BY <1>0, <2>1 DEF SessTypeOK
  <2>6. Routed'
    <3> SUFFICES ASSUME NEW p \in Place, NEW x \in Where'[p] PROVE Right(p, x)'
      BY DEF Routed
    <3>1. CASE x \in Where[p]
      <4>1. x.sess \in Sess /\ x.sess # s BY <1>0, <2>2, <3>1 DEF HeldIn
      <4>2. Right(p, x) BY <1>0, <3>1 DEF Routed
      <4>3. RoomOf(p)' = RoomOf(p) /\ \A q \in Rooms : Moving(q)
                => Moving(q)' BY <2>1, NetSameRooms
      <4> QED BY <2>5, <4>1, <4>2, <4>3, StillRight
    <3>2. CASE x \notin Where[p]
      <4>1. p = AtPending(r) /\ x = y BY <2>4, <3>2
      <4>2. RoomOf(p)' = r BY <4>1, RoomOfIsNext
      <4> QED BY <2>3, <2>5, <4>1, <4>2 DEF Right
    <3> QED BY <3>1, <3>2
  <2>7. MovedOn'
    BY <2>1 DEF MovedOn, LockInv, LockExclusive, Locked
  <2>8. Present'
    <3> SUFFICES ASSUME NEW t \in Sess, inRoom'[t], ~dead'[t] PROVE HeldIn(Where', t)
      BY DEF Present
    <3>1. CASE t = s BY <2>3, <2>4, <3>1 DEF HeldIn
    <3>2. CASE t # s
      <4>1. HeldIn(Where, t) BY <1>0, <2>1, <2>5, <3>2 DEF Present
      <4>2. \A p \in Place : Where[p] \subseteq Where'[p] BY <2>4
      <4> QED BY <4>1, <4>2 DEF HeldIn
    <3> QED BY <3>1, <3>2
  <2> QED BY <2>6, <2>7, <2>8 DEF RouteInv
<1>9. ASSUME NEW e \in Net, OnSessionLeave(e) PROVE RouteInv'
  <2>1. /\ UNCHANGED <<members, pendingJoin, game, roomIdx, actorId>>
        /\ inRoom' = [inRoom EXCEPT ![net[e].sess] = FALSE] /\ dead' = dead
    BY <1>9, OnSessionLeaveEffect
  <2>2. \A t \in Sess : inRoom'[t] /\ ~dead'[t] => inRoom[t] /\ ~dead[t]
    BY <1>0, <2>1, NetTyped DEF SessTypeOK, PoolTypeOK
  <2> QED BY <2>1, <2>2, NetQuiet
<1>10. ASSUME NEW e \in Net, PushLeave(e) PROVE RouteInv'
  <2>1. /\ UNCHANGED <<members, pendingJoin, game, roomIdx, actorId>>
        /\ UNCHANGED <<inRoom, dead>>
    BY <1>10, PushLeaveEffect
  <2>2. \A t \in Sess : inRoom'[t] /\ ~dead'[t] => inRoom[t] /\ ~dead[t]
    BY <1>0, <2>1, NetTyped DEF SessTypeOK, PoolTypeOK
  <2> QED BY <2>1, <2>2, NetQuiet
<1>11. ASSUME NEW e \in Net, ReleaseNetRef(e) PROVE RouteInv'
  <2>1. /\ UNCHANGED <<members, pendingJoin, game, roomIdx, actorId>>
        /\ UNCHANGED <<inRoom, dead>>
    BY <1>11, ReleaseNetRefEffect
  <2>2. \A t \in Sess : inRoom'[t] /\ ~dead'[t] => inRoom[t] /\ ~dead[t]
    BY <1>0, <2>1, NetTyped DEF SessTypeOK, PoolTypeOK
  <2> QED BY <2>1, <2>2, NetQuiet
<1>12. ASSUME NEW w \in Game, DrainRoomAddQ(w) PROVE RouteInv'
  <2>1. /\ UNCHANGED <<members, pendingJoin, game, roomIdx, actorId>>
        /\ UNCHANGED <<inRoom, dead>>
    BY <1>12, DrainRoomAddQEffect
  <2>2. \A t \in Sess : inRoom'[t] /\ ~dead'[t] => inRoom[t] /\ ~dead[t]
    BY <1>0, <2>1, NetTyped DEF SessTypeOK, PoolTypeOK
  <2> QED BY <2>1, <2>2, NetQuiet
<1>13. ASSUME NEW w \in Game, NEW r \in todo[w], SwapQueues(w, r) PROVE RouteInv'
  <2>0. r \in Rooms /\ Where[AtBatch(w)] = {} /\ Moves(AtPending(r), AtBatch(w), pendingJoin[r])
    BY <1>13, SwapMoves
  <2>1. /\ game[w].pc = "rooms" /\ game'[w].pc = "queues" /\ game'[w].cur = r
        /\ \A v \in Game : v # w => game'[v] = game[v]
        /\ UNCHANGED <<members, roomIdx, actorId, inRoom, dead>>
    BY <1>13, SwapQueuesEffect DEF GameAt
  <2>2. /\ \A q \in Rooms : Moving(q) => Moving(q)'
        /\ \A p \in Place : p # AtBatch(w) => RoomOf(p)' = RoomOf(p)
    BY <2>1, GameSameRooms
  <2>3. RoomOf(AtBatch(w))' = RoomOf(AtPending(r))
    BY <2>1, RoomOfIs, RoomOfIsNext
  <2>4. ASSUME NEW p \in Place, NEW x \in Where'[p]
        PROVE  \E q \in Place : x \in Where[q] /\ RoomOf(p)' = RoomOf(q)
    <3>1. CASE p = AtBatch(w) BY <2>0, <2>3, <3>1 DEF Moves
    <3>2. CASE p # AtBatch(w) BY <2>0, <2>2, <3>2 DEF Moves
    <3> QED BY <3>1, <3>2
  <2>5. Routed'
    BY <1>0, <2>1, <2>2, <2>4, RoutedFrom
  <2>6. MovedOn'
    BY <1>0, <2>1, MovedStays
  <2>7. Present'
    BY <1>0, <2>0, <2>1, MovesHeld, PresentStays
  <2> QED BY <2>5, <2>6, <2>7 DEF RouteInv
<1>14. ASSUME NEW w \in Game, NEW j \in game[w].joins, InstallMember(w, j) PROVE RouteInv'
  <2>0. PICK c \in Rooms : c = game[w].cur
    BY <1>0, GameTyped
  <2>1. Moves(AtBatch(w), AtMember(c), {j})
    BY <1>14, <2>0, InstallMoves
  <2>2. /\ game[w].pc = "queues" /\ game'[w].pc = "queues" /\ game'[w].cur = c
        /\ \A v \in Game : v # w => game'[v] = game[v]
        /\ UNCHANGED <<roomIdx, actorId, inRoom, dead>>
    BY <1>14, <2>0, InstallMemberEffect DEF GameAt
  <2>3. members' = [members EXCEPT ![c] = {m \in @ : m.seat # j.seat} \cup {j}]
    BY <1>14, <2>0, InstallMemberEffect
  <2>4. /\ \A q \in Rooms : Moving(q) => Moving(q)'
        /\ \A p \in Place : RoomOf(p)' = RoomOf(p)
    BY <2>0, <2>2, GameSameRooms, RoomOfIs, RoomOfIsNext
  <2>5. RoomOf(AtMember(c)) = RoomOf(AtBatch(w))
    BY <2>0, RoomOfIs
  <2>6. ASSUME NEW p \in Place, NEW x \in Where'[p]
        PROVE  \E q \in Place : x \in Where[q] /\ RoomOf(p)' = RoomOf(q)
    <3>1. CASE x \in Where[p] BY <2>4, <3>1
    <3>2. CASE x \notin Where[p]
      <4>1. p = AtMember(c) /\ x = j /\ j \in Where[AtBatch(w)] /\ AtBatch(w) \in Place
        BY <2>1, <3>2 DEF Moves
      <4> QED BY <2>4, <2>5, <4>1
    <3> QED BY <3>1, <3>2
  <2>7. Routed'
    BY <1>0, <2>2, <2>4, <2>6, RoutedFrom
  <2>8. MovedOn'
    <3>1. ASSUME NEW v \in Game, game'[v].pc = "move"
          PROVE  game'[v] = game[v] /\ members'[game[v].nr] = members[game[v].nr]
      <4>1. v # w /\ game'[v] = game[v] BY <2>2, <3>1
      <4>2. game[v].nr # c /\ game[v].nr \in Rooms BY <2>0, <2>2, <3>1, <4>1, MovingHands
      <4> QED BY <2>3, <4>1, <4>2 DEF TypeOK, MemberTypeOK
    <3> QED BY <1>0, <2>2, <3>1, MovedStays
  <2>9. Present'
    BY <1>0, <2>1, <2>2, MovesHeld, PresentStays
  <2> QED BY <2>7, <2>8, <2>9 DEF RouteInv
<1>15. ASSUME NEW w \in Game, NEW j \in game[w].joins, SkipJoin(w, j) PROVE RouteInv'
  <2>1. Drops(AtBatch(w), j)
    BY <1>15, SkipDrops
  <2>2. /\ game[w].pc = "queues" /\ game'[w].pc = "queues" /\ game'[w].cur = game[w].cur
        /\ \A v \in Game : v # w => game'[v] = game[v]
        /\ ~StillThere(j)
        /\ UNCHANGED <<members, roomIdx, actorId, inRoom, dead>>
    BY <1>15, SkipJoinEffect DEF GameAt
  <2>3. /\ \A q \in Rooms : Moving(q) => Moving(q)'
        /\ \A p \in Place : RoomOf(p)' = RoomOf(p)
    BY <2>2, GameSameRooms, RoomOfIs, RoomOfIsNext
  <2>4. dead[j.sess]
    BY <1>0, <2>1, <2>2 DEF Drops, GenAgrees, StillThere
  <2>5. /\ \A s \in Sess : HeldIn(Where', s) <=> HeldIn(Where, s) /\ s # j.sess
        /\ \A p \in Place : Where'[p] \subseteq Where[p]
    BY <2>1, DropsHeld
  <2>6. Routed'
    BY <1>0, <2>2, <2>3, <2>5, RoutedFrom
  <2>7. MovedOn'
    BY <1>0, <2>2, MovedStays
  <2>8. Present'
    BY <1>0, <2>2, <2>4, <2>5, PresentStays
  <2> QED BY <2>6, <2>7, <2>8 DEF RouteInv
<1>16. ASSUME NEW w \in Game, NEW l \in game[w].leaves, ProcessLeave(w, l) PROVE RouteInv'
  <2>0. PICK c \in Rooms : c = game[w].cur
    BY <1>0, GameTyped
  <2>1. /\ game[w].pc = "queues" /\ game'[w].pc = "queues" /\ game'[w].cur = c
        /\ game'[w].joins = game[w].joins
        /\ \A v \in Game : v # w => game'[v] = game[v]
        /\ UNCHANGED <<pendingJoin, roomIdx, actorId, inRoom, dead>>
    BY <1>16, <2>0, ProcessLeaveEffect DEF GameAt
  <2>2. /\ \A q \in Rooms : Moving(q) => Moving(q)'
        /\ \A p \in Place : RoomOf(p)' = RoomOf(p)
    BY <2>0, <2>1, GameSameRooms, RoomOfIs, RoomOfIsNext
  <2>3. \A v \in Game : game'[v].pc = "move" => game'[v] = game[v] /\ game[v].nr \in Rooms
    BY <1>0, <2>1, GameTyped
  <2>4. CASE \E m \in members[c] : Matches(m, l) /\ Drops(AtMember(c), m)
    <3>1. PICK m \in members[c] : Matches(m, l) /\ Drops(AtMember(c), m)
      BY <2>4
    <3>2. dead[m.sess]
      <4>1. l \in LeaveEntry /\ LeaveQueued(l) BY <1>0, GameTyped DEF LeaveQueued
      <4>2. OldLeave(l) BY <4>1 DEF LeaveInv, LeavesOld
      <4>3. m.gen = gen[m.sess] BY <1>0, <3>1 DEF Drops, GenAgrees
      <4> QED BY <3>1, <4>2, <4>3 DEF Matches, OldLeave
    <3>3. /\ \A s \in Sess : HeldIn(Where', s) <=> HeldIn(Where, s) /\ s # m.sess
          /\ \A p \in Place : Where'[p] \subseteq Where[p]
      BY <3>1, DropsHeld
    <3>4. Routed'
      BY <1>0, <2>1, <2>2, <3>3, RoutedFrom
    <3>5. MovedOn'
      <4>1. \A r \in Rooms : members'[r] \subseteq members[r]
        BY <3>3, PlaceCases, WhereIs, WhereIsNext
      <4> QED BY <1>0, <2>1, <2>3, <4>1, MovedStays
    <3>6. Present'
      BY <1>0, <2>1, <3>2, <3>3, PresentStays
    <3> QED BY <3>4, <3>5, <3>6 DEF RouteInv
  <2>5. CASE Stays
    <3>1. Routed'
      BY <1>0, <2>1, <2>2, <2>5, RoutedFrom DEF Stays
    <3>2. MovedOn'
      <4>1. \A r \in Rooms : members'[r] = members[r]
        BY <2>5, PlaceCases, WhereIs, WhereIsNext DEF Stays
      <4> QED BY <1>0, <2>1, <2>3, <4>1, MovedStays
    <3>3. Present'
      BY <1>0, <2>1, <2>5, PresentStays DEF Stays, HeldIn
    <3> QED BY <3>1, <3>2, <3>3 DEF RouteInv
  <2> QED BY <1>16, <2>0, <2>4, <2>5, LeaveDrops
<1>17. ASSUME NEW w \in Game, DeathCheck(w) PROVE RouteInv'
  <2>1. /\ game[w].pc # "move" /\ game'[w].pc # "move" /\ game[w].joins = {} /\ game'[w].joins = {}
        /\ \A v \in Game : v # w => game'[v] = game[v]
        /\ UNCHANGED <<members, pendingJoin, roomIdx, actorId, inRoom, dead>>
    BY <1>17, DeathCheckEffect DEF GameAt, LockInv, BatchInUse
  <2>2. Where[AtBatch(w)] = {}
    BY <2>1, WhereIs
  <2> QED BY <2>1, <2>2, GameQuiet
<1>18. ASSUME NEW w \in Game, ReapRoom(w) PROVE RouteInv'
  <2>1. /\ game[w].pc # "move" /\ game'[w].pc # "move" /\ game[w].joins = {} /\ game'[w].joins = {}
        /\ \A v \in Game : v # w => game'[v] = game[v]
        /\ UNCHANGED <<members, pendingJoin, roomIdx, actorId, inRoom, dead>>
    BY <1>18, ReapRoomEffect DEF GameAt, LockInv, BatchInUse
  <2>2. Where[AtBatch(w)] = {}
    BY <2>1, WhereIs
  <2> QED BY <2>1, <2>2, GameQuiet
<1>19. ASSUME NEW w \in Game, RoomTick(w) PROVE RouteInv'
  <2>1. /\ game[w].pc # "move" /\ game'[w].pc # "move" /\ game[w].joins = {} /\ game'[w].joins = {}
        /\ \A v \in Game : v # w => game'[v] = game[v]
        /\ UNCHANGED <<members, pendingJoin, roomIdx, actorId, inRoom, dead>>
    BY <1>19, RoomTickEffect DEF GameAt, LockInv, BatchInUse
  <2>2. Where[AtBatch(w)] = {}
    BY <2>1, WhereIs
  <2> QED BY <2>1, <2>2, GameQuiet
<1>20. ASSUME NEW w \in Game, TransferBegin(w) PROVE RouteInv'
  <2>0. PICK old \in Rooms, new \in Rooms : old = game[w].cur /\ new = game'[w].nr
    BY <1>0, <1>20, BeginMoves, GameTyped DEF TypeOK, MgrTypeOK
  <2>1. /\ Where[AtBatch(w)] = {} /\ Moves(AtPending(old), AtBatch(w), pendingJoin[old])
        /\ game'[w].pc = "move" /\ game'[w].cur = old /\ members'[new] = {}
        /\ \A v \in Game : v # w => game'[v] = game[v]
    BY <1>20, <2>0, BeginMoves
  <2>2. /\ game[w].pc = "tick" /\ ~MgrLockHeld
        /\ UNCHANGED <<roomIdx, actorId, inRoom, dead>>
    BY <1>20, TransferBeginEffect
  <2>3. \A q \in Rooms : Moving(q) => Moving(q)'
    BY <2>1, <2>2 DEF Moving
  <2>4. Moving(old)'
    BY <2>1 DEF Moving
  <2>5. \A p \in Place : p # AtBatch(w) => RoomOf(p)' = RoomOf(p)
    BY <2>1, PlaceCases, RoomOfIs, RoomOfIsNext
  <2>6. RoomOf(AtBatch(w))' = old /\ RoomOf(AtPending(old)) = old
    BY <2>1, RoomOfIs, RoomOfIsNext
  <2>7. ASSUME NEW p \in Place, NEW x \in Where'[p]
        PROVE  \E q \in Place : x \in Where[q] /\ RoomOf(p)' = RoomOf(q)
    <3>1. CASE p = AtBatch(w) BY <2>1, <2>6, <3>1 DEF Moves
    <3>2. CASE p # AtBatch(w) BY <2>1, <2>5, <3>2 DEF Moves
    <3> QED BY <3>1, <3>2
  <2>8. Routed'
    BY <1>0, <2>2, <2>3, <2>7, RoutedFrom
  <2>9. MovedOn'
    <3>1. \A v \in Game : v # w => game'[v].pc # "move"
      BY <2>1, <2>2 DEF MgrLockHeld
    <3> QED BY <2>0, <2>1, <3>1 DEF MovedOn
  <2>10. Present'
    BY <1>0, <2>1, <2>2, MovesHeld, PresentStays
  <2> QED BY <2>8, <2>9, <2>10 DEF RouteInv
<1>21. ASSUME NEW w \in Game, NEW m \in members[game[w].cur], TransferMember(w, m) PROVE RouteInv'
  <2>0. PICK old \in Rooms, new \in Rooms : old = game[w].cur /\ new = game[w].nr
    BY <1>0, GameTyped
  <2>1. Moves(AtMember(old), AtMember(new), {m})
    BY <1>21, <2>0, MemberMoves
  <2>2. /\ game[w].pc = "move" /\ roomIdx' = Redirected({m}, new)
        /\ UNCHANGED <<game, actorId, inRoom, dead>>
    BY <1>21, <2>0, TransferMemberEffect
  <2>3. m.sess \in Sess /\ m.gen = gen[m.sess]
    BY <1>0, <2>1 DEF Moves, GenAgrees
  <2>4. roomIdx'[m.sess] = new /\ \A t \in Sess : t # m.sess => roomIdx'[t] = roomIdx[t]
    BY <2>2, <2>3 DEF Redirected
  <2>5. Moving(new)'
    BY <2>0, <2>2 DEF Moving
  <2>6. /\ \A q \in Rooms : Moving(q) => Moving(q)'
        /\ \A p \in Place : RoomOf(p)' = RoomOf(p)
    BY <2>2, NetSameRooms
  <2>7. OnceIn(Where') /\ \A s \in Sess : HeldIn(Where', s) <=> HeldIn(Where, s)
    BY <2>1, MovesHeld
  <2>8. Routed'
    <3> SUFFICES ASSUME NEW p \in Place, NEW x \in Where'[p] PROVE Right(p, x)'
      BY DEF Routed
    <3>1. CASE x.sess = m.sess
      <4>1. p = AtMember(new) /\ x = m
        BY <2>1, <2>7, <3>1 DEF Moves, OnceIn
      <4>2. m.seat = actorId[m.sess]
        BY <1>0, <2>1 DEF Moves, Routed, Right
      <4>3. RoomOf(p)' = new
        BY <4>1, RoomOfIsNext
      <4> QED BY <2>2, <2>5, <4>1, <4>2, <4>3 DEF Right
    <3>2. CASE x.sess # m.sess
      <4>1. x \in Where[p]
        BY <2>1, <3>2 DEF Moves
      <4>2. Right(p, x) /\ x.sess \in Sess
        BY <1>0, <4>1 DEF Routed
      <4> QED BY <2>2, <2>4, <2>6, <3>2, <4>2, StillRight
    <3> QED BY <3>1, <3>2
  <2>9. MovedOn'
    <3>1. \A v \in Game : game[v].pc = "move" => v = w
      BY <2>2 DEF LockInv, LockExclusive
    <3>2. members'[new] = members[new] \cup {m}
      BY <2>1, WhereIs, WhereIsNext DEF Moves
    <3>3. \A o \in members[new] : o.sess \in Sess /\ roomIdx[o.sess] = new
      BY <1>0, <2>0, <2>2, PlaceCases, WhereIs DEF MovedOn
    <3> QED BY <2>0, <2>2, <2>3, <2>4, <3>1, <3>2, <3>3 DEF MovedOn
  <2>10. Present'
    BY <1>0, <2>2, <2>7, PresentStays
  <2> QED BY <2>8, <2>9, <2>10 DEF RouteInv
<1>22. ASSUME NEW w \in Game, TransferEnd(w) PROVE RouteInv'
  <2>0. PICK old \in Rooms, new \in Rooms : old = game[w].cur /\ new = game[w].nr
    BY <1>0, GameTyped
  <2>1. Moves(AtBatch(w), AtPending(new), game[w].joins) /\ Where[AtPending(new)] = {}
    BY <1>22, <2>0, EndMoves
  <2>2. /\ game[w].pc = "move" /\ members[old] = {} /\ roomIdx' = Redirected(game[w].joins, new)
        /\ game'[w].pc = "rooms" /\ game'[w].joins = {} /\ \A v \in Game : v # w
                  => game'[v] = game[v]
        /\ UNCHANGED <<members, actorId, inRoom, dead>>
    BY <1>22, <2>0, TransferEndEffect DEF GameAt
  <2>3. \A v \in Game : game[v].pc = "move" => v = w
    BY <2>2 DEF LockInv, LockExclusive
  <2>4. /\ pendingJoin[old] = {} /\ pendingJoin[new] = {}
        /\ \A v \in Game : v # w /\ game[v].pc # "rooms" => game[v].cur \notin {old, new}
    BY <2>0, <2>2, MovingHands DEF SeatInv, PartySound
  <2>5. Where[AtBatch(w)] = game[w].joins
    BY WhereIs
  <2>6. OnceIn(Where') /\ \A s \in Sess : HeldIn(Where', s) <=> HeldIn(Where, s)
    BY <2>1, MovesHeld
  <2>7. \A t \in Sess : roomIdx'[t] = IF \E x \in game[w].joins : x.sess = t /\ x.gen = gen[t]
                                        THEN new ELSE roomIdx[t]
    BY Zenon, <2>2 DEF Redirected
  <2>8. Routed'
    <3> SUFFICES ASSUME NEW p \in Place, NEW x \in Where'[p] PROVE Right(p, x)'
      BY DEF Routed
    <3>1. CASE x \in game[w].joins
      <4>1. AtBatch(w) \in Place /\ x \in Where[AtBatch(w)]
        BY <2>5, <3>1, PlaceCases
      <4>2. /\ x.sess \in Sess /\ x.gen = gen[x.sess] /\ x.seat = actorId[x.sess]
        BY <1>0, <4>1 DEF GenAgrees, Routed, Right
      <4>3. AtPending(new) \in Place /\ x \in Where'[AtPending(new)]
        BY <2>1, <3>1 DEF Moves
      <4>4. p = AtPending(new)
        BY <2>6, <4>3 DEF OnceIn
      <4>5. RoomOf(p)' = new /\ roomIdx'[x.sess] = new
        BY <2>7, <3>1, <4>2, <4>4, RoomOfIsNext
      <4> QED BY <2>2, <4>2, <4>5 DEF Right
    <3>2. CASE x \notin game[w].joins
      <4>1. x \in Where[p] /\ p # AtBatch(w)
        BY <2>1, <2>5, <3>2 DEF Moves
      <4>2. x.sess \in Sess /\ Right(p, x)
        BY <1>0, <4>1 DEF Routed
      <4>3. \A y \in game[w].joins : y.sess # x.sess
        BY <1>0, <2>5, <4>1, PlaceCases DEF OnceIn
      <4>4. roomIdx'[x.sess] = roomIdx[x.sess] /\ actorId'[x.sess] = actorId[x.sess]
        BY <2>2, <2>7, <4>2, <4>3
      <4>5. RoomOf(p)' = RoomOf(p)
        BY <2>2, <4>1, PlaceCases, RoomOfIs, RoomOfIsNext
      <4>6. RoomOf(p) = roomIdx[x.sess] /\ RoomOf(p) \in Rooms
        <5>1. PICK r \in Rooms : RoomOf(p) = r /\ (Moving(r) \/ r = roomIdx[x.sess])
          BY <4>2 DEF Right
        <5>2. SUFFICES ASSUME Moving(r) PROVE r = roomIdx[x.sess]
          BY <5>1
        <5>3. r \in {old, new}
          BY <2>0, <2>3, <5>2 DEF Moving
        <5>4. CASE \E q \in Rooms : p = AtMember(q)
          <6>1. p = AtMember(r) /\ x \in members[r]
            BY <4>1, <5>1, <5>4, RoomOfIs, WhereIs
          <6> QED BY <1>0, <2>0, <2>2, <5>3, <6>1 DEF MovedOn
        <5>5. CASE \E q \in Rooms : p = AtPending(q)
          <6>1. x \in pendingJoin[r]
            BY <4>1, <5>1, <5>5, RoomOfIs, WhereIs
          <6> QED BY <2>4, <5>3, <6>1
        <5>6. CASE \E v \in Game : p = AtBatch(v)
          <6>1. PICK v \in Game : p = AtBatch(v)
            BY <5>6
          <6>2. v # w /\ game[v].cur = r /\ x \in game[v].joins
            BY <4>1, <5>1, <6>1, RoomOfIs, WhereIs
          <6>3. game[v].pc # "rooms"
            BY <6>2 DEF LockInv, BatchInUse
          <6> QED BY <2>4, <5>3, <6>2, <6>3
        <5> QED BY <5>4, <5>5, <5>6, PlaceCases
      <4> QED BY <4>2, <4>4, <4>5, <4>6 DEF Right
    <3> QED BY <3>1, <3>2
  <2>9. MovedOn'
    BY <2>2, <2>3 DEF MovedOn
  <2>10. Present'
    BY <1>0, <2>2, <2>6, PresentStays
  <2> QED BY <2>8, <2>9, <2>10 DEF RouteInv
<1>23. CASE UNCHANGED vars
  <2>1. UNCHANGED <<inRoom, dead, roomIdx, actorId, members, pendingJoin, game>>
    BY <1>23 DEF vars, poolVars, sessVars, roomVars, queueVars, memberVars, gameVars
  <2> QED BY <2>1, NetQuiet
<1>24. ASSUME NEW e \in Net, ServeStep(e) PROVE RouteInv'
  BY <1>24, ServeEffect, NetQuiet
<1> QED
  BY <1>1, <1>2, <1>3, <1>4, <1>5, <1>6, <1>7, <1>8, <1>9, <1>10, <1>11, <1>12,
     <1>13, <1>14, <1>15, <1>16, <1>17, <1>18, <1>19, <1>20, <1>21, <1>22, <1>23,
     <1>24 DEF Next, NetStep, ServeStep, GameStep

(* What the epoll worker reads to route an input, roomIdx and actorId, is       *)
(* where the game worker holds the session, except while a transfer is moving   *)
(* its room (RoomManager.cpp: Join, TransferRoom; EpollWorker.cpp: Dispatch).   *)
THEOREM RoutesSound == PatientSpec => []RouteInv
<1>1. /\ TypeOK /\ TypeOK' /\ LockInv /\ LockInv' /\ HandInv /\ SeatInv /\ HoldInv /\ HoldInv'
      /\ LeaveInv /\ RouteInv /\ [Next]_vars
      => RouteInv'
  BY RouteStep
<1> QED BY RouteInit, <1>1, TypeCorrect, LockHolder, RoomsInHand, SeatsSound, HoldersSound,
           LeavesSound,
           PTL DEF Spec, PatientSpec

--------------------------------------------------------------------------------
(* What the layers are for.                                                     *)

(* A session is named by at most one entry in one place: no join is processed   *)
(* twice and no member is in two rooms, even while a transfer is moving them.   *)
THEOREM OneHolderHolds == PatientSpec => []OneHolder
<1>1. HoldInv => OneHolder
  BY DEF HoldInv, OnceIn, OneHolder, Where
<1> QED BY <1>1, HoldersSound, PTL

(* The reference count of every slot is one for the worker that has it in       *)
(* _mySessions and one for the entry that names it, and the slot is free        *)
(* exactly at zero: so no slot is handed out while an entry names it or a       *)
(* worker owns it. Only under AcceptsAfter: without it a worker that goes on    *)
(* with a slot it has given up returns the netRef of another. And it says nothing of an entry that *)
(* stays for ever: a member whose leave is lost (LostLeave) is counted all the  *)
(* same and its slot never comes back (Session.h:146-156; EpollWorker.cpp:223,  *)
(* 270).                                                                        *)
THEOREM RefLedgerHolds == PatientSpec => []RefLedger
<1>1. HoldInv => RefLedger
  <2>1. \A s \in Sess : GameHeld(s) <=> HeldIn(Where, s)
    BY DEF GameHeld, HeldIn, Where
  <2> QED BY <2>1 DEF HoldInv, RefsExact, RefLedger, One
<1> QED BY <1>1, HoldersSound, PTL

(* A living session that believes to be in a room has an entry there, with      *)
(* its generation and its seat, except while a transfer is moving it.           *)
THEOREM MembershipAgreesHolds == PatientSpec => []MembershipAgrees
<1>1. TypeOK /\ HoldInv /\ RouteInv => MembershipAgrees
  <2> SUFFICES ASSUME TypeOK, HoldInv, RouteInv, NEW s \in Sess, inRoom[s], ~dead[s]
               PROVE  \E p \in Place : \E x \in EntriesAt(p) :
                          /\ x.sess = s /\ x.gen = gen[s] /\ x.seat = actorId[s]
                          /\ RoomOf(p) = roomIdx[s] \/ Moving(RoomOf(p))
    BY DEF MembershipAgrees
  <2>0. PICK p \in Place : \E y \in Where[p] : y.sess = s
    BY DEF RouteInv, Present, HeldIn
  <2>1. PICK x \in Where[p] : x.sess = s
    BY <2>0
  <2>2. x \in EntriesAt(p)
    BY <2>1 DEF Where
  <2>3. x.gen = gen[s] /\ Right(p, x)
    BY <2>1 DEF HoldInv, GenAgrees, RouteInv, Routed
  <2> QED BY <2>1, <2>2, <2>3 DEF Right
<1> QED BY <1>1, TypeCorrect, HoldersSound, RoutesSound, PTL DEF PatientSpec

--------------------------------------------------------------------------------
(* Eighth layer: a session that is served is alive.                             *)

(* Worker e is disconnecting session s.                                         *)
Away(e, s) == net[e].pc \in {"leave", "pushLeave", "release"} /\ net[e].sess = s

(* Eighth layer: a dead session that has an owner is in its owner's             *)
(* Disconnect, so a session a worker may still serve is alive.                  *)
DeadLeaving == \A e \in Net : \A s \in mySessions[e] : dead[s] => Away(e, s)

(* At the start no worker owns a session.                                       *)
LEMMA DeadLeavingInit == Init => DeadLeaving
BY DEF Init, DeadLeaving

(* DeadLeaving is kept by a step that touches neither owner nor dead and ends   *)
(* no Disconnect.                                                               *)
LEMMA AwayStays ==
    ASSUME TypeOK, DeadLeaving, UNCHANGED <<mySessions, dead>>,
           \A f \in Net : \A s \in mySessions[f] : dead[s] /\ Away(f, s) => Away(f, s)'
    PROVE  DeadLeaving'
BY DEF DeadLeaving

(* Every step keeps the dead sessions in their owner's Disconnect.              *)
LEMMA DeadLeavingStep ==
    TypeOK /\ LockInv /\ HoldInv /\ DeadLeaving /\ [Next]_vars => DeadLeaving'
<1> SUFFICES ASSUME TypeOK, LockInv, HoldInv, DeadLeaving, [Next]_vars PROVE DeadLeaving'
  OBVIOUS
<1>0. PoolTypeOK /\ SessTypeOK /\ OneOwner /\ \A e \in Net : mySessions[e] \in SUBSET Sess
  BY DEF TypeOK, HoldInv, SessTypeOK
<1>1. ASSUME NEW e \in Net, NEW s \in Sess, Accept(e, s) PROVE DeadLeaving'
  <2>1. /\ s \in free /\ net' = net
        /\ dead'[s] = FALSE /\ \A t \in Sess : t # s => dead'[t] = dead[t]
        /\ mySessions'[e] = mySessions[e] \cup {s}
        /\ \A f \in Net : f # e => mySessions'[f] = mySessions[f]
    BY <1>0, <1>1, AcceptEffect DEF PoolTypeOK, SessTypeOK
  <2> QED BY <1>0, <2>1 DEF DeadLeaving, Away
<1>2. ASSUME NEW e \in Net, NEW s \in Sess, AcceptAborted(e, s) PROVE DeadLeaving'
  <2>1. /\ s \in free /\ net' = net /\ mySessions' = mySessions
        /\ \A t \in Sess : t # s => dead'[t] = dead[t]
    BY <1>0, <1>2, AcceptAbortedEffect DEF PoolTypeOK
  <2>2. \A f \in Net : s \notin mySessions[f]
    BY <2>1, FreeSession
  <2> QED BY <1>0, <2>1, <2>2 DEF DeadLeaving, Away
<1>3. ASSUME NEW e \in Net, NEW s \in Sess, JoinReserve(e, s) PROVE DeadLeaving'
  <2>1. /\ net[e].pc = "serve" /\ \A f \in Net : f # e => net'[f] = net[f]
        /\ UNCHANGED <<mySessions, dead>>
    BY <1>3, JoinReserveEffect DEF NetAt
  <2> QED BY <2>1, AwayStays DEF Away
<1>4. ASSUME NEW e \in Net, NEW s \in Sess, JoinAlloc(e, s) PROVE DeadLeaving'
  <2>1. /\ net[e].pc = "serve" /\ \A f \in Net : f # e => net'[f] = net[f]
        /\ UNCHANGED <<mySessions, dead>>
    BY <1>4, JoinAllocEffect DEF NetAt
  <2> QED BY <2>1, AwayStays DEF Away
<1>5. ASSUME NEW e \in Net, NEW s \in Sess, JoinFail(e, s) PROVE DeadLeaving'
  BY <1>5, JoinFailEffect, AwayStays DEF Away
<1>6. ASSUME NEW e \in Net, NEW s \in Sess, Disconnect(e, s) PROVE DeadLeaving'
  <2>1. /\ net[e].pc = "serve" /\ s \in mySessions[e]
        /\ net'[e].pc = "leave" /\ net'[e].sess = s /\ \A f \in Net : f # e => net'[f] = net[f]
        /\ \A t \in Sess : t # s => dead'[t] = dead[t]
        /\ mySessions' = mySessions
    BY <1>0, <1>6, DisconnectEffect DEF NetAt, PoolTypeOK
  <2>2. \A f \in Net : f # e => s \notin mySessions[f]
    BY <1>0, <2>1 DEF OneOwner
  <2>3. \A t \in mySessions[e] : ~dead[t]
    BY <2>1 DEF DeadLeaving, Away
  <2> QED BY <1>0, <2>1, <2>2, <2>3 DEF DeadLeaving, Away
<1>7. ASSUME NEW e \in Net, JoinReserveFirst(e) PROVE DeadLeaving'
  <2>1. /\ net[e].pc = "reserve0" /\ \A f \in Net : f # e => net'[f] = net[f]
        /\ UNCHANGED <<mySessions, dead>>
    BY <1>7, JoinReserveFirstEffect DEF NetAt
  <2> QED BY <2>1, AwayStays DEF Away
<1>8. ASSUME NEW e \in Net, JoinEnter(e) PROVE DeadLeaving'
  <2>1. /\ net[e].pc = "enter" /\ \A f \in Net : f # e => net'[f] = net[f]
        /\ UNCHANGED <<mySessions, dead>>
    BY <1>8, JoinEnterEffect DEF NetAt
  <2> QED BY <2>1, AwayStays DEF Away
<1>9. ASSUME NEW e \in Net, OnSessionLeave(e) PROVE DeadLeaving'
  <2>1. /\ net'[e].pc \in {"pushLeave", "release"} /\ net'[e].sess = net[e].sess
        /\ \A f \in Net : f # e => net'[f] = net[f]
        /\ UNCHANGED <<mySessions, dead>>
    BY <1>9, OnSessionLeaveEffect DEF NetAt
  <2> QED BY <2>1, AwayStays DEF Away
<1>10. ASSUME NEW e \in Net, PushLeave(e) PROVE DeadLeaving'
  <2>1. /\ net'[e].pc = "release" /\ net'[e].sess = net[e].sess
        /\ \A f \in Net : f # e => net'[f] = net[f]
        /\ UNCHANGED <<mySessions, dead>>
    BY <1>10, PushLeaveEffect DEF NetAt
  <2> QED BY <2>1, AwayStays DEF Away
<1>11. ASSUME NEW e \in Net, ReleaseNetRef(e) PROVE DeadLeaving'
  <2>1. /\ \A f \in Net : f # e => net'[f] = net[f] /\ mySessions'[f] = mySessions[f]
        /\ mySessions'[e] = mySessions[e] \ {net[e].sess} /\ dead' = dead
    BY <1>0, <1>11, ReleaseNetRefEffect DEF NetAt, SessTypeOK
  <2> QED BY <2>1 DEF DeadLeaving, Away
<1>12. ASSUME NEW w \in Game, GameStep(w) PROVE DeadLeaving'
  <2> SUFFICES UNCHANGED <<mySessions, dead, net>>
    BY AwayStays DEF Away
  <2>1. ASSUME NEW r \in todo[w], SwapQueues(w, r) PROVE UNCHANGED <<mySessions, dead, net>>
    BY <2>1, SwapQueuesEffect
  <2>2. ASSUME NEW j \in game[w].joins, InstallMember(w, j) PROVE UNCHANGED <<mySessions, dead, net>>
    BY <2>2, InstallMemberEffect
  <2>3. ASSUME NEW j \in game[w].joins, SkipJoin(w, j) PROVE UNCHANGED <<mySessions, dead, net>>
    BY <2>3, SkipJoinEffect
  <2>4. ASSUME NEW l \in game[w].leaves, ProcessLeave(w, l) PROVE UNCHANGED <<mySessions, dead, net>>
    BY <2>4, ProcessLeaveEffect
  <2>5. ASSUME NEW m \in members[game[w].cur], TransferMember(w, m)
        PROVE  UNCHANGED <<mySessions, dead, net>>
    BY <2>5, TransferMemberEffect
  <2>6. CASE DrainRoomAddQ(w)
    BY <2>6, DrainRoomAddQEffect
  <2>7. CASE DeathCheck(w)
    BY <2>7, DeathCheckEffect
  <2>8. CASE ReapRoom(w)
    BY <2>8, ReapRoomEffect
  <2>9. CASE RoomTick(w)
    BY <2>9, RoomTickEffect
  <2>10. CASE TransferBegin(w)
    BY <2>10, TransferBeginEffect
  <2>11. CASE TransferEnd(w)
    BY <2>11, TransferEndEffect
  <2> QED BY <1>12, <2>1, <2>2, <2>3, <2>4, <2>5, <2>6, <2>7, <2>8, <2>9, <2>10, <2>11 DEF
             GameStep
<1>13. CASE UNCHANGED vars
  BY <1>13, AwayStays DEF Away, vars, poolVars
<1>14. ASSUME NEW e \in Net, ServeStep(e) PROVE DeadLeaving'
  <2>1. /\ net[e].pc \in {"idle", "serve"} /\ \A f \in Net : f # e => net'[f] = net[f]
        /\ UNCHANGED <<mySessions, dead>>
    BY <1>14, ServeEffect
  <2> QED BY <2>1, AwayStays DEF Away
<1> QED BY <1>1, <1>2, <1>3, <1>4, <1>5, <1>6, <1>7, <1>8, <1>9, <1>10, <1>11, <1>12, <1>13,
        <1>14 DEF Next, NetStep, ServeStep

(* dead is raised by the owner of a session alone, in the Disconnect that       *)
(* ends with giving the session back: a session a worker serves between two     *)
(* events is alive (EpollWorker.cpp: Disconnect; Session.cpp: Release).         *)
THEOREM LeaversSound == PatientSpec => []DeadLeaving
<1>1. TypeOK /\ LockInv /\ HoldInv /\ DeadLeaving /\ [Next]_vars => DeadLeaving'
  BY DeadLeavingStep
<1> QED BY DeadLeavingInit, <1>1, TypeCorrect, LockHolder, HoldersSound, PTL DEF Spec, PatientSpec

--------------------------------------------------------------------------------
(* The claims of a session, by the places that hold its entries.                *)

(* The room that the entries of place p count for: the new one while a          *)
(* transfer moves them.                                                         *)
Home(p) == RoomNow(RoomOf(p))

(* Session s claims seat h by an entry.                                         *)
EntryClaim(s, h) == \E p \in Place : \E x \in Where[p] : x.sess = s /\ h = <<Home(p), x.seat>>

(* Session s claims seat h by a reservation that is not yet queued.             *)
JoinClaim(s, h) == \E e \in Net : /\ net[e].pc = "enter" /\ net[e].sess = s
                                  /\ h = <<net[e].room, net[e].seat>>

(* A seat is among them when an entry names it.                                 *)
LEMMA SeatsInAre ==
    \A r, s, es, h : h \in SeatsIn(r, s, es) <=> \E x \in es : x.sess = s /\ h = <<r, x.seat>>
<1> SUFFICES ASSUME NEW r, NEW s, NEW es, NEW h
             PROVE  h \in SeatsIn(r, s, es) <=> \E x \in es : x.sess = s /\ h = <<r, x.seat>>
  OBVIOUS
<1>1. \A i : i \in SeatsFor(s, es) <=> \E x \in es : x.sess = s /\ i = x.seat
  BY DEF SeatsFor
<1> HIDE DEF SeatsFor
<1>2. h \in SeatsIn(r, s, es) <=> \E i \in SeatsFor(s, es) : h = <<r, i>>
  BY DEF SeatsIn
<1> QED BY <1>1, <1>2

(* The claims of a session, entry by entry.                                     *)
LEMMA ClaimsAre == \A s, h : h \in Claims(s) <=> EntryClaim(s, h) \/ JoinClaim(s, h)
<1> SUFFICES ASSUME NEW s, NEW h PROVE h \in Claims(s) <=> EntryClaim(s, h) \/ JoinClaim(s, h)
  OBVIOUS
<1>1. h \in Claims(s) <=>
        \/ \E r \in Rooms : \E x \in members[r] \cup pendingJoin[r] : x.sess = s /\ h = <<RoomNow(r), x.seat>>
        \/ \E w \in Game : \E x \in game[w].joins : x.sess = s /\ h = <<RoomNow(game[w].cur), x.seat>>
        \/ JoinClaim(s, h)
  <2>1. h \in Claims(s) <=>
          \/ \E r \in Rooms : h \in SeatsIn(RoomNow(r), s, members[r] \cup pendingJoin[r])
          \/ \E w \in Game : h \in SeatsIn(RoomNow(game[w].cur), s, game[w].joins)
          \/ JoinClaim(s, h)
    BY Zenon DEF Claims, JoinClaim, SeatsIn
  <2>2. ASSUME NEW r \in Rooms
        PROVE  h \in SeatsIn(RoomNow(r), s, members[r] \cup pendingJoin[r]) <=>
                  \E x \in members[r] \cup pendingJoin[r] : x.sess = s /\ h = <<RoomNow(r), x.seat>>
    BY SeatsInAre
  <2>3. ASSUME NEW w \in Game
        PROVE  h \in SeatsIn(RoomNow(game[w].cur), s, game[w].joins) <=>
                  \E x \in game[w].joins : x.sess = s /\ h = <<RoomNow(game[w].cur), x.seat>>
    BY SeatsInAre
  <2> QED BY <2>1, <2>2, <2>3
<1>2. EntryClaim(s, h) <=>
        \/ \E r \in Rooms : \E x \in members[r] : x.sess = s /\ h = <<RoomNow(r), x.seat>>
        \/ \E r \in Rooms : \E x \in pendingJoin[r] : x.sess = s /\ h = <<RoomNow(r), x.seat>>
        \/ \E w \in Game : \E x \in game[w].joins : x.sess = s /\ h = <<RoomNow(game[w].cur), x.seat>>
  <2>1. /\ \A r \in Rooms : Home(AtMember(r)) = RoomNow(r) /\ Home(AtPending(r)) = RoomNow(r)
        /\ \A w \in Game : Home(AtBatch(w)) = RoomNow(game[w].cur)
    BY RoomOfIs DEF Home
  <2> QED BY <2>1, WhereIs, PlaceCases DEF EntryClaim
<1> QED BY <1>1, <1>2

(* The same, after a step.                                                      *)
LEMMA ClaimsAreNext == \A s, h : h \in Claims(s)' <=> EntryClaim(s, h)' \/ JoinClaim(s, h)'
<1> SUFFICES ASSUME NEW s, NEW h PROVE h \in Claims(s)' <=> EntryClaim(s, h)' \/ JoinClaim(s,
                    h)'
  OBVIOUS
<1>1. h \in Claims(s)' <=>
        \/ \E r \in Rooms : \E x \in members'[r] \cup pendingJoin'[r] : x.sess = s /\ h = <<RoomNow(r)', x.seat>>
        \/ \E w \in Game : \E x \in game'[w].joins : x.sess = s /\ h = <<RoomNow(game[w].cur)', x.seat>>
        \/ JoinClaim(s, h)'
  <2>1. h \in Claims(s)' <=>
          \/ \E r \in Rooms : h \in SeatsIn(RoomNow(r)', s, members'[r] \cup pendingJoin'[r])
          \/ \E w \in Game : h \in SeatsIn(RoomNow(game[w].cur)', s, game'[w].joins)
          \/ JoinClaim(s, h)'
    BY Zenon DEF Claims, JoinClaim, SeatsIn
  <2>2. ASSUME NEW r \in Rooms
        PROVE  h \in SeatsIn(RoomNow(r)', s, members'[r] \cup pendingJoin'[r]) <=>
                  \E x \in members'[r] \cup pendingJoin'[r] : x.sess = s /\ h = <<RoomNow(r)', x.seat>>
    BY SeatsInAre
  <2>3. ASSUME NEW w \in Game
        PROVE  h \in SeatsIn(RoomNow(game[w].cur)', s, game'[w].joins) <=>
                  \E x \in game'[w].joins : x.sess = s /\ h = <<RoomNow(game[w].cur)', x.seat>>
    BY SeatsInAre
  <2> QED BY <2>1, <2>2, <2>3
<1>2. EntryClaim(s, h)' <=>
        \/ \E r \in Rooms : \E x \in members'[r] : x.sess = s /\ h = <<RoomNow(r)', x.seat>>
        \/ \E r \in Rooms : \E x \in pendingJoin'[r] : x.sess = s /\ h = <<RoomNow(r)', x.seat>>
        \/ \E w \in Game : \E x \in game'[w].joins : x.sess = s /\ h = <<RoomNow(game[w].cur)', x.seat>>
  <2>1. /\ \A r \in Rooms : Home(AtMember(r))' = RoomNow(r)' /\ Home(AtPending(r))' = RoomNow(r)'
        /\ \A w \in Game : Home(AtBatch(w))' = RoomNow(game[w].cur)'
    BY RoomOfIsNext DEF Home
  <2> QED BY <2>1, WhereIsNext, PlaceCases DEF EntryClaim
<1> QED BY <1>1, <1>2

(* Outside a transfer, entries count for the room they are in.                  *)
LEMMA HomeStill ==
    ASSUME \A w \in Game : game[w].pc # "move"
    PROVE  \A p \in Place : Home(p) = RoomOf(p)
BY DEF Home, RoomNow

(* In a transfer, the entries of the old room count for the new one.            *)
LEMMA HomeMoving ==
    ASSUME LockInv, NEW w \in Game, game[w].pc = "move"
    PROVE  \A p \in Place : Home(p) = IF RoomOf(p) = game[w].cur THEN game[w].nr ELSE RoomOf(p)
<1> SUFFICES ASSUME NEW p \in Place
             PROVE  Home(p) = IF RoomOf(p) = game[w].cur THEN game[w].nr ELSE RoomOf(p)
  OBVIOUS
<1>1. \A v \in Game : game[v].pc = "move" => v = w
  BY DEF LockInv, LockExclusive
<1>2. CASE RoomOf(p) = game[w].cur
  <2>1. (CHOOSE v \in Game : game[v].pc = "move" /\ game[v].cur = RoomOf(p)) = w
    BY <1>1, <1>2
  <2> QED BY <1>2, <2>1 DEF Home, RoomNow
<1>3. CASE RoomOf(p) # game[w].cur
  BY <1>1, <1>3 DEF Home, RoomNow
<1> QED BY <1>2, <1>3

(* HomeStill, after a step.                                                     *)
LEMMA HomeStillNext ==
    ASSUME \A w \in Game : game'[w].pc # "move"
    PROVE  \A p \in Place : Home(p)' = RoomOf(p)'
BY DEF Home, RoomNow

(* HomeMoving, after a step.                                                    *)
LEMMA HomeMovingNext ==
    ASSUME LockInv', NEW w \in Game, game'[w].pc = "move"
    PROVE  \A p \in Place : Home(p)' = IF RoomOf(p)' = game'[w].cur THEN game'[w].nr ELSE RoomOf(p)'
<1> SUFFICES ASSUME NEW p \in Place
             PROVE  Home(p)' = IF RoomOf(p)' = game'[w].cur THEN game'[w].nr ELSE RoomOf(p)'
  OBVIOUS
<1>1. \A v \in Game : game'[v].pc = "move" => v = w
  BY DEF LockInv, LockExclusive
<1>2. CASE RoomOf(p)' = game'[w].cur
  <2>1. (CHOOSE v \in Game : game'[v].pc = "move" /\ game'[v].cur = RoomOf(p)') = w
    BY <1>1, <1>2
  <2> QED BY <1>2, <2>1 DEF Home, RoomNow
<1>3. CASE RoomOf(p)' # game'[w].cur
  BY <1>1, <1>3 DEF Home, RoomNow
<1> QED BY <1>2, <1>3

(* A step that begins or ends no transfer keeps what the entries of a place     *)
(* count for, unless the place changes its room.                                *)
LEMMA HomeStays ==
    ASSUME LockInv, LockInv',
           \A v \in Game : game[v].pc = "move" \/ game'[v].pc = "move" => game'[v] = game[v]
    PROVE  \A p, q \in Place : RoomOf(p)' = RoomOf(q) => Home(p)' = Home(q)
<1> SUFFICES ASSUME NEW p \in Place, NEW q \in Place, RoomOf(p)' = RoomOf(q) PROVE Home(p)' =
                    Home(q)
  OBVIOUS
<1>1. CASE \E w \in Game : game[w].pc = "move"
  <2>1. PICK w \in Game : game[w].pc = "move" BY <1>1
  <2>2. game'[w] = game[w] BY <2>1
  <2>3. Home(q) = IF RoomOf(q) = game[w].cur THEN game[w].nr ELSE RoomOf(q)
    BY <2>1, HomeMoving
  <2>4. Home(p)' = IF RoomOf(p)' = game'[w].cur THEN game'[w].nr ELSE RoomOf(p)'
    BY <2>1, <2>2, HomeMovingNext
  <2> QED BY <2>2, <2>3, <2>4
<1>2. CASE \A w \in Game : game[w].pc # "move"
  BY <1>2, HomeStill, HomeStillNext
<1> QED BY <1>1, <1>2

(* A session claims what it did when its entries were only carried between      *)
(* places that count for the same room.                                         *)
LEMMA ClaimsStay ==
    ASSUME \A p \in Place : \A x \in Where'[p] : \E q \in Place : x \in Where[q] /\ Home(p)' =
           Home(q),
           \A q \in Place : \A x \in Where[q] : \E p \in Place : x \in Where'[p] /\ Home(p)' = Home(q),
           \A f \in Net : net[f].pc = "enter" \/ net'[f].pc = "enter" => net'[f] = net[f]
    PROVE  \A s : Claims(s)' = Claims(s)
<1> SUFFICES ASSUME NEW s, NEW h PROVE h \in Claims(s)' <=> h \in Claims(s)
  OBVIOUS
<1>1. EntryClaim(s, h)' <=> EntryClaim(s, h)
  BY DEF EntryClaim
<1>2. JoinClaim(s, h)' <=> JoinClaim(s, h)
  BY DEF JoinClaim
<1> QED BY <1>1, <1>2, ClaimsAre, ClaimsAreNext

--------------------------------------------------------------------------------
(* The steps of SeatService, as what they do to online and to the claims.       *)

(* SeatService's online, of one session.                                        *)
Online(s) == s \notin free /\ ~dead[s]

(* No connection comes or goes.                                                 *)
SameOnline == \A s \in Sess : Online(s)' <=> Online(s)

(* No session's claims change.                                                  *)
SameClaims == \A s \in Sess : Claims(s)' = Claims(s)

(* A step of SeatService, or none.                                              *)
ContractStep == [Seating!Next]_(Seating!vars)

(* A step that changes neither is a stutter of SeatService.                     *)
LEMMA Unseen ==
    ASSUME SameOnline, SameClaims
    PROVE  ContractStep
<1>1. [s \in Sess |-> s \notin free /\ ~dead[s]]' = [s \in Sess |-> s \notin free /\ ~dead[s]]
  BY DEF SameOnline, Online
<1>2. [s \in Sess |-> Claims(s)]' = [s \in Sess |-> Claims(s)]
  BY DEF SameClaims
<1> QED BY <1>1, <1>2 DEF ContractStep, Seating!vars

(* What makes a step Connect.                                                   *)
LEMMA Connects ==
    ASSUME NEW s \in Sess, ~Online(s), Claims(s) = {}, Online(s)',
           \A t \in Sess : t # s => (Online(t)' <=> Online(t)), SameClaims
    PROVE  ContractStep
<1>1. [t \in Sess |-> Claims(t)]' = [t \in Sess |-> Claims(t)]
  BY DEF SameClaims
<1>2. [t \in Sess |-> t \notin free /\ ~dead[t]]' = [[t \in Sess |-> t \notin free /\ ~dead[t]] EXCEPT ![s] = TRUE]
  BY DEF Online
<1>3. Seating!Connect(s)
  BY <1>1, <1>2 DEF Online, Seating!Connect
<1>4. [t \in Sess |-> t \notin free /\ ~dead[t]]' # [t \in Sess |-> t \notin free /\ ~dead[t]]
  BY DEF Online
<1> QED BY <1>3, <1>4 DEF ContractStep, Seating!Next

(* What makes a step Disconnect.                                                *)
LEMMA Disconnects ==
    ASSUME NEW s \in Sess, Online(s), ~Online(s)',
           \A t \in Sess : t # s => (Online(t)' <=> Online(t)), SameClaims
    PROVE  ContractStep
<1>1. [t \in Sess |-> Claims(t)]' = [t \in Sess |-> Claims(t)]
  BY DEF SameClaims
<1>2. [t \in Sess |-> t \notin free /\ ~dead[t]]' = [[t \in Sess |-> t \notin free /\ ~dead[t]] EXCEPT ![s] = FALSE]
  BY DEF Online
<1>3. Seating!Disconnect(s)
  BY <1>1, <1>2 DEF Online, Seating!Disconnect
<1>4. [t \in Sess |-> t \notin free /\ ~dead[t]]' # [t \in Sess |-> t \notin free /\ ~dead[t]]
  BY DEF Online
<1> QED BY <1>3, <1>4 DEF ContractStep, Seating!Next

(* SeatService's Taken, seat by seat.                                           *)
LEMMA SeatTaken ==
    \A r, i : i \in Seating!Taken(r) <=> i \in Seats /\ \E s \in Sess : <<r, i>> \in Claims(s)
BY DEF Seating!Taken

(* A seat step that changes no claim is a stutter.                              *)
LEMMA SeatSteps ==
    ASSUME Seating!SeatStep, SameOnline
    PROVE  ContractStep
<1>1. CASE SameClaims
  BY <1>1, Unseen
<1>2. CASE ~SameClaims
  <2>1. [s \in Sess |-> Claims(s)]' # [s \in Sess |-> Claims(s)]
    BY <1>2 DEF SameClaims
  <2> QED BY <2>1 DEF ContractStep, Seating!Next
<1> QED BY <1>1, <1>2

(* What makes a step TakeSeat.                                                  *)
LEMMA TakesSeat ==
    ASSUME NEW s \in Sess, NEW r \in Rooms, NEW i \in Seats, SameOnline, Online(s), Claims(s)
           = {},
           \A t \in Sess : <<r, i>> \notin Claims(t),
           \A j \in Seats : (\A t \in Sess : <<r, j>> \notin Claims(t)) => i <= j,
           Claims(s)' = {<<r, i>>}, \A t \in Sess : t # s => Claims(t)' = Claims(t)
    PROVE  ContractStep
<1>1. [t \in Sess |-> Claims(t)]' = [[t \in Sess |-> Claims(t)] EXCEPT ![s] = {<<r, i>>}]
  OBVIOUS
<1>2. [t \in Sess |-> t \notin free /\ ~dead[t]]' = [t \in Sess |-> t \notin free /\ ~dead[t]]
  BY DEF SameOnline, Online
<1>3. i \notin Seating!Taken(r) /\ \A j \in Seats \ Seating!Taken(r) : i <= j
  BY SeatTaken
<1>4. Seating!TakeSeat(s, r, i)
  BY <1>1, <1>2, <1>3 DEF Seating!TakeSeat, Online
<1> QED BY <1>4, SeatSteps DEF Seating!SeatStep

(* What makes a step GiveUp.                                                    *)
LEMMA GivesUp ==
    ASSUME NEW s \in Sess, SameOnline, ~Online(s), Claims(s) # {}, Claims(s)' = {},
           \A t \in Sess : t # s => Claims(t)' = Claims(t)
    PROVE  ContractStep
<1>1. [t \in Sess |-> Claims(t)]' = [[t \in Sess |-> Claims(t)] EXCEPT ![s] = {}]
  OBVIOUS
<1>2. [t \in Sess |-> t \notin free /\ ~dead[t]]' = [t \in Sess |-> t \notin free /\ ~dead[t]]
  BY DEF SameOnline, Online
<1>3. Seating!GiveUp(s)
  BY <1>1, <1>2 DEF Seating!GiveUp, Online
<1> QED BY <1>3, SeatSteps DEF Seating!SeatStep

(* What makes a step MoveParty.                                                 *)
LEMMA MovesParty ==
    ASSUME NEW r \in Rooms, NEW q \in Rooms, SameOnline,
           \E i \in Seats : \E s \in Sess : <<r, i>> \in Claims(s),
           \A i \in Seats : \A s \in Sess : <<q, i>> \notin Claims(s),
           \A s \in Sess : Claims(s)' = {<<IF h[1] = r THEN q ELSE h[1], h[2]>> : h \in Claims(s)}
    PROVE  ContractStep
<1>1. Seating!Taken(r) # {} /\ Seating!Taken(q) = {}
  BY SeatTaken
<1>2. [t \in Sess |-> t \notin free /\ ~dead[t]]' = [t \in Sess |-> t \notin free /\ ~dead[t]]
  BY DEF SameOnline, Online
<1>3. Seating!MoveParty(r, q)
  BY <1>1, <1>2 DEF Seating!MoveParty
<1> QED BY <1>3, SeatSteps DEF Seating!SeatStep

--------------------------------------------------------------------------------
(* What keeps a claim and what ends it.                                         *)

(* A session without an entry and outside Join claims nothing.                  *)
LEMMA NoClaims ==
    ASSUME NEW s, ~HeldIn(Where, s), \A e \in Net : ~(net[e].pc = "enter" /\ net[e].sess = s)
    PROVE  Claims(s) = {}
<1>1. \A h : ~EntryClaim(s, h) /\ ~JoinClaim(s, h)
  BY DEF EntryClaim, JoinClaim, HeldIn
<1> QED BY <1>1, ClaimsAre

(* A session with an entry claims a seat, and by that entry alone.              *)
LEMMA HeldClaims ==
    ASSUME LockInv, HoldInv, NEW s, HeldIn(Where, s)
    PROVE  Claims(s) # {} /\ \A h : ~JoinClaim(s, h)
<1>1. \E h : EntryClaim(s, h)
  BY DEF EntryClaim, HeldIn
<1>2. \A h : ~JoinClaim(s, h)
  BY DEF JoinClaim, LockInv, NetHasSession, HoldInv, NotYetIn, Locked
<1> QED BY <1>1, <1>2, ClaimsAre

(* A free slot claims no seat: a reused slot starts without one.                *)
LEMMA FreeIsSeatless ==
    ASSUME TypeOK, LockInv, HoldInv, NEW s \in free
    PROVE  Claims(s) = {}
<1>1. ~HeldIn(Where, s) /\ \A e \in Net : s \notin mySessions[e]
  BY FreeSession
<1>2. \A e \in Net : ~(net[e].pc = "enter" /\ net[e].sess = s)
  BY <1>1 DEF LockInv, NetHasSession
<1> QED BY <1>1, <1>2, NoClaims

(* A session whose owner has not begun its Disconnect is online.                *)
LEMMA OwnedIsOnline ==
    ASSUME TypeOK, HoldInv, DeadLeaving, NEW e \in Net, NEW s \in mySessions[e], ~Away(e, s)
    PROVE  Online(s)
<1>1. s \in Sess /\ ~dead[s]
  BY DEF DeadLeaving, TypeOK, SessTypeOK
<1>2. refs[s] = One(NetHeld(s)) + One(HeldIn(Where, s)) /\ (s \in free <=> refs[s] = 0)
  BY <1>1 DEF HoldInv, RefsExact
<1>3. NetHeld(s)
  BY DEF NetHeld
<1> QED BY <1>1, <1>2, <1>3 DEF Online, One

(* Outside a transfer, a room's used seats are exactly those some session       *)
(* claims.                                                                      *)
LEMMA SeatsClaimed ==
    ASSUME TypeOK, LockInv, HandInv, SeatInv, \A w \in Game : game[w].pc # "move",
           NEW r \in Rooms, NEW i \in Seats
    PROVE  (\E s \in Sess : <<r, i>> \in Claims(s)) <=> i \in seatUsed[r]
<1>1. UsedIsClaimed(r)
  BY DEF SeatInv, RoomSound, Moving
<1>2. \A p \in Place : Home(p) = RoomOf(p)
  BY HomeStill
<1>3. ASSUME NEW s \in Sess, <<r, i>> \in Claims(s) PROVE Claimed(r, i)
  <2>1. CASE JoinClaim(s, <<r, i>>)
    BY <2>1 DEF JoinClaim, Claimed
  <2>2. CASE EntryClaim(s, <<r, i>>)
    <3>1. PICK p \in Place : \E x \in Where[p] : x.seat = i /\ RoomOf(p) = r
      BY <1>2, <2>2 DEF EntryClaim
    <3>2. PICK x \in Where[p] : x.seat = i
      BY <3>1
    <3>3. CASE \E q \in Rooms : p = AtMember(q)
      <4>1. p = AtMember(r) BY <3>1, <3>3, RoomOfIs
      <4> QED BY <3>2, <4>1, WhereIs DEF Claimed
    <3>4. CASE \E q \in Rooms : p = AtPending(q)
      <4>1. p = AtPending(r) BY <3>1, <3>4, RoomOfIs
      <4> QED BY <3>2, <4>1, WhereIs DEF Claimed
    <3>5. CASE \E w \in Game : p = AtBatch(w)
      <4>1. PICK w \in Game : p = AtBatch(w) BY <3>5
      <4>2. game[w].cur = r /\ x \in game[w].joins BY <3>1, <3>2, <4>1, RoomOfIs, WhereIs
      <4>3. game[w].pc = "queues" BY <4>2 DEF LockInv, BatchInUse
      <4>4. x \in BatchOf(r) BY <4>2, <4>3, MovingHands DEF BatchOf
      <4> QED BY <3>2, <4>4 DEF Claimed
    <3> QED BY <3>3, <3>4, <3>5, PlaceCases
  <2> QED BY <1>3, <2>1, <2>2, ClaimsAre
<1>4. ASSUME Claimed(r, i) PROVE \E s \in Sess : <<r, i>> \in Claims(s)
  <2>1. CASE \E e \in Net : net[e].pc = "enter" /\ net[e].room = r /\ net[e].seat = i
    <3>1. PICK e \in Net : net[e].pc = "enter" /\ net[e].room = r /\ net[e].seat = i BY <2>1
    <3>2. net[e].sess \in Sess BY NetTyped DEF TypeOK
    <3>3. JoinClaim(net[e].sess, <<r, i>>) BY <3>1 DEF JoinClaim
    <3> QED BY <3>2, <3>3, ClaimsAre
  <2>2. ASSUME NEW p \in Place, NEW x \in Where[p], x.seat = i, RoomOf(p) = r
        PROVE  \E s \in Sess : <<r, i>> \in Claims(s)
    <3>1. x.sess \in Sess BY WhereTyped, EntryTyped DEF Holders
    <3>2. EntryClaim(x.sess, <<r, i>>) BY <1>2, <2>2 DEF EntryClaim
    <3> QED BY <3>1, <3>2, ClaimsAre
  <2>3. CASE \E x \in members[r] : x.seat = i
    BY <2>2, <2>3, PlaceCases, WhereIs, RoomOfIs
  <2>4. CASE \E x \in pendingJoin[r] : x.seat = i
    BY <2>2, <2>4, PlaceCases, WhereIs, RoomOfIs
  <2>5. CASE \E x \in BatchOf(r) : x.seat = i
    <3>1. PICK w \in Game : w = gameWorker[r] BY DEF TypeOK, MgrTypeOK
    <3>2. game[w].cur = r /\ \E x \in game[w].joins : x.seat = i
      BY <2>5, <3>1 DEF BatchOf
    <3> QED BY <2>2, <3>2, PlaceCases, WhereIs, RoomOfIs
  <2> QED BY <1>4, <2>1, <2>3, <2>4, <2>5 DEF Claimed
<1> QED BY <1>1, <1>3, <1>4 DEF UsedIsClaimed

(* An epoll worker's step that moves no entry changes no claim by an entry.     *)
LEMMA EntryClaimsStay ==
    ASSUME LockInv, LockInv', Stays, game' = game
    PROVE  \A s, h : EntryClaim(s, h)' <=> EntryClaim(s, h)
<1>1. \A p \in Place : Home(p)' = Home(p)
  BY NetSameRooms, HomeStays
<1> QED BY <1>1 DEF EntryClaim, Stays

(* An epoll worker's step that moves no entry and is no part of a Join          *)
(* changes no claim.                                                            *)
LEMMA NetClaims ==
    ASSUME LockInv, LockInv', Stays, game' = game,
           \A f \in Net : net[f].pc = "enter" \/ net'[f].pc = "enter" => net'[f] = net[f]
    PROVE  SameClaims
<1>1. \A s, h : EntryClaim(s, h)' <=> EntryClaim(s, h)
  BY EntryClaimsStay
<1>2. \A s, h : JoinClaim(s, h)' <=> JoinClaim(s, h)
  BY DEF JoinClaim
<1> QED BY <1>1, <1>2, ClaimsAre, ClaimsAreNext DEF SameClaims

(* A game worker that moves no entry and is in no transfer changes no claim.    *)
LEMMA GameClaims ==
    ASSUME LockInv, LockInv', NEW w \in Game, \A v \in Game : v # w => game'[v] = game[v],
           game[w].pc # "move", game'[w].pc # "move", Where[AtBatch(w)] = {}, Stays, net' = net
    PROVE  SameClaims
<1>1. \A p \in Place : p # AtBatch(w) => Home(p)' = Home(p)
  BY GameSameRooms, HomeStays
<1>2. \A p \in Place : \A x \in Where'[p] : x \in Where[p] /\ Home(p)' = Home(p)
  BY <1>1 DEF Stays
<1>3. \A p \in Place : \A x \in Where[p] : x \in Where'[p] /\ Home(p)' = Home(p)
  BY <1>1 DEF Stays
<1> QED BY <1>2, <1>3, ClaimsStay DEF SameClaims

(* Entries carried to a place that counts for the same room leave every claim   *)
(* as it was.                                                                   *)
LEMMA MovesClaims ==
    ASSUME NEW a, NEW b, NEW M, Moves(a, b, M), net' = net,
           \A p \in Place : p # b /\ Where'[p] # {} => Home(p)' = Home(p),
           Where[b] = {} \/ Home(b)' = Home(b), M = {} \/ Home(b)' = Home(a)
    PROVE  SameClaims
<1>1. ASSUME NEW p \in Place, NEW x \in Where'[p]
      PROVE  \E q \in Place : x \in Where[q] /\ Home(p)' = Home(q)
  BY <1>1 DEF Moves
<1>2. ASSUME NEW q \in Place, NEW x \in Where[q]
      PROVE  \E p \in Place : x \in Where'[p] /\ Home(p)' = Home(q)
  <2>1. CASE q = b
    BY <1>2, <2>1 DEF Moves
  <2>2. CASE q = a /\ x \in M
    BY <1>2, <2>2 DEF Moves
  <2>3. CASE q # b /\ ~(q = a /\ x \in M)
    <3>1. x \in Where'[q] BY <1>2, <2>3 DEF Moves
    <3> QED BY <2>3, <3>1
  <2> QED BY <2>1, <2>2, <2>3
<1> QED BY <1>1, <1>2, ClaimsStay DEF SameClaims

(* Dropping the entry of a session ends its one claim and nobody else's.        *)
LEMMA DropsClaims ==
    ASSUME LockInv, HoldInv, NEW a, NEW x, Drops(a, x), net' = net,
           \A p \in Place : Home(p)' = Home(p)
    PROVE  /\ Claims(x.sess) # {} /\ Claims(x.sess)' = {}
           /\ \A t \in Sess : t # x.sess => Claims(t)' = Claims(t)
<1>1. HeldIn(Where, x.sess)
  BY DEF HeldIn, Drops
<1>2. Claims(x.sess) # {} /\ \A h : ~JoinClaim(x.sess, h)
  BY <1>1, HeldClaims
<1>3. \A t, h : JoinClaim(t, h)' <=> JoinClaim(t, h)
  BY DEF JoinClaim
<1>4. \A p \in Place : \A y \in Where'[p] : y.sess # x.sess
  <2> SUFFICES ASSUME NEW p \in Place, NEW y \in Where'[p], y.sess = x.sess PROVE FALSE
    OBVIOUS
  <2>1. y \in Where[p] /\ (p = a => y # x)
    BY DEF Drops
  <2>2. p = a /\ y = x
    BY <2>1 DEF HoldInv, OnceIn, Drops
  <2> QED BY <2>1, <2>2
<1>5. \A h : ~EntryClaim(x.sess, h)'
  BY <1>4 DEF EntryClaim
<1>6. ASSUME NEW t \in Sess, t # x.sess PROVE Claims(t)' = Claims(t)
  <2>1. \A p \in Place : \A y : y.sess = t => (y \in Where'[p] <=> y \in Where[p])
    BY <1>6 DEF Drops
  <2>2. \A h : EntryClaim(t, h)' <=> EntryClaim(t, h)
    BY <2>1 DEF EntryClaim
  <2> QED BY <1>3, <2>2, ClaimsAre, ClaimsAreNext
<1> QED BY <1>2, <1>3, <1>5, <1>6, ClaimsAreNext

--------------------------------------------------------------------------------
(* The steps of the two kinds of worker.                                        *)

(* The inductive invariant the steps are mapped under.                          *)
RoomInv == LockInv /\ HandInv /\ SeatInv /\ HoldInv /\ LeaveInv /\ DeadLeaving

(* Join's reservation is TakeSeat: the session is online and seatless, and      *)
(* the seat is the lowest that nobody claims.                                   *)
LEMMA JoinTakes ==
    ASSUME TypeOK, LockInv, LockInv', HandInv, SeatInv, HoldInv, DeadLeaving,
           NEW e \in Net, NEW s \in mySessions[e], NEW r \in Rooms, NEW i \in Seats,
           net[e].pc \in {"serve", "reserve0"}, ~inRoom[s], \A f \in Net : net[f].pc # "enter",
           \A w \in Game : game[w].pc # "move",
           i \notin seatUsed[r], \A j \in Seats : j \notin seatUsed[r] => i <= j,
           net'[e].pc = "enter", net'[e].sess = s, net'[e].room = r, net'[e].seat = i,
           \A f \in Net : f # e => net'[f] = net[f],
           UNCHANGED <<free, dead, members, pendingJoin, game>>
    PROVE  ContractStep
<1>1. s \in Sess /\ Online(s) /\ SameOnline
  BY OwnedIsOnline DEF TypeOK, SessTypeOK, Away, SameOnline, Online
<1>2. ~HeldIn(Where, s)
  BY DEF HoldInv, NotYetIn
<1>3. Claims(s) = {}
  BY <1>2, NoClaims
<1>4. \A t, h : /\ EntryClaim(t, h)' <=> EntryClaim(t, h)
                /\ JoinClaim(t, h)' <=> t = s /\ h = <<r, i>>
                /\ ~JoinClaim(t, h)
  <2>1. \A t, h : EntryClaim(t, h)' <=> EntryClaim(t, h)
    BY EntriesStay, EntryClaimsStay
  <2>2. \A t, h : JoinClaim(t, h)' <=> t = s /\ h = <<r, i>>
    BY DEF JoinClaim
  <2>3. \A t, h : ~JoinClaim(t, h)
    BY DEF JoinClaim
  <2> QED BY <2>1, <2>2, <2>3
<1>5. Claims(s)' = {<<r, i>>}
  <2> SUFFICES ASSUME NEW h PROVE h \in Claims(s)' <=> h = <<r, i>>
    OBVIOUS
  <2>1. ~EntryClaim(s, h)
    BY <1>3, ClaimsAre
  <2> QED BY <1>4, <2>1, ClaimsAreNext
<1>6. ASSUME NEW t \in Sess, t # s PROVE Claims(t)' = Claims(t)
  <2> SUFFICES ASSUME NEW h PROVE h \in Claims(t)' <=> h \in Claims(t)
    OBVIOUS
  <2> QED BY <1>4, <1>6, ClaimsAre, ClaimsAreNext
<1>7. /\ \A t \in Sess : <<r, i>> \notin Claims(t)
      /\ \A j \in Seats : (\A t \in Sess : <<r, j>> \notin Claims(t)) => i <= j
  BY SeatsClaimed
<1> QED BY <1>1, <1>3, <1>5, <1>6, <1>7, TakesSeat

(* Every step of an epoll worker is a step of SeatService or a stutter: an      *)
(* accept connects, Disconnect disconnects, a reservation takes a seat, and     *)
(* the rest of Join, the leave and the release are not seen.                    *)
LEMMA NetContract ==
    ASSUME TypeOK, RoomInv, LockInv', NEW e \in Net, NetStep(e)
    PROVE  ContractStep
<1>0. /\ PoolTypeOK /\ SessTypeOK /\ LockInv /\ HandInv /\ SeatInv /\ HoldInv /\ LeaveInv /\ DeadLeaving
      /\ \A f \in Net : net[f].pc \notin {"idle", "serve"} => net[f].sess \in mySessions[f]
  BY DEF TypeOK, RoomInv, LockInv, NetHasSession
<1>1. ASSUME NEW s \in Sess, Accept(e, s) PROVE ContractStep
  <2>1. /\ s \in free /\ free' = free \ {s} /\ ~dead'[s]
        /\ \A t \in Sess : t # s => dead'[t] = dead[t]
        /\ UNCHANGED <<members, pendingJoin, game, net>>
    BY <1>0, <1>1, AcceptEffect DEF PoolTypeOK
  <2>2. SameClaims
    BY <1>0, <2>1, EntriesStay, NetClaims
  <2>3. Claims(s) = {}
    BY <1>0, <2>1, FreeIsSeatless
  <2>4. ~Online(s) /\ Online(s)' /\ \A t \in Sess : t # s => (Online(t)' <=> Online(t))
    BY <2>1 DEF Online
  <2> QED BY <2>2, <2>3, <2>4, Connects
<1>2. ASSUME NEW s \in Sess, AcceptAborted(e, s) PROVE ContractStep
  <2>1. /\ s \in free /\ free' = free /\ \A t \in Sess : t # s => dead'[t] = dead[t]
        /\ UNCHANGED <<members, pendingJoin, game, net>>
    BY <1>0, <1>2, AcceptAbortedEffect DEF PoolTypeOK
  <2>2. SameClaims
    BY <1>0, <2>1, EntriesStay, NetClaims
  <2>3. SameOnline
    BY <2>1 DEF SameOnline, Online
  <2> QED BY <2>2, <2>3, Unseen
<1>3. ASSUME NEW s \in Sess, JoinReserve(e, s) PROVE ContractStep
  <2>1. PICK r \in Rooms, i \in Seats : FirstFreeSeat(r, i) /\ NetAt(e, "enter", s, r, i)
    BY <1>0, <1>3, JoinReserveEffect
  <2>2. /\ net[e].pc = "serve" /\ s \in mySessions[e] /\ ~inRoom[s] /\ ~MgrLockHeld
        /\ UNCHANGED <<free, dead, members, pendingJoin, game>>
    BY <1>0, <1>3, JoinReserveEffect
  <2>3. (\A f \in Net : net[f].pc # "enter") /\ \A w \in Game : game[w].pc # "move"
    BY <2>2 DEF MgrLockHeld
  <2>4. i \notin seatUsed[r] /\ \A j \in Seats : j \notin seatUsed[r] => i <= j
    BY <2>1 DEF FirstFreeSeat
  <2>5. /\ net'[e].pc = "enter" /\ net'[e].sess = s /\ net'[e].room = r /\ net'[e].seat = i
        /\ \A f \in Net : f # e => net'[f] = net[f]
    BY <2>1 DEF NetAt
  <2> QED BY <1>0, <2>2, <2>3, <2>4, <2>5, JoinTakes
<1>4. ASSUME NEW s \in Sess, JoinAlloc(e, s) PROVE ContractStep
  <2>1. /\ net[e].pc # "enter" /\ net'[e].pc # "enter" /\ \A f \in Net : f # e
            => net'[f] = net[f]
        /\ UNCHANGED <<free, dead, game>>
    BY <1>0, <1>4, JoinAllocEffect DEF NetAt
  <2>2. Stays
    BY <1>0, <1>4, AllocStays
  <2>3. SameClaims
    BY <1>0, <2>1, <2>2, NetClaims
  <2> QED BY <2>1, <2>3, Unseen DEF SameOnline, Online
<1>5. ASSUME NEW s \in Sess, JoinFail(e, s) PROVE ContractStep
  <2>1. UNCHANGED <<free, dead, members, pendingJoin, net, game>>
    BY <1>5, JoinFailEffect
  <2>2. SameClaims
    BY <1>0, <2>1, EntriesStay, NetClaims
  <2> QED BY <2>1, <2>2, Unseen DEF SameOnline, Online
<1>6. ASSUME NEW s \in Sess, Disconnect(e, s) PROVE ContractStep
  <2>1. /\ net[e].pc = "serve" /\ s \in mySessions[e] /\ net'[e].pc # "enter"
        /\ \A f \in Net : f # e => net'[f] = net[f]
        /\ free' = free /\ dead'[s] /\ \A t \in Sess : t # s => dead'[t] = dead[t]
        /\ UNCHANGED <<members, pendingJoin, game>>
    BY <1>0, <1>6, DisconnectEffect DEF NetAt, PoolTypeOK
  <2>2. SameClaims
    BY <1>0, <2>1, EntriesStay, NetClaims
  <2>3. Online(s)
    BY <1>0, <2>1, OwnedIsOnline DEF Away
  <2>4. ~Online(s)' /\ \A t \in Sess : t # s => (Online(t)' <=> Online(t))
    BY <2>1 DEF Online
  <2> QED BY <2>2, <2>3, <2>4, Disconnects
<1>7. CASE JoinReserveFirst(e)
  <2>0. PICK s \in Sess, r \in Rooms, i \in Seats : s = net[e].sess /\ r = net[e].room /\ i = net[e].seat
    BY NetTyped DEF TypeOK
  <2>1. /\ net[e].pc = "reserve0" /\ net'[e].pc = "enter" /\ net'[e].sess = s
        /\ net'[e].room = r /\ net'[e].seat = i /\ \A f \in Net : f # e => net'[f] = net[f]
        /\ UNCHANGED <<free, dead, members, pendingJoin, game>>
    BY <1>7, <2>0, JoinReserveFirstEffect DEF NetAt
  <2>2. (\A f \in Net : net[f].pc # "enter") /\ \A w \in Game : game[w].pc # "move"
    BY <1>0, <2>1 DEF LockInv, LockExclusive, Locked
  <2>3. s \in mySessions[e] /\ ~inRoom[s]
    BY <1>0, <2>0, <2>1 DEF HoldInv, NotYetIn, Locked
  <2>4. seatUsed[r] = {} /\ i = 0
    <3>1. Expecting(r) BY <1>0, <2>2 DEF SeatInv, RoomSound, Moving
    <3> QED BY <2>0, <2>1, <3>1 DEF Expecting
  <2>5. \A j \in Seats : i <= j
    BY <2>4, RoomAssumption DEF Seats
  <2> QED BY <1>0, <2>1, <2>2, <2>3, <2>4, <2>5, JoinTakes
<1>8. CASE JoinEnter(e)
  <2>0. PICK s \in Sess, r \in Rooms, i \in Seats : s = net[e].sess /\ r = net[e].room /\ i = net[e].seat
    BY NetTyped DEF TypeOK
  <2> DEFINE x == Claim(e)
             b == AtPending(r)
  <2>1. /\ net[e].pc = "enter" /\ pendingJoin' = [pendingJoin EXCEPT ![r] = @ \cup {x}]
        /\ net'[e].pc = "serve" /\ \A f \in Net : f # e => net'[f] = net[f]
        /\ UNCHANGED <<free, dead, members, game>>
    BY <1>8, <2>0, JoinEnterEffect DEF NetAt
  <2>2. (\A f \in Net : f # e => net[f].pc # "enter") /\ \A w \in Game : game[w].pc # "move"
    BY <1>0, <2>1 DEF LockInv, LockExclusive, Locked
  <2>3. x.sess = s /\ x.seat = i
    BY <2>0 DEF Claim
  <2> HIDE DEF x
  <2>4. b \in Place /\ Where'[b] = Where[b] \cup {x} /\ \A p \in Place : p # b
            => Where'[p] = Where[p]
    <3>1. pendingJoin'[r] = pendingJoin[r] \cup {x} /\ \A q \in Rooms : q # r
              => pendingJoin'[q] = pendingJoin[q]
      BY <2>1 DEF TypeOK, QueueTypeOK
    <3>2. \A q \in Rooms : AtPending(q) # b => pendingJoin'[q] = pendingJoin[q]
      BY <3>1
    <3>3. \A p \in Place : p # b => Where'[p] = Where[p]
      <4>1. \A q \in Rooms : members'[q] = members[q] BY <2>1
      <4>2. \A v \in Game : game'[v].joins = game[v].joins BY <2>1
      <4> HIDE DEF b
      <4> QED BY <3>2, <4>1, <4>2, PlaceCases, WhereIs, WhereIsNext
    <3> QED BY <3>1, <3>3, PlaceCases, WhereIs, WhereIsNext
  <2>5. Home(b)' = r /\ \A p \in Place : Home(p)' = Home(p)
    <3>1. Home(b) = r BY <2>2, <2>4, HomeStill, RoomOfIs
    <3>2. \A p \in Place : Home(p)' = Home(p) BY <1>0, <2>1, NetSameRooms, HomeStays
    <3> QED BY <2>4, <3>1, <3>2
  <2> HIDE DEF b
  <2>6. \A t, h : /\ EntryClaim(t, h)' <=> EntryClaim(t, h) \/ (t = s /\ h = <<r, i>>)
                  /\ JoinClaim(t, h) <=> t = s /\ h = <<r, i>>
                  /\ ~JoinClaim(t, h)'
    <3>1. ASSUME NEW t, NEW h PROVE EntryClaim(t, h)' <=> EntryClaim(t, h) \/ (t = s /\ h = <<r, i>>)
      <4>1. ASSUME EntryClaim(t, h)' PROVE EntryClaim(t, h) \/ (t = s /\ h = <<r, i>>)
        <5>1. PICK p \in Place : \E y \in Where'[p] : y.sess = t /\ h = <<Home(p)', y.seat>>
          BY <4>1 DEF EntryClaim
        <5>2. PICK y \in Where'[p] : y.sess = t /\ h = <<Home(p)', y.seat>>
          BY <5>1
        <5>3. CASE y \in Where[p] BY <2>5, <5>2, <5>3 DEF EntryClaim
        <5>4. CASE p = b /\ y = x BY <2>3, <2>5, <5>2, <5>4
        <5> QED BY <2>4, <5>3, <5>4
      <4>2. ASSUME EntryClaim(t, h) PROVE EntryClaim(t, h)'
        BY <2>4, <2>5, <4>2 DEF EntryClaim
      <4>3. EntryClaim(s, <<r, i>>)'
        BY <2>3, <2>4, <2>5 DEF EntryClaim
      <4> QED BY <4>1, <4>2, <4>3
    <3>2. \A t, h : JoinClaim(t, h) <=> t = s /\ h = <<r, i>>
      BY <2>0, <2>1, <2>2 DEF JoinClaim
    <3>3. \A t, h : ~JoinClaim(t, h)'
      BY <2>1, <2>2 DEF JoinClaim
    <3> QED BY <3>1, <3>2, <3>3
  <2>7. SameClaims
    <3> SUFFICES ASSUME NEW t \in Sess, NEW h PROVE h \in Claims(t)' <=> h \in Claims(t)
      BY DEF SameClaims
    <3> QED BY <2>6, ClaimsAre, ClaimsAreNext
  <2> QED BY <2>1, <2>7, Unseen DEF SameOnline, Online
<1>9. CASE OnSessionLeave(e)
  <2>1. /\ net[e].pc # "enter" /\ net'[e].pc # "enter" /\ \A f \in Net : f # e
            => net'[f] = net[f]
        /\ UNCHANGED <<free, dead, members, pendingJoin, game>>
    BY <1>9, OnSessionLeaveEffect DEF NetAt
  <2>2. SameClaims
    BY <1>0, <2>1, EntriesStay, NetClaims
  <2> QED BY <2>1, <2>2, Unseen DEF SameOnline, Online
<1>10. CASE PushLeave(e)
  <2>1. /\ net[e].pc # "enter" /\ net'[e].pc # "enter" /\ \A f \in Net : f # e
            => net'[f] = net[f]
        /\ UNCHANGED <<free, dead, members, pendingJoin, game>>
    BY <1>10, PushLeaveEffect DEF NetAt
  <2>2. SameClaims
    BY <1>0, <2>1, EntriesStay, NetClaims
  <2> QED BY <2>1, <2>2, Unseen DEF SameOnline, Online
<1>11. CASE ReleaseNetRef(e)
  <2>1. /\ net[e].pc = "release" /\ net'[e].pc # "enter" /\ \A f \in Net : f # e
            => net'[f] = net[f]
        /\ Release(net[e].sess) /\ UNCHANGED <<dead, members, pendingJoin, game>>
    BY <1>11, ReleaseNetRefEffect DEF NetAt
  <2>2. SameClaims
    BY <1>0, <2>1, EntriesStay, NetClaims
  <2>3. dead[net[e].sess]
    BY <1>0, <2>1 DEF LeaveInv, Leaving
  <2>4. SameOnline
    BY <2>1, <2>3 DEF SameOnline, Online, Release
  <2> QED BY <2>2, <2>4, Unseen
<1>12. CASE ServeStep(e)
  <2>1. /\ net[e].pc # "enter" /\ net'[e].pc # "enter" /\ \A f \in Net : f # e
            => net'[f] = net[f]
        /\ UNCHANGED <<free, dead, members, pendingJoin, game>>
    BY <1>12, ServeEffect
  <2>2. SameClaims
    BY <1>0, <2>1, EntriesStay, NetClaims
  <2> QED BY <2>1, <2>2, Unseen DEF SameOnline, Online
<1> QED BY <1>1, <1>2, <1>3, <1>4, <1>5, <1>6, <1>7, <1>8, <1>9, <1>10, <1>11, <1>12
        DEF NetStep, ServeStep

(* Every step of a game worker is a step of SeatService or a stutter: the       *)
(* beginning of a transfer moves the party, a leave that matches and a join     *)
(* skipped give a seat up, and the queues, the installation and the rest of     *)
(* the transfer are not seen.                                                   *)
LEMMA GameContract ==
    ASSUME TypeOK, RoomInv, LockInv', NEW w \in Game, GameStep(w)
    PROVE  ContractStep
<1>0. LockInv /\ HandInv /\ SeatInv /\ HoldInv /\ LeaveInv
  BY DEF RoomInv
<1>1. CASE DrainRoomAddQ(w)
  <2>1. UNCHANGED <<free, dead, members, pendingJoin, net, game>>
    BY <1>1, DrainRoomAddQEffect
  <2>2. SameClaims
    BY <1>0, <2>1, EntriesStay, NetClaims
  <2> QED BY <2>1, <2>2, Unseen DEF SameOnline, Online
<1>2. ASSUME NEW r \in todo[w], SwapQueues(w, r) PROVE ContractStep
  <2> DEFINE a == AtPending(r)
             b == AtBatch(w)
  <2>1. r \in Rooms /\ Where[b] = {} /\ Moves(a, b, pendingJoin[r])
    BY <1>0, <1>2, SwapMoves
  <2>2. /\ game[w].pc # "move" /\ game'[w].pc # "move" /\ game'[w].cur = r
        /\ \A v \in Game : v # w => game'[v] = game[v]
        /\ UNCHANGED <<free, dead, net>>
    BY <1>2, SwapQueuesEffect DEF GameAt
  <2>3. RoomOf(a) = r /\ RoomOf(b)' = r /\ a \in Place /\ b \in Place
    BY <2>1, <2>2, RoomOfIs, RoomOfIsNext DEF Moves
  <2>4. \A p, q \in Place : RoomOf(p)' = RoomOf(q) => Home(p)' = Home(q)
    BY <1>0, <2>2, HomeStays
  <2>5. \A p \in Place : p # b => Home(p)' = Home(p)
    BY <2>2, <2>4, GameSameRooms
  <2>6. Home(b)' = Home(a)
    BY <2>3, <2>4
  <2> HIDE DEF a, b
  <2>7. SameClaims
    BY <2>1, <2>2, <2>5, <2>6, MovesClaims
  <2> QED BY <2>2, <2>7, Unseen DEF SameOnline, Online
<1>3. ASSUME NEW j \in game[w].joins, InstallMember(w, j) PROVE ContractStep
  <2>0. PICK c \in Rooms : c = game[w].cur
    BY GameTyped DEF TypeOK
  <2> DEFINE a == AtBatch(w)
             b == AtMember(c)
  <2>1. Moves(a, b, {j})
    BY <1>0, <1>3, <2>0, InstallMoves
  <2>2. /\ game[w].pc # "move" /\ game'[w].pc # "move" /\ game'[w].cur = game[w].cur
        /\ \A v \in Game : v # w => game'[v] = game[v]
        /\ UNCHANGED <<free, dead, net>>
    BY <1>3, InstallMemberEffect DEF GameAt
  <2>3. \A p \in Place : RoomOf(p)' = RoomOf(p)
    BY <2>2, PlaceCases, RoomOfIs, RoomOfIsNext
  <2>4. RoomOf(b)' = RoomOf(a) /\ a \in Place /\ b \in Place
    BY <2>0, <2>1, RoomOfIs, RoomOfIsNext DEF Moves
  <2>5. \A p, q \in Place : RoomOf(p)' = RoomOf(q) => Home(p)' = Home(q)
    BY <1>0, <2>2, HomeStays
  <2>6. Home(b)' = Home(a) /\ \A p \in Place : Home(p)' = Home(p)
    BY <2>3, <2>4, <2>5
  <2> HIDE DEF a, b
  <2>7. SameClaims
    BY <2>1, <2>2, <2>4, <2>6, MovesClaims
  <2> QED BY <2>2, <2>7, Unseen DEF SameOnline, Online
<1>4. ASSUME NEW a, NEW x, Drops(a, x), dead[x.sess], Release(x.sess),
             \A v \in Game : game'[v].cur = game[v].cur,
             game[w].pc # "move", game'[w].pc # "move",
             \A v \in Game : v # w => game'[v] = game[v], net' = net
      PROVE  ContractStep
  <2>1. \A p \in Place : RoomOf(p)' = RoomOf(p)
    BY <1>4, PlaceCases, RoomOfIs, RoomOfIsNext
  <2>2. \A p \in Place : Home(p)' = Home(p)
    BY <1>0, <1>4, <2>1, HomeStays
  <2>3. /\ Claims(x.sess) # {} /\ Claims(x.sess)' = {}
        /\ \A t \in Sess : t # x.sess => Claims(t)' = Claims(t)
    BY <1>0, <1>4, <2>2, DropsClaims
  <2>4. x.sess \in Sess
    BY <1>4, WhereTyped, EntryTyped DEF Drops, Holders
  <2>5. SameOnline /\ ~Online(x.sess)
    BY <1>4 DEF SameOnline, Online, Release
  <2> QED BY <2>3, <2>4, <2>5, GivesUp
<1>5. ASSUME NEW j \in game[w].joins, SkipJoin(w, j) PROVE ContractStep
  <2>1. /\ ~StillThere(j) /\ Release(j.sess) /\ net' = net
        /\ game[w].pc # "move" /\ game'[w].pc # "move" /\ game'[w].cur = game[w].cur
        /\ \A v \in Game : v # w => game'[v] = game[v]
    BY <1>5, SkipJoinEffect DEF GameAt
  <2>2. Drops(AtBatch(w), j)
    BY <1>5, SkipDrops
  <2>3. j.gen = gen[j.sess]
    BY <1>0, <2>2 DEF HoldInv, GenAgrees, Drops
  <2>4. dead[j.sess]
    BY <2>1, <2>3 DEF StillThere
  <2> QED BY <1>4, <2>1, <2>2, <2>4
<1>6. ASSUME NEW l \in game[w].leaves, ProcessLeave(w, l) PROVE ContractStep
  <2>1. /\ net' = net /\ dead' = dead
        /\ game[w].pc # "move" /\ game'[w].pc # "move" /\ game'[w].cur = game[w].cur
        /\ \A v \in Game : v # w => game'[v] = game[v]
        /\ game[w].joins = {}
    BY <1>6, ProcessLeaveEffect DEF GameAt
  <2>2. CASE \E m \in members[game[w].cur] :
                 Matches(m, l) /\ Release(m.sess) /\ Drops(AtMember(game[w].cur), m)
    <3>1. PICK m \in members[game[w].cur] :
                 Matches(m, l) /\ Release(m.sess) /\ Drops(AtMember(game[w].cur), m)
      BY <2>2
    <3>2. m.gen = gen[m.sess]
      BY <1>0, <3>1 DEF HoldInv, GenAgrees, Drops
    <3>3. OldLeave(l)
      <4>1. l \in LeaveEntry BY GameTyped DEF TypeOK
      <4> QED BY <1>0, <4>1 DEF LeaveInv, LeavesOld, LeaveQueued
    <3>4. dead[m.sess]
      BY <3>1, <3>2, <3>3 DEF Matches, OldLeave
    <3> QED BY <1>4, <2>1, <3>1, <3>4
  <2>3. CASE Stays /\ UNCHANGED <<free, gen, refs>>
    <3>1. Where[AtBatch(w)] = {}
      BY <2>1, WhereIs
    <3>2. SameClaims
      BY <1>0, <2>1, <2>3, <3>1, GameClaims
    <3> QED BY <2>1, <2>3, <3>2, Unseen DEF SameOnline, Online
  <2> QED BY <1>6, <2>2, <2>3, LeaveDrops
<1>7. ASSUME game[w].pc # "move", game'[w].pc # "move", game[w].joins = {}, game'[w].joins = {},
             \A v \in Game : v # w => game'[v] = game[v],
             UNCHANGED <<free, dead, members, pendingJoin, net>>
      PROVE  ContractStep
  <2>1. Stays
    BY <1>7, EntriesStay
  <2>2. Where[AtBatch(w)] = {}
    BY <1>7, WhereIs
  <2>3. SameClaims
    BY <1>0, <1>7, <2>1, <2>2, GameClaims
  <2> QED BY <1>7, <2>3, Unseen DEF SameOnline, Online
<1>8. CASE DeathCheck(w)
  BY <1>7, <1>8, DeathCheckEffect DEF GameAt
<1>9. CASE ReapRoom(w)
  BY <1>0, <1>7, <1>9, ReapRoomEffect DEF GameAt, LockInv, BatchInUse
<1>10. CASE RoomTick(w)
  BY <1>0, <1>7, <1>10, RoomTickEffect DEF GameAt, LockInv, BatchInUse
<1>11. CASE TransferBegin(w)
  <2>0. PICK old \in Rooms, new \in Rooms : old = game[w].cur /\ new = game'[w].nr
    BY <1>0, <1>11, BeginMoves, FreeRoom, GameTyped DEF TypeOK
  <2> DEFINE a == AtPending(old)
             b == AtBatch(w)
  <2>1. /\ Where[b] = {} /\ Moves(a, b, pendingJoin[old])
        /\ game'[w].pc = "move" /\ game'[w].cur = old /\ new \in freeRooms /\ new # old
        /\ \A v \in Game : v # w => game'[v] = game[v]
    BY <1>0, <1>11, <2>0, BeginMoves
  <2>2. /\ game[w].pc = "tick" /\ memberCount[old] # 0
        /\ \A v \in Game : game[v].pc # "move"
        /\ \A f \in Net : net[f].pc # "enter"
        /\ UNCHANGED <<free, dead, net>>
    BY <1>11, <2>0, TransferBeginEffect DEF MgrLockHeld
  <2>3. \A p \in Place : RoomOf(p)' = RoomOf(p) /\ Home(p) = RoomOf(p)
    BY <2>0, <2>1, <2>2, PlaceCases, RoomOfIs, RoomOfIsNext, HomeStill
  <2>4. \A p \in Place : Home(p)' = IF Home(p) = old THEN new ELSE Home(p)
    BY <1>0, <2>0, <2>1, <2>3, HomeMovingNext
  <2>5. RoomOf(a) = RoomOf(b)
    BY <2>0, RoomOfIs
  <2> HIDE DEF a, b
  <2>6. /\ \A p \in Place : \A x \in Where'[p] : \E q \in Place : x \in Where[q] /\ RoomOf(q) = RoomOf(p)
        /\ \A q \in Place : \A x \in Where[q] : \E p \in Place : x \in Where'[p] /\ RoomOf(q) = RoomOf(p)
    <3>1. ASSUME NEW p \in Place, NEW x \in Where'[p]
          PROVE  \E q \in Place : x \in Where[q] /\ RoomOf(q) = RoomOf(p)
      BY <2>1, <2>5, <3>1 DEF Moves
    <3>2. ASSUME NEW q \in Place, NEW x \in Where[q]
          PROVE  \E p \in Place : x \in Where'[p] /\ RoomOf(q) = RoomOf(p)
      <4>1. CASE q = a /\ x \in pendingJoin[old]
        <5>1. x \in Where'[b] /\ b \in Place BY <2>1, <4>1 DEF Moves
        <5> QED BY <2>5, <4>1, <5>1
      <4>2. CASE ~(q = a /\ x \in pendingJoin[old])
        <5>1. x \in Where'[q] BY <2>1, <4>2 DEF Moves
        <5> QED BY <5>1
      <4> QED BY <4>1, <4>2
    <3> QED BY <3>1, <3>2
  <2>7. \A s, h : ~JoinClaim(s, h) /\ ~JoinClaim(s, h)'
    BY <2>2 DEF JoinClaim
  <2>8. \A s : Claims(s)' = {<<IF h[1] = old THEN new ELSE h[1], h[2]>> : h \in Claims(s)}
    <3> SUFFICES ASSUME NEW s, NEW k
                 PROVE  k \in Claims(s)' <=>
                           \E h \in Claims(s) : k = <<IF h[1] = old THEN new ELSE h[1], h[2]>>
      OBVIOUS
    <3>1. k \in Claims(s)' <=> EntryClaim(s, k)'
      BY <2>7, ClaimsAreNext
    <3>2. \A h : h \in Claims(s) <=> EntryClaim(s, h)
      BY <2>7, ClaimsAre
    <3>3. ASSUME EntryClaim(s, k)'
          PROVE  \E h : EntryClaim(s, h) /\ k = <<IF h[1] = old THEN new ELSE h[1], h[2]>>
      <4>1. PICK p \in Place : \E x \in Where'[p] : x.sess = s /\ k = <<Home(p)', x.seat>>
        BY <3>3 DEF EntryClaim
      <4>2. PICK x \in Where'[p] : x.sess = s /\ k = <<Home(p)', x.seat>>
        BY <4>1
      <4>3. PICK q \in Place : x \in Where[q] /\ RoomOf(q) = RoomOf(p)
        BY <2>6, <4>2
      <4>4. Home(p)' = IF Home(q) = old THEN new ELSE Home(q)
        BY <2>3, <2>4, <4>3
      <4>5. EntryClaim(s, <<Home(q), x.seat>>)
        BY <4>2, <4>3 DEF EntryClaim
      <4>6. k = <<IF <<Home(q), x.seat>>[1] = old THEN new ELSE <<Home(q), x.seat>>[1],
                  <<Home(q), x.seat>>[2]>>
        BY <4>2, <4>4
      <4> QED BY <4>5, <4>6
    <3>4. ASSUME NEW h, EntryClaim(s, h), k = <<IF h[1] = old THEN new ELSE h[1], h[2]>>
          PROVE  EntryClaim(s, k)'
      <4>1. PICK q \in Place : \E x \in Where[q] : x.sess = s /\ h = <<Home(q), x.seat>>
        BY <3>4 DEF EntryClaim
      <4>2. PICK x \in Where[q] : x.sess = s /\ h = <<Home(q), x.seat>>
        BY <4>1
      <4>3. PICK p \in Place : x \in Where'[p] /\ RoomOf(q) = RoomOf(p)
        BY <2>6, <4>2
      <4>4. Home(p)' = IF Home(q) = old THEN new ELSE Home(q)
        BY <2>3, <2>4, <4>3
      <4>5. k = <<Home(p)', x.seat>>
        BY <3>4, <4>2, <4>4
      <4> QED BY <4>2, <4>3, <4>5 DEF EntryClaim
    <3> QED BY <3>1, <3>2, <3>3, <3>4
  <2>9. \E i \in Seats : \E s \in Sess : <<old, i>> \in Claims(s)
    <3>1. members[old] # {}
      <4>1. Counted(old) BY <1>0, <2>2 DEF SeatInv, RoomSound, Moving
      <4> QED BY <2>2, <4>1, FS_EmptySet DEF Counted
    <3>2. PICK x \in members[old] : x.sess \in Sess /\ x.seat \in Seats
      BY <3>1, EntryTyped DEF TypeOK, MemberTypeOK
    <3>3. EntryClaim(x.sess, <<old, x.seat>>)
      BY <2>3, <3>2, PlaceCases, WhereIs, RoomOfIs DEF EntryClaim
    <3> QED BY <3>2, <3>3, ClaimsAre
  <2>10. \A i \in Seats : \A s \in Sess : <<new, i>> \notin Claims(s)
    <3>1. seatUsed[new] = {}
      BY <1>0, <2>1, <2>2 DEF SeatInv, RoomSound, DeadIsUnused, Moving
    <3> QED BY <1>0, <2>2, <3>1, SeatsClaimed
  <2>11. SameOnline
    BY <2>2 DEF SameOnline, Online
  <2> QED BY <2>8, <2>9, <2>10, <2>11, MovesParty
<1>12. ASSUME NEW m \in members[game[w].cur], TransferMember(w, m) PROVE ContractStep
  <2>0. PICK old \in Rooms, new \in Rooms : old = game[w].cur /\ new = game[w].nr
    BY GameTyped DEF TypeOK
  <2> DEFINE a == AtMember(old)
             b == AtMember(new)
  <2>1. Moves(a, b, {m})
    BY <1>0, <1>12, <2>0, MemberMoves
  <2>2. game[w].pc = "move" /\ UNCHANGED <<free, dead, net, game>>
    BY <1>12, TransferMemberEffect
  <2>3. \A p \in Place : Home(p)' = Home(p)
    BY <1>0, <2>2, NetSameRooms, HomeStays
  <2>4. Home(a) = new /\ Home(b) = new /\ a \in Place /\ b \in Place
    BY <1>0, <2>0, <2>1, <2>2, HomeMoving, RoomOfIs DEF Moves
  <2> HIDE DEF a, b
  <2>5. SameClaims
    BY <2>1, <2>2, <2>3, <2>4, MovesClaims
  <2> QED BY <2>2, <2>5, Unseen DEF SameOnline, Online
<1>13. CASE TransferEnd(w)
  <2>0. PICK old \in Rooms, new \in Rooms : old = game[w].cur /\ new = game[w].nr
    BY GameTyped DEF TypeOK
  <2> DEFINE a == AtBatch(w)
             b == AtPending(new)
  <2>1. Moves(a, b, game[w].joins) /\ Where[b] = {}
    BY <1>0, <1>13, <2>0, EndMoves
  <2>2. /\ game[w].pc = "move" /\ members[old] = {} /\ game'[w].pc # "move"
        /\ \A v \in Game : v # w => game'[v] = game[v]
        /\ UNCHANGED <<free, dead, net, members>>
    BY <1>13, <2>0, TransferEndEffect DEF GameAt
  <2>3. \A v \in Game : game'[v].pc # "move"
    BY <1>0, <2>2 DEF LockInv, LockExclusive
  <2>4. /\ \A p \in Place : Home(p) = IF RoomOf(p) = old THEN new ELSE RoomOf(p)
        /\ \A p \in Place : Home(p)' = RoomOf(p)'
    BY <1>0, <2>0, <2>2, <2>3, HomeMoving, HomeStillNext
  <2>5. old # new /\ pendingJoin[old] = {} /\ \A v \in Game : v # w /\ game[v].cur = old
            => game[v].joins = {}
    <3>1. old # new BY <1>0, <2>0, <2>2, MovingHands
    <3>2. pendingJoin[old] = {} BY <1>0, <2>0, <2>2 DEF SeatInv, PartySound
    <3>3. ASSUME NEW v \in Game, v # w, game[v].cur = old PROVE game[v].joins = {}
      <4>1. game[v].pc = "rooms" BY <1>0, <2>0, <2>2, <3>3, MovingHands
      <4> QED BY <1>0, <4>1 DEF LockInv, BatchInUse
    <3> QED BY <3>1, <3>2, <3>3
  <2>6. ASSUME NEW p \in Place, p # b, Where'[p] # {} PROVE RoomOf(p)' = RoomOf(p) /\ RoomOf(p) # old
    <3>1. p # a
      BY <1>13, <2>6, TransferEndEffect, WhereIsNext DEF GameAt
    <3>2. Where'[p] = Where[p]
      BY <2>1, <2>6, <3>1 DEF Moves
    <3>3. CASE \E r \in Rooms : p = AtMember(r)
      BY <2>2, <2>6, <3>2, <3>3, RoomOfIs, RoomOfIsNext, WhereIs
    <3>4. CASE \E r \in Rooms : p = AtPending(r)
      BY <2>5, <2>6, <3>2, <3>4, RoomOfIs, RoomOfIsNext, WhereIs
    <3>5. CASE \E v \in Game : p = AtBatch(v)
      <4>1. PICK v \in Game : p = AtBatch(v) BY <3>5
      <4>2. v # w /\ game'[v] = game[v] BY <2>2, <3>1, <4>1
      <4>3. game[v].joins # {} BY <2>6, <3>2, <4>1, WhereIs
      <4> QED BY <2>5, <4>1, <4>2, <4>3, RoomOfIs, RoomOfIsNext
    <3> QED BY <3>3, <3>4, <3>5, PlaceCases
  <2>7. \A p \in Place : p # b /\ Where'[p] # {} => Home(p)' = Home(p)
    BY <2>4, <2>6
  <2>8. Home(a) = new /\ Home(b)' = new
    <3>1. a \in Place /\ b \in Place /\ RoomOf(a) = old /\ RoomOf(b)' = new
      BY <2>0, <2>1, RoomOfIs, RoomOfIsNext DEF Moves
    <3> QED BY <2>4, <3>1
  <2> HIDE DEF a, b
  <2>9. SameClaims
    BY <2>1, <2>2, <2>7, <2>8, MovesClaims
  <2> QED BY <2>2, <2>9, Unseen DEF SameOnline, Online
<1> QED BY <1>1, <1>2, <1>3, <1>5, <1>6, <1>8, <1>9, <1>10, <1>11, <1>12, <1>13 DEF GameStep

--------------------------------------------------------------------------------
(* The refinement.                                                              *)

(* At the start nobody is online and nobody has a seat.                         *)
LEMMA ContractInit == Init => Seating!Init
<1> SUFFICES ASSUME Init PROVE Seating!Init
  OBVIOUS
<1>1. /\ free = Sess /\ \A e \in Net : net[e].pc = "idle"
      /\ \A r \in Rooms : members[r] = {} /\ pendingJoin[r] = {}
      /\ \A w \in Game : game[w].joins = {}
  BY DEF Init, PoolInit, NetIdle, BetweenRooms
<1>2. \A p \in Place : Where[p] = {}
  BY <1>1, PlaceCases, WhereIs
<1>3. \A s \in Sess : Claims(s) = {}
  <2> SUFFICES ASSUME NEW s \in Sess PROVE Claims(s) = {}
    OBVIOUS
  <2>1. ~HeldIn(Where, s)
    BY <1>2 DEF HeldIn
  <2> QED BY <1>1, <2>1, NoClaims
<1> QED BY <1>1, <1>3 DEF Seating!Init

(* Every step of the room manager is a step of SeatService or a stutter.        *)
LEMMA ContractNext ==
    TypeOK /\ RoomInv /\ LockInv' /\ [Next]_vars => ContractStep
<1> SUFFICES ASSUME TypeOK, RoomInv, LockInv', [Next]_vars PROVE ContractStep
  OBVIOUS
<1>1. CASE UNCHANGED vars
  <2>1. UNCHANGED <<free, dead, members, pendingJoin, net, game>>
    BY <1>1 DEF vars, poolVars, sessVars, roomVars, queueVars, memberVars, gameVars
  <2>2. SameClaims
    BY <2>1, EntriesStay, NetClaims DEF RoomInv
  <2> QED BY <2>1, <2>2, Unseen DEF SameOnline, Online
<1> QED BY <1>1, NetContract, GameContract DEF Next

(* The room manager implements SeatService: however joins, leaves, releases and *)
(* the steps of a transfer interleave under AcceptsAfter, a seat is taken by    *)
(* one session, is the lowest vacant one, is lost by a gone connection only,    *)
(* and moves with the whole party at one instant (RoomManager.cpp: Join,        *)
(* ProcessRoomQueues, TransferRoom).                                            *)
THEOREM SeatContractHolds == PatientSpec => SeatContract
<1>1. TypeOK /\ RoomInv /\ LockInv' /\ [Next]_vars => [Seating!Next]_(Seating!vars)
  BY ContractNext DEF ContractStep
<1>2. PatientSpec => []RoomInv
  BY LockHolder, RoomsInHand, SeatsSound, HoldersSound, LeavesSound, LeaversSound, PTL DEF
     RoomInv
<1> QED BY ContractInit, <1>1, <1>2, TypeCorrect, LockHolder, PTL DEF Spec, PatientSpec, SeatContract,
           Seating!Spec

--------------------------------------------------------------------------------
(* What the refinement is worth: seats are exclusive.                           *)

(* NoDoubleBooking of the seats h.                                              *)
Exclusive(h) ==
    /\ h \in [Sess -> SUBSET (Rooms \X Seats)]
    /\ \A s \in Sess : \A g, k \in h[s] : g = k
    /\ \A s, t \in Sess : h[s] \cap h[t] # {} => s = t

(* Where a seat is after the party of room r has moved to room q.               *)
MovedSeat(g, r, q) == <<IF g[1] = r THEN q ELSE g[1], g[2]>>

(* Two seats that are apart before a move to an empty room are apart after it.  *)
LEMMA MovedApart ==
    ASSUME NEW r \in Rooms, NEW q \in Rooms,
           NEW g \in Rooms \X Seats, NEW k \in Rooms \X Seats,
           g[1] # q, k[1] # q,
           MovedSeat(g, r, q) = MovedSeat(k, r, q)
    PROVE  g = k
BY DEF MovedSeat

(* A seat that nobody has may be taken by who has none.                         *)
LEMMA TakenExclusive ==
    ASSUME NEW h, Exclusive(h), NEW s \in Sess, NEW r \in Rooms, NEW i \in Seats,
           \A t \in Sess : <<r, i>> \notin h[t],
           NEW n, n = [h EXCEPT ![s] = {<<r, i>>}]
    PROVE  Exclusive(n)
<1>1. /\ n \in [Sess -> SUBSET (Rooms \X Seats)] /\ n[s] = {<<r, i>>}
      /\ \A t \in Sess \ {s} : n[t] = h[t]
  BY DEF Exclusive
<1> QED BY ONLY <1>1, Exclusive(h), \A t \in Sess : <<r, i>> \notin h[t] DEF Exclusive

(* A party may move to a room where nobody has a seat.                          *)
LEMMA MovedExclusive ==
    ASSUME NEW h, Exclusive(h), NEW r \in Rooms, NEW q \in Rooms,
           \A t \in Sess, i \in Seats : <<q, i>> \notin h[t],
           NEW n, n = [s \in Sess |-> {MovedSeat(g, r, q) : g \in h[s]}]
    PROVE  Exclusive(n)
<1>1. \A t \in Sess : \A g \in h[t] : g \in Rooms \X Seats /\ g[1] # q
  BY DEF Exclusive
<1>2. n \in [Sess -> SUBSET (Rooms \X Seats)]
  BY <1>1 DEF MovedSeat
<1>3. \A s \in Sess : \A g, k \in n[s] : g = k
  BY DEF Exclusive
<1>4. ASSUME NEW s \in Sess, NEW t \in Sess, NEW g \in n[s] \cap n[t]
      PROVE  s = t
  <2>1. PICK x \in h[s] : g = MovedSeat(x, r, q)
    BY <1>4
  <2>2. PICK y \in h[t] : g = MovedSeat(y, r, q)
    BY <1>4
  <2>3. x = y
    BY <1>1, <2>1, <2>2, MovedApart
  <2> QED BY <2>3 DEF Exclusive
<1> QED BY <1>2, <1>3, <1>4 DEF Exclusive

(* The seats of all sessions, as Seating has them.                              *)
AllClaims == [s \in Sess |-> Claims(s)]

(* No step of the contract books a seat twice.                                  *)
LEMMA ContractExclusive == Exclusive(AllClaims) /\ ContractStep => Exclusive(AllClaims)'
<1> SUFFICES ASSUME Exclusive(AllClaims), ContractStep PROVE Exclusive(AllClaims')
  BY DEF Exclusive
<1>1. CASE AllClaims' = AllClaims
  BY <1>1
<1>2. ASSUME NEW s \in Sess, Seating!GiveUp(s)
      PROVE  Exclusive(AllClaims')
  <2>1. AllClaims' = [AllClaims EXCEPT ![s] = {}]
    BY <1>2 DEF Seating!GiveUp, AllClaims
  <2> HIDE DEF AllClaims
  <2> QED BY <2>1 DEF Exclusive
<1>3. ASSUME NEW s \in Sess, NEW r \in Rooms, NEW i \in Seats, Seating!TakeSeat(s, r, i)
      PROVE  Exclusive(AllClaims')
  <2>1. AllClaims' = [AllClaims EXCEPT ![s] = {<<r, i>>}]
    BY <1>3 DEF Seating!TakeSeat, AllClaims
  <2>2. \A t \in Sess : <<r, i>> \notin AllClaims[t]
    BY <1>3, SeatTaken DEF Seating!TakeSeat, AllClaims
  <2> QED BY <2>1, <2>2, TakenExclusive
<1>4. ASSUME NEW r \in Rooms, NEW q \in Rooms, Seating!MoveParty(r, q)
      PROVE  Exclusive(AllClaims')
  <2>1. AllClaims' = [s \in Sess |-> {MovedSeat(g, r, q) : g \in AllClaims[s]}]
    BY <1>4 DEF Seating!MoveParty, AllClaims, MovedSeat
  <2>2. \A t \in Sess, i \in Seats : <<q, i>> \notin AllClaims[t]
    BY <1>4, SeatTaken DEF Seating!MoveParty, AllClaims
  <2> QED BY <2>1, <2>2, MovedExclusive
<1>5. CASE \E s \in Sess : Seating!Connect(s) \/ Seating!Disconnect(s)
  BY <1>1, <1>5 DEF Seating!Connect, Seating!Disconnect, AllClaims
<1>6. CASE Seating!SeatStep
  BY <1>2, <1>3, <1>4, <1>6 DEF Seating!SeatStep
<1>7. CASE UNCHANGED Seating!vars
  BY <1>1, <1>7 DEF Seating!vars, AllClaims
<1> QED BY <1>5, <1>6, <1>7 DEF ContractStep, Seating!Next

(* No slot has two seats and no seat two slots, at any step of a join, a leave  *)
(* or a room move, for any number of threads that keep AcceptsAfter: what every *)
(* implementation of SeatService, and RoomManager as one, guarantees            *)
(* (RoomManager.cpp:132, 254, 494).                                             *)
THEOREM SeatsExclusive == PatientSpec => []Seating!NoDoubleBooking
<1>1. Seating!Init => Exclusive(AllClaims)
  BY DEF Seating!Init, Exclusive, AllClaims
<1>2. Exclusive(AllClaims) /\ [Seating!Next]_(Seating!vars) => Exclusive(AllClaims)'
  BY ContractExclusive DEF ContractStep
<1>3. Exclusive(AllClaims) => Seating!NoDoubleBooking
  BY DEF Exclusive, AllClaims, Seating!NoDoubleBooking
<1> QED BY <1>1, <1>2, <1>3, SeatContractHolds, PTL DEF SeatContract, Seating!Spec

--------------------------------------------------------------------------------
(* How a leave gets lost: the finding of LostLeave, exactly.                    *)

(* The leave entry that removes the member m.                                   *)
LeaveFor(m) == [sess |-> m.sess, gen |-> m.gen]

(* A transfer is emptying room r: nobody will look at its queues again.         *)
Emptied(r) == \E w \in Game : game[w].pc = "move" /\ game[w].cur = r

(* The batch of game worker w will be applied to the members of room r, at      *)
(* once or after the transfer into r.                                           *)
Working(w, r) ==
    \/ game[w].pc \in {"queues", "move"} /\ game[w].cur = r
    \/ game[w].pc = "move" /\ game[w].nr = r

(* Worker e is about to queue a leave of session s in room r.                   *)
Pushing(e, s, r) == net[e].pc = "pushLeave" /\ net[e].sess = s /\ net[e].room = r

(* The leave of member m is on its way to the room r that m is in: its worker   *)
(* has not asked for the room yet, or is about to queue it there, or it is in   *)
(* the room's queue or in a batch for the room.                                 *)
OnItsWay(m, r) ==
    \/ \E e \in Net : net[e].pc = "leave" /\ net[e].sess = m.sess
    \/ ~Emptied(r) /\ \E e \in Net : Pushing(e, m.sess, r)
    \/ ~Emptied(r) /\ LeaveFor(m) \in pendingLeave[r]
    \/ \E w \in Game : LeaveFor(m) \in game[w].leaves /\ Working(w, r)

(* Every member whose session has gone is going to be removed.                  *)
LeaveFound == \A r \in Rooms : \A m \in members[r] : dead[m.sess] => OnItsWay(m, r)

(* A leave comes late: a worker that has read the number of a room, and not     *)
(* queued its leave there yet, is overtaken by the transfer that empties the    *)
(* room and takes its member along.                                             *)
LateLeave ==
    \E e \in Net, w \in Game :
        /\ net[e].pc = "pushLeave" /\ game[w].pc = "move" /\ net[e].room = game[w].cur
        /\ \E m \in members[game[w].cur] \cup members[game[w].nr] : m.sess = net[e].sess

(* A member that a transfer has not moved yet was told the old room.            *)
Unmoved == \A w \in Game : game[w].pc = "move" =>
               \A m \in members[game[w].cur] : roomIdx[m.sess] = game[w].cur

(* The owner of session s, if it has one, has queued its leave.                 *)
Left(s) == \A e \in Net : s \in mySessions[e] => net[e].pc = "release" /\ net[e].sess = s

(* A leave entry of a slot's present generation is queued by the end of its     *)
(* owner's Disconnect only.                                                     *)
LeftQueued == \A l \in LeaveEntry : LeaveQueued(l) /\ l.gen = gen[l.sess] => Left(l.sess)

(* Ninth layer of the inductive invariant.                                      *)
LeftInv == Unmoved /\ LeftQueued

(* At the start no room moves and nobody leaves.                                *)
LEMMA LeftInit == Init => LeftInv
<1> SUFFICES ASSUME Init PROVE LeftInv OBVIOUS
<1>1. Unmoved
  BY DEF Init, Unmoved, BetweenRooms
<1>2. \A l : ~LeaveQueued(l)
  BY DEF Init, LeaveQueued, BetweenRooms
<1> QED BY <1>1, <1>2 DEF LeftInv, LeftQueued

(* Unmoved is kept by a step that begins no transfer, gives the old room of     *)
(* one no member and tells no session with an entry another room.               *)
LEMMA UnmovedStays ==
    ASSUME TypeOK, Unmoved,
           \A v \in Game : game'[v].pc = "move"
               => /\ game[v].pc = "move" /\ game'[v].cur = game[v].cur
                  /\ members'[game[v].cur] \subseteq members[game[v].cur],
           \A s \in Sess : HeldIn(Where, s) => roomIdx'[s] = roomIdx[s]
    PROVE  Unmoved'
<1> SUFFICES ASSUME NEW v \in Game, game'[v].pc = "move", NEW m \in members'[game'[v].cur]
             PROVE  roomIdx'[m.sess] = game'[v].cur
  BY DEF Unmoved
<1>1. PICK r \in Rooms : r = game[v].cur
  BY GameTyped DEF TypeOK
<1>2. game[v].pc = "move" /\ game'[v].cur = r /\ m \in members[r]
  BY <1>1
<1>3. roomIdx[m.sess] = r
  BY <1>1, <1>2 DEF Unmoved
<1>4. m.sess \in Sess
  BY <1>2, EntryTyped DEF TypeOK, MemberTypeOK
<1>5. HeldIn(Where, m.sess)
  BY <1>2, PlaceCases, WhereIs DEF HeldIn
<1> QED BY <1>2, <1>3, <1>4, <1>5

(* LeftQueued is kept by a step that queues no leave, takes no generation back, *)
(* and gives no session with a leave in a queue to a worker.                    *)
LEMMA LeftStays ==
    ASSUME TypeOK, LeavesOld, LeftQueued,
           \A l \in LeaveEntry : LeaveQueued(l)' => LeaveQueued(l),
           \A s \in Sess : gen'[s] \in Nat /\ gen[s] <= gen'[s],
           \A f \in Net : \A s \in mySessions'[f] :
               \/ s \in free
               \/ /\ s \in mySessions[f]
                  /\ net[f].pc = "release" /\ net[f].sess = s => net'[f] = net[f]
    PROVE  LeftQueued'
<1> SUFFICES ASSUME NEW l \in LeaveEntry, LeaveQueued(l)', l.gen = gen'[l.sess],
                    NEW f \in Net, l.sess \in mySessions'[f]
             PROVE  net'[f].pc = "release" /\ net'[f].sess = l.sess
  BY DEF LeftQueued, Left
<1>1. l.sess \in Sess /\ l.gen \in Nat
  BY EntryTyped
<1>2. LeaveQueued(l) /\ l.gen <= gen[l.sess]
  BY DEF LeavesOld, OldLeave
<1>3. l.gen = gen[l.sess]
  BY <1>1, <1>2 DEF TypeOK, PoolTypeOK
<1>4. l.sess \notin free /\ Left(l.sess)
  BY <1>2, <1>3 DEF LeavesOld, OldLeave, LeftQueued
<1> QED BY <1>4 DEF Left

(* A reference that is given back takes no generation back.                     *)
LEMMA GensByRelease ==
    ASSUME TypeOK, NEW s \in Sess, Release(s)
    PROVE  \A t \in Sess : gen'[t] \in Nat /\ gen[t] <= gen'[t]
BY DEF Release, TypeOK, PoolTypeOK

(* Every step keeps what LeftInv says of transfers and of leaves.               *)
LEMMA LeftStep ==
    TypeOK /\ LockInv /\ HandInv /\ SeatInv /\ HoldInv /\ LeaveInv /\ RouteInv /\ LeftInv
    /\ [Next]_vars => LeftInv'
<1> SUFFICES ASSUME TypeOK, LockInv, HandInv, SeatInv, HoldInv, LeaveInv, RouteInv, LeftInv,
                    [Next]_vars
             PROVE  LeftInv'
  OBVIOUS
<1>0. /\ FrameTypeOK /\ PoolTypeOK /\ SessTypeOK /\ QueueTypeOK /\ LeavesOld /\ Unmoved /\ LeftQueued
      /\ \A e \in Net : net[e].pc \notin {"idle", "serve"} => net[e].sess \in mySessions[e]
      /\ \A s \in Sess : gen[s] \in Nat /\ gen[s] <= gen[s]
  BY DEF TypeOK, PoolTypeOK, LeaveInv, LeftInv, LockInv, NetHasSession
<1>1. ASSUME NEW e \in Net, NEW s \in Sess, Accept(e, s) PROVE LeftInv'
  <2>1. /\ s \in free /\ mySessions' = [mySessions EXCEPT ![e] = @ \cup {s}]
        /\ \A t \in Sess : t # s => roomIdx'[t] = roomIdx[t]
        /\ UNCHANGED <<gen, pendingLeave, members, net, game>>
    BY <1>0, <1>1, AcceptEffect DEF Accept, SessTypeOK
  <2>2. Unmoved'
    BY <1>0, <2>1, FreeSession, UnmovedStays
  <2>3. \A f \in Net : \A t \in mySessions'[f] : t \in free \/ t \in mySessions[f]
    BY <1>0, <2>1 DEF SessTypeOK
  <2>4. LeftQueued'
    BY <1>0, <2>1, <2>3, LeftStays DEF LeaveQueued
  <2> QED BY <2>2, <2>4 DEF LeftInv
<1>2. ASSUME NEW e \in Net, NEW s \in Sess, AcceptAborted(e, s) PROVE LeftInv'
  <2>1. /\ s \in free /\ gen' = [gen EXCEPT ![s] = @ + 1]
        /\ \A t \in Sess : t # s => roomIdx'[t] = roomIdx[t]
        /\ UNCHANGED <<mySessions, pendingLeave, members, net, game>>
    BY <1>0, <1>2, AcceptAbortedEffect DEF AcceptAborted, SessTypeOK
  <2>2. Unmoved'
    BY <1>0, <2>1, FreeSession, UnmovedStays
  <2>3. \A t \in Sess : gen'[t] \in Nat /\ gen[t] <= gen'[t]
    BY <1>0, <2>1 DEF PoolTypeOK
  <2>4. LeftQueued'
    BY <1>0, <2>1, <2>3, LeftStays DEF LeaveQueued
  <2> QED BY <2>2, <2>4 DEF LeftInv
<1>3. ASSUME NEW e \in Net, NEW s \in Sess, JoinReserve(e, s) PROVE LeftInv'
  <2>1. /\ UNCHANGED <<gen, mySessions, roomIdx, pendingLeave, members, game>>
        /\ \A f \in Net : net[f].pc = "release" => net'[f] = net[f]
    BY <1>3, JoinReserveEffect DEF NetAt
  <2>2. Unmoved'
    BY <1>0, <2>1, UnmovedStays
  <2>3. LeftQueued'
    BY <1>0, <2>1, LeftStays DEF LeaveQueued
  <2> QED BY <2>2, <2>3 DEF LeftInv
<1>4. ASSUME NEW e \in Net, NEW s \in Sess, JoinAlloc(e, s) PROVE LeftInv'
  <2>1. /\ UNCHANGED <<gen, mySessions, roomIdx, game>> /\ ~MgrLockHeld
        /\ \A f \in Net : net[f].pc = "release" => net'[f] = net[f]
    BY <1>4, JoinAllocEffect DEF NetAt
  <2>2. \A x \in Rooms : pendingLeave'[x] \subseteq pendingLeave[x]
    <3>1. PICK r \in Rooms, w \in Game : AllocRoomSlotLocked(r, w, {})
      BY <1>4, JoinAllocEffect
    <3>2. {} \in SUBSET Rooms OBVIOUS
    <3>3. pendingLeave'[r] = {} /\ \A x \in Rooms : x # r => pendingLeave'[x] = pendingLeave[x]
      BY <3>1, <3>2, AllocEffect
    <3> QED BY <3>3
  <2>3. Unmoved'
    BY <2>1 DEF Unmoved, MgrLockHeld
  <2>4. LeftQueued'
    BY <1>0, <2>1, <2>2, LeftStays DEF LeaveQueued
  <2> QED BY <2>3, <2>4 DEF LeftInv
<1>5. ASSUME NEW e \in Net, NEW s \in Sess, JoinFail(e, s) PROVE LeftInv'
  <2>1. /\ UNCHANGED <<gen, mySessions, roomIdx, pendingLeave, members, game>>
        /\ \A f \in Net : net[f].pc = "release" => net'[f] = net[f]
    BY <1>5, JoinFailEffect DEF NetAt
  <2>2. Unmoved'
    BY <1>0, <2>1, UnmovedStays
  <2>3. LeftQueued'
    BY <1>0, <2>1, LeftStays DEF LeaveQueued
  <2> QED BY <2>2, <2>3 DEF LeftInv
<1>6. ASSUME NEW e \in Net, NEW s \in Sess, Disconnect(e, s) PROVE LeftInv'
  <2>1. /\ UNCHANGED <<gen, mySessions, roomIdx, pendingLeave, members, game>>
        /\ \A f \in Net : net[f].pc = "release" => net'[f] = net[f]
    BY <1>6, DisconnectEffect DEF NetAt
  <2>2. Unmoved'
    BY <1>0, <2>1, UnmovedStays
  <2>3. LeftQueued'
    BY <1>0, <2>1, LeftStays DEF LeaveQueued
  <2> QED BY <2>2, <2>3 DEF LeftInv
<1>7. ASSUME NEW e \in Net, JoinReserveFirst(e) PROVE LeftInv'
  <2>1. /\ UNCHANGED <<gen, mySessions, roomIdx, pendingLeave, members, game>>
        /\ \A f \in Net : net[f].pc = "release" => net'[f] = net[f]
    BY <1>7, JoinReserveFirstEffect DEF NetAt
  <2>2. Unmoved'
    BY <1>0, <2>1, UnmovedStays
  <2>3. LeftQueued'
    BY <1>0, <2>1, LeftStays DEF LeaveQueued
  <2> QED BY <2>2, <2>3 DEF LeftInv
<1>8. ASSUME NEW e \in Net, JoinEnter(e) PROVE LeftInv'
  <2>1. /\ UNCHANGED <<gen, mySessions, pendingLeave, members, game>>
        /\ net[e].pc = "enter" /\ \A f \in Net : net[f].pc = "release" => net'[f] = net[f]
    BY <1>8, JoinEnterEffect DEF NetAt
  <2>2. \A v \in Game : game'[v].pc # "move"
    BY <2>1 DEF LockInv, LockExclusive, Locked
  <2>3. Unmoved'
    BY <2>2 DEF Unmoved
  <2>4. LeftQueued'
    BY <1>0, <2>1, LeftStays DEF LeaveQueued
  <2> QED BY <2>3, <2>4 DEF LeftInv
<1>9. ASSUME NEW e \in Net, OnSessionLeave(e) PROVE LeftInv'
  <2>1. /\ UNCHANGED <<gen, mySessions, roomIdx, pendingLeave, members, game>>
        /\ \A f \in Net : net[f].pc = "release" => net'[f] = net[f]
    BY <1>9, OnSessionLeaveEffect DEF NetAt
  <2>2. Unmoved'
    BY <1>0, <2>1, UnmovedStays
  <2>3. LeftQueued'
    BY <1>0, <2>1, LeftStays DEF LeaveQueued
  <2> QED BY <2>2, <2>3 DEF LeftInv
<1>10. ASSUME NEW e \in Net, PushLeave(e) PROVE LeftInv'
  <2>0. PICK s \in Sess, r \in Rooms : s = net[e].sess /\ r = net[e].room
    BY <1>0, NetTyped
  <2>1. /\ UNCHANGED <<gen, mySessions, roomIdx, members, game>>
        /\ net[e].pc = "pushLeave" /\ net'[e].pc = "release" /\ net'[e].sess = s
        /\ \A f \in Net : f # e => net'[f] = net[f]
        /\ pendingLeave' = [pendingLeave EXCEPT ![r] = @ \cup {LeaveOf(s)}]
    BY <1>10, <2>0, PushLeaveEffect DEF NetAt
  <2>2. Unmoved'
    BY <1>0, <2>1, UnmovedStays
  <2>3. s \in mySessions[e] /\ \A f \in Net : s \in mySessions[f] => f = e
    BY <1>0, <2>0, <2>1 DEF HoldInv, OneOwner
  <2>4. LeftQueued'
    <3> SUFFICES ASSUME NEW l \in LeaveEntry, LeaveQueued(l)', l.gen = gen'[l.sess],
                        NEW f \in Net, l.sess \in mySessions'[f]
                 PROVE  net'[f].pc = "release" /\ net'[f].sess = l.sess
      BY DEF LeftQueued, Left
    <3>1. CASE LeaveQueued(l)
      <4>1. net[f].pc = "release" /\ net[f].sess = l.sess
        BY <1>0, <2>1, <3>1 DEF LeftQueued, Left
      <4> QED BY <2>1, <4>1
    <3>2. CASE ~LeaveQueued(l)
      <4>1. l = LeaveOf(s)
        BY <1>0, <2>1, <3>2 DEF LeaveQueued, QueueTypeOK
      <4> QED BY <2>1, <2>3, <4>1 DEF LeaveOf
    <3> QED BY <3>1, <3>2
  <2> QED BY <2>2, <2>4 DEF LeftInv
<1>11. ASSUME NEW e \in Net, ReleaseNetRef(e) PROVE LeftInv'
  <2>0. PICK s \in Sess : s = net[e].sess
    BY <1>0, NetTyped
  <2>1. /\ Release(s) /\ mySessions' = [mySessions EXCEPT ![e] = @ \ {s}]
        /\ UNCHANGED <<roomIdx, pendingLeave, members, game>>
        /\ \A f \in Net : f # e => net'[f] = net[f]
    BY <1>11, <2>0, ReleaseNetRefEffect DEF NetAt
  <2>2. Unmoved'
    BY <1>0, <2>1, UnmovedStays
  <2>3. \A f \in Net : \A t \in mySessions'[f] :
           t \in mySessions[f] /\ (net[f].sess = t => net'[f] = net[f])
    BY <1>0, <2>0, <2>1 DEF SessTypeOK
  <2>4. LeftQueued'
    BY <1>0, <2>1, <2>3, GensByRelease, LeftStays DEF LeaveQueued
  <2> QED BY <2>2, <2>4 DEF LeftInv
<1>12. ASSUME NEW w \in Game, DrainRoomAddQ(w) PROVE LeftInv'
  <2>1. /\ UNCHANGED <<gen, mySessions, roomIdx, pendingLeave, members, net>>
        /\ \A v \in Game : game'[v].leaves \subseteq game[v].leaves
        /\ \A v \in Game : game'[v].pc = "move" => game'[v] = game[v]
    BY <1>12, DrainRoomAddQEffect DEF GameAt, LockInv, BatchInUse
  <2>2. Unmoved'
    BY <1>0, <2>1, UnmovedStays
  <2>3. LeftQueued'
    BY <1>0, <2>1, LeftStays DEF LeaveQueued
  <2> QED BY <2>2, <2>3 DEF LeftInv
<1>13. ASSUME NEW w \in Game, NEW r \in todo[w], SwapQueues(w, r) PROVE LeftInv'
  <2>0. r \in Rooms
    BY <1>0 DEF FrameTypeOK
  <2>1. /\ UNCHANGED <<gen, mySessions, roomIdx, members, net>>
        /\ pendingLeave' = [pendingLeave EXCEPT ![r] = {}]
        /\ game'[w].pc = "queues" /\ game'[w].leaves = pendingLeave[r]
        /\ \A v \in Game : v # w => game'[v] = game[v]
    BY <1>13, SwapQueuesEffect DEF GameAt
  <2>2. Unmoved'
    BY <1>0, <2>1, UnmovedStays
  <2>3. \A l \in LeaveEntry : LeaveQueued(l)' => LeaveQueued(l)
    BY <1>0, <2>0, <2>1 DEF LeaveQueued, QueueTypeOK
  <2>4. LeftQueued'
    BY <1>0, <2>1, <2>3, LeftStays
  <2> QED BY <2>2, <2>4 DEF LeftInv
<1>14. ASSUME NEW w \in Game, NEW j \in game[w].joins, InstallMember(w, j) PROVE LeftInv'
  <2>0. PICK c \in Rooms : c = game[w].cur
    BY <1>0, GameTyped
  <2>1. /\ UNCHANGED <<gen, mySessions, roomIdx, pendingLeave, net>>
        /\ game[w].pc = "queues" /\ game'[w].pc = "queues" /\ game'[w].leaves = game[w].leaves
        /\ \A v \in Game : v # w => game'[v] = game[v]
        /\ members' = [members EXCEPT ![c] = {m \in @ : m.seat # j.seat} \cup {j}]
    BY <1>14, <2>0, InstallMemberEffect DEF GameAt
  <2>2. \A v \in Game : game[v].pc = "move" => game[v].cur # c
    BY <2>0, <2>1, MovingHands
  <2>3. \A v \in Game : game[v].pc = "move" => members'[game[v].cur] \subseteq members[game[v].cur]
    BY <1>0, <2>1, <2>2, GameTyped DEF TypeOK, MemberTypeOK
  <2>4. Unmoved'
    BY <1>0, <2>1, <2>3, UnmovedStays
  <2>5. LeftQueued'
    BY <1>0, <2>1, LeftStays DEF LeaveQueued
  <2> QED BY <2>4, <2>5 DEF LeftInv
<1>15. ASSUME NEW w \in Game, NEW j \in game[w].joins, SkipJoin(w, j) PROVE LeftInv'
  <2>0. PICK s \in Sess : s = j.sess
    BY <1>0, GameTyped, EntryTyped
  <2>1. /\ Release(s) /\ UNCHANGED <<mySessions, roomIdx, pendingLeave, members, net>>
        /\ game'[w].pc = "queues" /\ game'[w].leaves = game[w].leaves
        /\ \A v \in Game : v # w => game'[v] = game[v]
    BY <1>15, <2>0, SkipJoinEffect DEF GameAt
  <2>2. Unmoved'
    BY <1>0, <2>1, UnmovedStays
  <2>3. LeftQueued'
    BY <1>0, <2>1, GensByRelease, LeftStays DEF LeaveQueued
  <2> QED BY <2>2, <2>3 DEF LeftInv
<1>16. ASSUME NEW w \in Game, NEW l \in game[w].leaves, ProcessLeave(w, l) PROVE LeftInv'
  <2>0. PICK c \in Rooms : c = game[w].cur
    BY <1>0, GameTyped
  <2>1. /\ UNCHANGED <<mySessions, roomIdx, pendingLeave, net>>
        /\ game'[w].pc = "queues" /\ game'[w].leaves = game[w].leaves \ {l}
        /\ \A v \in Game : v # w => game'[v] = game[v]
    BY <1>16, ProcessLeaveEffect DEF GameAt
  <2>2. /\ \A r \in Rooms : members'[r] \subseteq members[r]
        /\ \A t \in Sess : gen'[t] \in Nat /\ gen[t] <= gen'[t]
    <3>1. \/ \E m \in members[c] : Release(m.sess) /\ members' = [members EXCEPT ![c] = @ \ {m}]
          \/ UNCHANGED <<gen, members>>
      BY <1>16, <2>0, ProcessLeaveEffect
    <3>2. \A m \in members[c] : m.sess \in Sess
      BY EntryTyped DEF TypeOK, MemberTypeOK
    <3>3. CASE UNCHANGED <<gen, members>>
      BY <1>0, <3>3
    <3>4. ASSUME NEW m \in members[c], Release(m.sess), members' = [members EXCEPT ![c] = @ \ {m}]
          PROVE  /\ \A r \in Rooms : members'[r] \subseteq members[r]
                 /\ \A t \in Sess : gen'[t] \in Nat /\ gen[t] <= gen'[t]
      BY <3>2, <3>4, GensByRelease DEF TypeOK, MemberTypeOK
    <3> QED BY <3>1, <3>3, <3>4
  <2>3. \A v \in Game : members'[game[v].cur] \subseteq members[game[v].cur]
    BY <1>0, <2>2, GameTyped
  <2>4. Unmoved'
    BY <1>0, <2>1, <2>3, UnmovedStays
  <2>5. LeftQueued'
    BY <1>0, <2>1, <2>2, LeftStays DEF LeaveQueued
  <2> QED BY <2>4, <2>5 DEF LeftInv
<1>17. ASSUME NEW w \in Game, DeathCheck(w) PROVE LeftInv'
  <2>1. /\ UNCHANGED <<gen, mySessions, roomIdx, pendingLeave, members, net>>
        /\ \A v \in Game : game'[v].leaves \subseteq game[v].leaves
        /\ \A v \in Game : game'[v].pc = "move" => game'[v] = game[v]
    BY <1>17, DeathCheckEffect DEF GameAt, LockInv, BatchInUse
  <2>2. Unmoved'
    BY <1>0, <2>1, UnmovedStays
  <2>3. LeftQueued'
    BY <1>0, <2>1, LeftStays DEF LeaveQueued
  <2> QED BY <2>2, <2>3 DEF LeftInv
<1>18. ASSUME NEW w \in Game, ReapRoom(w) PROVE LeftInv'
  <2>1. /\ UNCHANGED <<gen, mySessions, roomIdx, pendingLeave, members, net>>
        /\ \A v \in Game : game'[v].leaves \subseteq game[v].leaves
        /\ \A v \in Game : game'[v].pc = "move" => game'[v] = game[v]
    BY <1>18, ReapRoomEffect DEF GameAt, LockInv, BatchInUse
  <2>2. Unmoved'
    BY <1>0, <2>1, UnmovedStays
  <2>3. LeftQueued'
    BY <1>0, <2>1, LeftStays DEF LeaveQueued
  <2> QED BY <2>2, <2>3 DEF LeftInv
<1>19. ASSUME NEW w \in Game, RoomTick(w) PROVE LeftInv'
  <2>1. /\ UNCHANGED <<gen, mySessions, roomIdx, pendingLeave, members, net>>
        /\ \A v \in Game : game'[v].leaves \subseteq game[v].leaves
        /\ \A v \in Game : game'[v].pc = "move" => game'[v] = game[v]
    BY <1>19, RoomTickEffect DEF GameAt, LockInv, BatchInUse
  <2>2. Unmoved'
    BY <1>0, <2>1, UnmovedStays
  <2>3. LeftQueued'
    BY <1>0, <2>1, LeftStays DEF LeaveQueued
  <2> QED BY <2>2, <2>3 DEF LeftInv
<1>20. ASSUME NEW w \in Game, TransferBegin(w) PROVE LeftInv'
  <2>0. PICK old \in Rooms : old = game[w].cur
    BY <1>0, GameTyped
  <2>1. PICK new \in Rooms :
           /\ AllocRoomSlotLocked(new, gameWorker[old], {old})
           /\ GameAt(w, "move", old, new, pendingJoin[old], pendingLeave[old])
    BY <1>20, <2>0, TransferBeginEffect
  <2>2. /\ game[w].pc = "tick" /\ ~MgrLockHeld
        /\ UNCHANGED <<gen, mySessions, roomIdx, net>>
    BY <1>20, TransferBeginEffect
  <2>3. /\ members'[new] = {} /\ \A x \in Rooms : x # new => members'[x] = members[x]
        /\ \A x \in Rooms : pendingLeave'[x] \subseteq pendingLeave[x]
    <3>1. {old} \in SUBSET Rooms /\ gameWorker[old] \in Game
      BY DEF TypeOK, MgrTypeOK
    <3>2. members'[new] = {} /\ \A x \in Rooms : x # new => members'[x] = members[x]
      BY <2>1, <3>1, AllocEffect
    <3>3. /\ \A x \in {old, new} : pendingLeave'[x] = {}
          /\ \A x \in Rooms : x \notin {old, new} => pendingLeave'[x] = pendingLeave[x]
      BY <2>1, <3>1, AllocEffect
    <3> QED BY <3>2, <3>3
  <2>4. game'[w].cur = old /\ game'[w].leaves = pendingLeave[old]
        /\ \A v \in Game : v # w => game'[v] = game[v]
    BY <2>1 DEF GameAt
  <2>5. Unmoved'
    <3>1. \A v \in Game : v # w => game'[v].pc # "move"
      BY <2>2, <2>4 DEF MgrLockHeld
    <3>2. ~Moving(old)
      BY <2>0, <2>2, MovingHands
    <3>3. ASSUME NEW m \in members[old] PROVE roomIdx[m.sess] = old
      <4>1. m \in Where[AtMember(old)] /\ AtMember(old) \in Place /\ RoomOf(AtMember(old)) = old
        BY PlaceCases, WhereIs, RoomOfIs
      <4> QED BY <3>2, <4>1 DEF RouteInv, Routed, Right
    <3> QED BY <2>2, <2>3, <2>4, <3>1, <3>3 DEF Unmoved
  <2>6. \A l \in LeaveEntry : LeaveQueued(l)' => LeaveQueued(l)
    BY <2>3, <2>4 DEF LeaveQueued
  <2>7. LeftQueued'
    BY <1>0, <2>2, <2>6, LeftStays
  <2> QED BY <2>5, <2>7 DEF LeftInv
<1>21. ASSUME NEW w \in Game, NEW m \in members[game[w].cur], TransferMember(w, m) PROVE LeftInv'
  <2>0. PICK old \in Rooms, new \in Rooms : old = game[w].cur /\ new = game[w].nr
    BY <1>0, GameTyped
  <2>1. /\ game[w].pc = "move" /\ roomIdx' = Redirected({m}, new)
        /\ UNCHANGED <<gen, mySessions, pendingLeave, net, game>>
    BY <1>21, <2>0, TransferMemberEffect
  <2>2. Moves(AtMember(old), AtMember(new), {m}) /\ old # new
    BY <1>21, <2>0, <2>1, MemberMoves, MovingHands
  <2>3. members'[old] = members[old] \ {m} /\ m \in members[old]
    BY <2>0, <2>2, WhereIs, WhereIsNext DEF Moves
  <2>4. Unmoved'
    <3>1. \A v \in Game : game[v].pc = "move" => v = w
      BY <2>1 DEF LockInv, LockExclusive
    <3>2. ASSUME NEW o \in members'[old] PROVE roomIdx'[o.sess] = old
      <4>1. o \in members[old] /\ o # m /\ o.sess \in Sess
        BY <2>3, EntryTyped DEF TypeOK, MemberTypeOK
      <4>2. o.sess # m.sess
        BY <2>3, <4>1, PlaceCases, WhereIs DEF HoldInv, OnceIn
      <4>3. roomIdx'[o.sess] = roomIdx[o.sess]
        BY <2>1, <4>1, <4>2 DEF Redirected
      <4> QED BY <1>0, <2>0, <2>1, <4>1, <4>3 DEF Unmoved
    <3> QED BY <2>0, <2>1, <3>1, <3>2 DEF Unmoved
  <2>5. LeftQueued'
    BY <1>0, <2>1, LeftStays DEF LeaveQueued
  <2> QED BY <2>4, <2>5 DEF LeftInv
<1>22. ASSUME NEW w \in Game, TransferEnd(w) PROVE LeftInv'
  <2>0. PICK new \in Rooms : new = game[w].nr
    BY <1>0, GameTyped
  <2>1. /\ game[w].pc = "move" /\ UNCHANGED <<gen, mySessions, members, net>>
        /\ pendingLeave' = [pendingLeave EXCEPT ![new] = @ \cup game[w].leaves]
        /\ game'[w].pc = "rooms" /\ game'[w].leaves = {}
        /\ \A v \in Game : v # w => game'[v] = game[v]
    BY <1>22, <2>0, TransferEndEffect DEF GameAt
  <2>2. Unmoved'
    BY <2>1 DEF LockInv, LockExclusive, Unmoved
  <2>3. \A l \in LeaveEntry : LeaveQueued(l)' => LeaveQueued(l)
    BY <1>0, <2>0, <2>1 DEF LeaveQueued, QueueTypeOK
  <2>4. LeftQueued'
    BY <1>0, <2>1, <2>3, LeftStays
  <2> QED BY <2>2, <2>4 DEF LeftInv
<1>23. CASE UNCHANGED vars
  <2>1. UNCHANGED <<gen, mySessions, roomIdx, pendingLeave, members, net, game>>
    BY <1>23 DEF vars, poolVars, sessVars, roomVars, queueVars, memberVars, gameVars
  <2>2. Unmoved'
    BY <1>0, <2>1, UnmovedStays
  <2>3. LeftQueued'
    BY <1>0, <2>1, LeftStays DEF LeaveQueued
  <2> QED BY <2>2, <2>3 DEF LeftInv
<1>24. ASSUME NEW e \in Net, ServeStep(e) PROVE LeftInv'
  <2>1. /\ UNCHANGED <<gen, mySessions, roomIdx, pendingLeave, members, game>>
        /\ net[e].pc # "release" /\ \A f \in Net : f # e => net'[f] = net[f]
    BY <1>24, ServeEffect
  <2>2. Unmoved'
    BY <1>0, <2>1, UnmovedStays
  <2>3. LeftQueued'
    BY <1>0, <2>1, LeftStays DEF LeaveQueued
  <2> QED BY <2>2, <2>3 DEF LeftInv
<1> QED
  BY <1>1, <1>2, <1>3, <1>4, <1>5, <1>6, <1>7, <1>8, <1>9, <1>10, <1>11, <1>12,
     <1>13, <1>14, <1>15, <1>16, <1>17, <1>18, <1>19, <1>20, <1>21, <1>22, <1>23,
     <1>24 DEF Next, NetStep, ServeStep, GameStep

(* A transfer leaves nobody half told, and a leave is queued once               *)
(* (RoomManager.cpp: TransferRoom, OnSessionLeave).                             *)
THEOREM LeftSound == PatientSpec => []LeftInv
<1>1. TypeOK /\ LockInv /\ HandInv /\ SeatInv /\ HoldInv /\ LeaveInv /\ RouteInv /\ LeftInv
      /\ [Next]_vars => LeftInv'
  BY LeftStep
<1> QED BY LeftInit, <1>1, TypeCorrect, LockHolder, RoomsInHand, SeatsSound, HoldersSound,
           LeavesSound, RoutesSound, PTL DEF Spec, PatientSpec

(* A leave stays on its way when nobody who carries it moves, its queue keeps   *)
(* it, no transfer begins to empty its room, and the batches that have it keep  *)
(* it for its room.                                                             *)
LEMMA WayStays ==
    ASSUME NEW m, NEW r, OnItsWay(m, r),
           \A f \in Net : net[f].pc \in {"leave", "pushLeave"} /\ net[f].sess = m.sess
               => net'[f] = net[f],
           LeaveFor(m) \in pendingLeave[r] => LeaveFor(m) \in pendingLeave'[r],
           Emptied(r)' => Emptied(r),
           \A w \in Game : LeaveFor(m) \in game[w].leaves /\ Working(w, r)
               => LeaveFor(m) \in game'[w].leaves /\ Working(w, r)'
    PROVE  OnItsWay(m, r)'
BY DEF OnItsWay, Pushing

(* A step in which no worker that is leaving moves, and no game worker's batch  *)
(* or room changes while it has a leave or is in a transfer, keeps LeaveFound   *)
(* if every member it brings is alive.                                          *)
LEMMA FoundStays ==
    ASSUME LeaveFound, UNCHANGED pendingLeave,
           \A r \in Rooms : \A m \in members'[r] : dead'[m.sess] => m \in members[r] /\ dead[m.sess],
           \A f \in Net : net[f].pc \in {"leave", "pushLeave"} => net'[f] = net[f],
           \A w \in Game :
               \/ game[w].leaves = {} /\ game'[w].pc # "move"
               \/ /\ game'[w].pc = game[w].pc /\ game'[w].leaves = game[w].leaves
                  /\ game'[w].cur = game[w].cur /\ game'[w].nr = game[w].nr
    PROVE  LeaveFound'
<1> SUFFICES ASSUME NEW r \in Rooms, NEW m \in members'[r], dead'[m.sess] PROVE OnItsWay(m, r)'
  BY DEF LeaveFound
<1>1. OnItsWay(m, r)
  BY DEF LeaveFound
<1>2. Emptied(r)' => Emptied(r)
  BY DEF Emptied
<1>3. \A w \in Game : LeaveFor(m) \in game[w].leaves /\ Working(w, r)
          => LeaveFor(m) \in game'[w].leaves /\ Working(w, r)'
  BY DEF Working
<1> QED BY <1>1, <1>2, <1>3, WayStays

(* A member has its session's generation and is its session's only entry.       *)
LEMMA MemberIs ==
    ASSUME TypeOK, HoldInv, NEW r \in Rooms, NEW m \in members[r]
    PROVE  /\ m.sess \in Sess /\ m.gen = gen[m.sess] /\ m.sess \notin free
           /\ HeldIn(Where, m.sess) /\ LeaveFor(m) = LeaveOf(m.sess)
           /\ \A q \in Rooms : \A o \in members[q] : o.sess = m.sess => q = r /\ o = m
           /\ \A w \in Game : \A j \in game[w].joins : j.sess # m.sess
<1>1. AtMember(r) \in Place /\ m \in Where[AtMember(r)]
  BY PlaceCases, WhereIs
<1>2. m.sess \in Sess
  BY EntryTyped DEF TypeOK, MemberTypeOK
<1>3. m.gen = gen[m.sess] /\ HeldIn(Where, m.sess)
  BY <1>1 DEF HoldInv, GenAgrees, HeldIn
<1>4. m.sess \notin free
  BY <1>3, FreeSession
<1>5. ASSUME NEW q \in Rooms, NEW o \in members[q], o.sess = m.sess PROVE q = r /\ o = m
  <2>1. AtMember(q) \in Place /\ o \in Where[AtMember(q)]
    BY PlaceCases, WhereIs
  <2>2. AtMember(q) = AtMember(r) /\ o = m
    BY <1>1, <1>5, <2>1 DEF HoldInv, OnceIn
  <2> QED BY <2>2, PlacesApart
<1>6. ASSUME NEW w \in Game, NEW j \in game[w].joins PROVE j.sess # m.sess
  <2>1. AtBatch(w) \in Place /\ j \in Where[AtBatch(w)]
    BY PlaceCases, WhereIs
  <2>2. AtBatch(w) # AtMember(r)
    BY PlacesApart
  <2> QED BY <1>1, <2>1, <2>2 DEF HoldInv, OnceIn
<1> QED BY <1>2, <1>3, <1>4, <1>5, <1>6 DEF LeaveFor, LeaveOf

(* Every step that does not make a leave late keeps the leaves on their way.    *)
LEMMA FoundStep ==
    TypeOK /\ LockInv /\ HandInv /\ SeatInv /\ HoldInv /\ LeaveInv /\ RouteInv
    /\ LeftInv /\ LeaveFound /\ ~LateLeave' /\ [Next]_vars => LeaveFound'
<1> SUFFICES ASSUME TypeOK, LockInv, HandInv, SeatInv, HoldInv, LeaveInv, RouteInv, LeftInv,
                    LeaveFound, ~LateLeave', [Next]_vars
             PROVE  LeaveFound'
  OBVIOUS
<1>0. /\ FrameTypeOK /\ PoolTypeOK /\ SessTypeOK /\ QueueTypeOK /\ LeavesOld
      /\ \A e \in Net : net[e].pc \notin {"idle", "serve"} => net[e].sess \in mySessions[e]
  BY DEF TypeOK, LeaveInv, LockInv, NetHasSession
<1>1. ASSUME NEW e \in Net, NEW s \in Sess, Accept(e, s) PROVE LeaveFound'
  <2>1. /\ s \in free /\ dead' = [dead EXCEPT ![s] = FALSE]
        /\ UNCHANGED <<pendingLeave, members, net, game>>
    BY <1>1, AcceptEffect
  <2>2. \A r \in Rooms : \A m \in members[r] : dead'[m.sess] => dead[m.sess]
    BY <1>0, <2>1, MemberIs DEF PoolTypeOK
  <2> QED BY <2>1, <2>2, FoundStays
<1>2. ASSUME NEW e \in Net, NEW s \in Sess, AcceptAborted(e, s) PROVE LeaveFound'
  <2>1. /\ s \in free /\ dead' = [dead EXCEPT ![s] = TRUE]
        /\ UNCHANGED <<pendingLeave, members, net, game>>
    BY <1>2, AcceptAbortedEffect
  <2>2. \A r \in Rooms : \A m \in members[r] : dead'[m.sess] => dead[m.sess]
    BY <1>0, <2>1, MemberIs DEF PoolTypeOK
  <2> QED BY <2>1, <2>2, FoundStays
<1>3. ASSUME NEW e \in Net, NEW s \in Sess, JoinReserve(e, s) PROVE LeaveFound'
  <2>1. /\ UNCHANGED <<dead, pendingLeave, members, game>>
        /\ \A f \in Net : net[f].pc \in {"leave", "pushLeave"} => net'[f] = net[f]
    BY <1>3, JoinReserveEffect DEF NetAt
  <2> QED BY <2>1, FoundStays
<1>4. ASSUME NEW e \in Net, NEW s \in Sess, JoinAlloc(e, s) PROVE LeaveFound'
  <2>1. /\ UNCHANGED <<dead, game>>
        /\ \A f \in Net : net[f].pc \in {"leave", "pushLeave"} => net'[f] = net[f]
    BY <1>4, JoinAllocEffect DEF NetAt
  <2>2. PICK new \in Rooms :
           /\ members'[new] = {}
           /\ \A x \in Rooms : x # new
                  => members'[x] = members[x] /\ pendingLeave'[x] = pendingLeave[x]
    <3>1. PICK new \in Rooms, w \in Game : AllocRoomSlotLocked(new, w, {})
      BY <1>4, JoinAllocEffect
    <3>2. {} \in SUBSET Rooms OBVIOUS
    <3> QED BY <3>1, <3>2, AllocEffect
  <2> SUFFICES ASSUME NEW r \in Rooms, NEW m \in members'[r], dead'[m.sess]
               PROVE  OnItsWay(m, r)'
    BY DEF LeaveFound
  <2>3. r # new /\ OnItsWay(m, r)
    BY <2>1, <2>2 DEF LeaveFound
  <2>4. Emptied(r)' => Emptied(r)
    BY <2>1 DEF Emptied
  <2>5. \A w \in Game : Working(w, r) => Working(w, r)'
    BY <2>1 DEF Working
  <2> QED BY <2>1, <2>2, <2>3, <2>4, <2>5, WayStays
<1>5. ASSUME NEW e \in Net, NEW s \in Sess, JoinFail(e, s) PROVE LeaveFound'
  <2>1. /\ UNCHANGED <<dead, pendingLeave, members, game>>
        /\ \A f \in Net : net[f].pc \in {"leave", "pushLeave"} => net'[f] = net[f]
    BY <1>5, JoinFailEffect DEF NetAt
  <2> QED BY <2>1, FoundStays
<1>6. ASSUME NEW e \in Net, NEW s \in Sess, Disconnect(e, s) PROVE LeaveFound'
  <2>1. /\ dead' = [dead EXCEPT ![s] = TRUE] /\ UNCHANGED <<pendingLeave, members, game>>
        /\ net[e].pc = "serve" /\ net'[e].pc = "leave" /\ net'[e].sess = s
        /\ \A f \in Net : f # e => net'[f] = net[f]
    BY <1>6, DisconnectEffect DEF NetAt
  <2> SUFFICES ASSUME NEW r \in Rooms, NEW m \in members'[r], dead'[m.sess]
               PROVE  OnItsWay(m, r)'
    BY DEF LeaveFound
  <2>2. CASE m.sess = s
    BY <2>1, <2>2 DEF OnItsWay
  <2>3. CASE m.sess # s
    <3>1. m.sess \in Sess
      BY <2>1, MemberIs
    <3>2. OnItsWay(m, r)
      BY <1>0, <2>1, <2>3, <3>1 DEF LeaveFound, PoolTypeOK
    <3>3. Emptied(r)' => Emptied(r)
      BY <2>1 DEF Emptied
    <3>4. \A w \in Game : Working(w, r) => Working(w, r)'
      BY <2>1 DEF Working
    <3> QED BY <2>1, <3>2, <3>3, <3>4, WayStays
  <2> QED BY <2>2, <2>3
<1>7. ASSUME NEW e \in Net, JoinReserveFirst(e) PROVE LeaveFound'
  <2>1. /\ UNCHANGED <<dead, pendingLeave, members, game>>
        /\ \A f \in Net : net[f].pc \in {"leave", "pushLeave"} => net'[f] = net[f]
    BY <1>7, JoinReserveFirstEffect DEF NetAt
  <2> QED BY <2>1, FoundStays
<1>8. ASSUME NEW e \in Net, JoinEnter(e) PROVE LeaveFound'
  <2>1. /\ UNCHANGED <<dead, pendingLeave, members, game>>
        /\ \A f \in Net : net[f].pc \in {"leave", "pushLeave"} => net'[f] = net[f]
    BY <1>8, JoinEnterEffect DEF NetAt
  <2> QED BY <2>1, FoundStays
<1>9. ASSUME NEW e \in Net, OnSessionLeave(e) PROVE LeaveFound'
  <2>0. PICK s \in Sess : s = net[e].sess
    BY <1>0, NetTyped
  <2>1. /\ net[e].pc = "leave" /\ UNCHANGED <<dead, pendingLeave, members, game, roomIdx>>
        /\ \A f \in Net : f # e => net'[f] = net[f]
        /\ \/ /\ net'[e].pc = "pushLeave" /\ net'[e].sess = s /\ net'[e].room = roomIdx[s]
           \/ ~inRoom[s]
    BY <1>9, <2>0, OnSessionLeaveEffect DEF NetAt
  <2> SUFFICES ASSUME NEW r \in Rooms, NEW m \in members'[r], dead'[m.sess]
               PROVE  OnItsWay(m, r)'
    BY DEF LeaveFound
  <2>2. m \in members[r] /\ OnItsWay(m, r)
    BY <2>1 DEF LeaveFound
  <2>3. Emptied(r)' <=> Emptied(r)
    BY <2>1 DEF Emptied
  <2>4. CASE m.sess # s
    <3>1. \A w \in Game : Working(w, r) => Working(w, r)'
      BY <2>1 DEF Working
    <3> QED BY <2>0, <2>1, <2>2, <2>3, <2>4, <3>1, WayStays
  <2>5. CASE m.sess = s
    <3>1. inRoom[s]
      BY <1>0, <2>0, <2>1, <2>2, <2>5, MemberIs DEF HoldInv, NotYetIn
    <3>2. /\ m \in Where[AtMember(r)] /\ AtMember(r) \in Place /\ RoomOf(AtMember(r)) = r
      BY <2>2, PlaceCases, WhereIs, RoomOfIs
    <3>3. Moving(r) \/ roomIdx[s] = r
      BY <2>5, <3>2 DEF RouteInv, Routed, Right
    <3>4. roomIdx[s] = r
      <4>1. ASSUME NEW w \in Game, game[w].pc = "move", r \in {game[w].cur, game[w].nr}
            PROVE  roomIdx[s] = r
        BY <2>2, <2>5, <4>1 DEF RouteInv, MovedOn, LeftInv, Unmoved
      <4> QED BY <3>3, <4>1 DEF Moving
    <3>5. Pushing(e, s, r)'
      BY <2>1, <3>1, <3>4 DEF Pushing
    <3>6. ~Emptied(r)
      <4> SUFFICES ASSUME NEW w \in Game, game[w].pc = "move", game[w].cur = r PROVE FALSE
        BY DEF Emptied
      <4>1. net'[e].pc = "pushLeave" /\ net'[e].sess = s /\ net'[e].room = r
        BY <3>5 DEF Pushing
      <4> QED BY <2>1, <2>2, <2>5, <4>1 DEF LateLeave
    <3> QED BY <2>3, <2>5, <3>5, <3>6 DEF OnItsWay
  <2> QED BY <2>4, <2>5
<1>10. ASSUME NEW e \in Net, PushLeave(e) PROVE LeaveFound'
  <2>0. PICK s \in Sess, q \in Rooms : s = net[e].sess /\ q = net[e].room
    BY <1>0, NetTyped
  <2>1. /\ net[e].pc = "pushLeave" /\ UNCHANGED <<dead, members, game>>
        /\ \A f \in Net : f # e => net'[f] = net[f]
        /\ pendingLeave' = [pendingLeave EXCEPT ![q] = @ \cup {LeaveOf(s)}]
    BY <1>10, <2>0, PushLeaveEffect DEF NetAt
  <2> SUFFICES ASSUME NEW r \in Rooms, NEW m \in members'[r], dead'[m.sess]
               PROVE  OnItsWay(m, r)'
    BY DEF LeaveFound
  <2>2. m \in members[r] /\ OnItsWay(m, r)
    BY <2>1 DEF LeaveFound
  <2>3. Emptied(r)' <=> Emptied(r)
    BY <2>1 DEF Emptied
  <2>4. pendingLeave[r] \subseteq pendingLeave'[r] /\ LeaveOf(s) \in pendingLeave'[q]
    BY <1>0, <2>1 DEF QueueTypeOK
  <2>5. CASE m.sess # s
    <3>1. \A w \in Game : Working(w, r) => Working(w, r)'
      BY <2>1 DEF Working
    <3> QED BY <2>0, <2>1, <2>2, <2>3, <2>4, <2>5, <3>1, WayStays
  <2>6. CASE m.sess = s
    <3>1. LeaveFor(m) = LeaveOf(s)
      BY <2>2, <2>6, MemberIs
    <3>2. \A f \in Net : net[f].pc \in {"leave", "pushLeave"} /\ net[f].sess = s => f = e
      BY <1>0, <2>0, <2>1 DEF HoldInv, OneOwner
    <3>3. ~\E f \in Net : net[f].pc = "leave" /\ net[f].sess = m.sess
      BY <2>1, <2>6, <3>2
    <3>4. CASE \E f \in Net : ~Emptied(r) /\ Pushing(f, m.sess, r)
      <4>1. r = q /\ ~Emptied(r)
        BY <2>0, <2>6, <3>2, <3>4 DEF Pushing
      <4> QED BY <2>3, <2>4, <3>1, <4>1 DEF OnItsWay
    <3>5. CASE ~Emptied(r) /\ LeaveFor(m) \in pendingLeave[r]
      BY <2>3, <2>4, <3>5 DEF OnItsWay
    <3>6. CASE \E w \in Game : LeaveFor(m) \in game[w].leaves /\ Working(w, r)
      BY <2>1, <3>6 DEF OnItsWay, Working
    <3> QED BY <2>2, <3>3, <3>4, <3>5, <3>6 DEF OnItsWay
  <2> QED BY <2>5, <2>6
<1>11. ASSUME NEW e \in Net, ReleaseNetRef(e) PROVE LeaveFound'
  <2>1. /\ UNCHANGED <<dead, pendingLeave, members, game>>
        /\ \A f \in Net : net[f].pc \in {"leave", "pushLeave"} => net'[f] = net[f]
    BY <1>11, ReleaseNetRefEffect DEF NetAt
  <2> QED BY <2>1, FoundStays
<1>12. ASSUME NEW w \in Game, DrainRoomAddQ(w) PROVE LeaveFound'
  <2>1. UNCHANGED <<dead, pendingLeave, members, net, game>>
    BY <1>12, DrainRoomAddQEffect
  <2> QED BY <2>1, FoundStays
<1>13. ASSUME NEW w \in Game, NEW q \in todo[w], SwapQueues(w, q) PROVE LeaveFound'
  <2>0. q \in Rooms
    BY <1>0 DEF FrameTypeOK
  <2>1. /\ UNCHANGED <<dead, members, net>> /\ pendingLeave' = [pendingLeave EXCEPT ![q] = {}]
        /\ game[w].pc = "rooms" /\ game'[w].pc = "queues" /\ game'[w].cur = q
        /\ game'[w].leaves = pendingLeave[q] /\ \A v \in Game : v # w => game'[v] = game[v]
    BY <1>13, SwapQueuesEffect DEF GameAt
  <2> SUFFICES ASSUME NEW r \in Rooms, NEW m \in members'[r], dead'[m.sess]
               PROVE  OnItsWay(m, r)'
    BY DEF LeaveFound
  <2>2. OnItsWay(m, r)
    BY <2>1 DEF LeaveFound
  <2>3. Emptied(r)' => Emptied(r)
    BY <2>1 DEF Emptied
  <2>4. \A v \in Game : Working(v, r) => game'[v] = game[v] /\ Working(v, r)'
    BY <2>1 DEF Working
  <2>5. CASE LeaveFor(m) \in pendingLeave[r] /\ r = q
    BY <2>1, <2>5 DEF OnItsWay, Working
  <2>6. CASE ~(LeaveFor(m) \in pendingLeave[r] /\ r = q)
    <3>1. LeaveFor(m) \in pendingLeave[r] => LeaveFor(m) \in pendingLeave'[r]
      BY <1>0, <2>1, <2>6 DEF QueueTypeOK
    <3> QED BY <2>1, <2>2, <2>3, <2>4, <3>1, WayStays
  <2> QED BY <2>5, <2>6
<1>14. ASSUME NEW w \in Game, NEW j \in game[w].joins, InstallMember(w, j) PROVE LeaveFound'
  <2>0. PICK c \in Rooms : c = game[w].cur
    BY <1>0, GameTyped
  <2>1. /\ UNCHANGED <<dead, pendingLeave, net>> /\ ~dead[j.sess]
        /\ game[w].pc = "queues" /\ game'[w].pc = "queues" /\ game'[w].leaves = game[w].leaves
        /\ game'[w].cur = game[w].cur /\ game'[w].nr = game[w].nr
        /\ \A v \in Game : v # w => game'[v] = game[v]
        /\ members' = [members EXCEPT ![c] = {m \in @ : m.seat # j.seat} \cup {j}]
    BY <1>14, <2>0, InstallMemberEffect DEF GameAt, StillThere
  <2>2. \A r \in Rooms : \A m \in members'[r] : m \in members[r] \/ m = j
    BY <2>1 DEF TypeOK, MemberTypeOK
  <2> QED BY <2>1, <2>2, FoundStays
<1>15. ASSUME NEW w \in Game, NEW j \in game[w].joins, SkipJoin(w, j) PROVE LeaveFound'
  <2>1. /\ UNCHANGED <<dead, pendingLeave, members, net>>
        /\ game[w].pc = "queues" /\ game'[w].pc = "queues" /\ game'[w].leaves = game[w].leaves
        /\ game'[w].cur = game[w].cur /\ game'[w].nr = game[w].nr
        /\ \A v \in Game : v # w => game'[v] = game[v]
    BY <1>15, SkipJoinEffect DEF GameAt
  <2> QED BY <2>1, FoundStays
<1>16. ASSUME NEW w \in Game, NEW l \in game[w].leaves, ProcessLeave(w, l) PROVE LeaveFound'
  <2>0. PICK c \in Rooms : c = game[w].cur
    BY <1>0, GameTyped
  <2>1. /\ UNCHANGED <<dead, pendingLeave, net>>
        /\ game[w].pc = "queues" /\ game'[w].pc = "queues" /\ game'[w].leaves = game[w].leaves \ {l}
        /\ game'[w].cur = c /\ game'[w].nr = game[w].nr
        /\ \A v \in Game : v # w => game'[v] = game[v]
    BY <1>16, <2>0, ProcessLeaveEffect DEF GameAt
  <2>2. \/ \E o \in members[c] : Matches(o, l) /\ members' = [members EXCEPT ![c] = @ \ {o}]
        \/ (\A o \in members[c] : ~Matches(o, l)) /\ members' = members
    <3>1. \/ \E o \in members[game[w].cur] :
                Matches(o, l) /\ members' = [members EXCEPT ![game[w].cur] = @ \ {o}]
          \/ (\A o \in members[game[w].cur] : ~Matches(o, l)) /\ members' = members
      <4>1. \/ \E o \in members[game[w].cur] :
                  /\ Matches(o, l)
                  /\ members' = [members EXCEPT ![game[w].cur] = @ \ {o}]
                  /\ memberCount' = [memberCount EXCEPT ![game[w].cur] = @ - 1]
                  /\ seatUsed' = [seatUsed EXCEPT ![game[w].cur] = @ \ {o.seat}]
                  /\ reservedSeats' = [reservedSeats EXCEPT ![game[w].cur] = @ - 1]
                  /\ Release(o.sess)
            \/ /\ \A o \in members[game[w].cur] : ~Matches(o, l)
               /\ UNCHANGED <<free, gen, refs, members, memberCount, seatUsed, reservedSeats>>
        BY <1>16, ProcessLeaveEffect
      <4> QED BY <4>1
    <3> QED BY <2>0, <3>1
  <2>3. /\ \A r \in Rooms : members'[r] \subseteq members[r]
        /\ \A m \in members'[c] : LeaveFor(m) # l
    <3>1. CASE (\A o \in members[c] : ~Matches(o, l)) /\ members' = members
      BY <3>1 DEF Matches, LeaveFor
    <3>2. ASSUME NEW o \in members[c], Matches(o, l), members' = [members EXCEPT ![c] = @ \ {o}]
          PROVE  /\ \A r \in Rooms : members'[r] \subseteq members[r]
                 /\ \A m \in members'[c] : LeaveFor(m) # l
      <4>1. /\ members'[c] = members[c] \ {o}
            /\ \A r \in Rooms : members'[r] \subseteq members[r]
        BY <3>2 DEF TypeOK, MemberTypeOK
      <4>2. \A m \in members[c] : m.sess = o.sess => m = o
        BY MemberIs
      <4> QED BY <3>2, <4>1, <4>2 DEF Matches, LeaveFor
    <3> QED BY <2>2, <3>1, <3>2
  <2> SUFFICES ASSUME NEW r \in Rooms, NEW m \in members'[r], dead'[m.sess]
               PROVE  OnItsWay(m, r)'
    BY DEF LeaveFound
  <2>4. m \in members[r] /\ OnItsWay(m, r)
    BY <2>1, <2>3 DEF LeaveFound
  <2>5. Emptied(r)' => Emptied(r)
    BY <2>1 DEF Emptied
  <2>6. ASSUME NEW v \in Game, LeaveFor(m) \in game[v].leaves, Working(v, r)
        PROVE  LeaveFor(m) \in game'[v].leaves /\ Working(v, r)'
    <3>1. CASE v = w
      <4>1. r = c
        BY <2>0, <2>1, <2>6, <3>1 DEF Working
      <4> QED BY <2>1, <2>3, <2>6, <3>1, <4>1 DEF Working
    <3>2. CASE v # w
      BY <2>1, <2>6, <3>2 DEF Working
    <3> QED BY <3>1, <3>2
  <2> QED BY <2>1, <2>4, <2>5, <2>6, WayStays
<1>17. ASSUME NEW w \in Game, DeathCheck(w) PROVE LeaveFound'
  <2>1. /\ UNCHANGED <<dead, pendingLeave, members, net>>
        /\ \A v \in Game : v # w => game'[v] = game[v]
        /\ game[w].leaves = {} /\ game'[w].pc # "move"
    BY <1>17, DeathCheckEffect DEF GameAt, LockInv, BatchInUse
  <2> QED BY <2>1, FoundStays
<1>18. ASSUME NEW w \in Game, ReapRoom(w) PROVE LeaveFound'
  <2>1. /\ UNCHANGED <<dead, pendingLeave, members, net>>
        /\ \A v \in Game : v # w => game'[v] = game[v]
        /\ game[w].leaves = {} /\ game'[w].pc # "move"
    BY <1>18, ReapRoomEffect DEF GameAt, LockInv, BatchInUse
  <2> QED BY <2>1, FoundStays
<1>19. ASSUME NEW w \in Game, RoomTick(w) PROVE LeaveFound'
  <2>1. /\ UNCHANGED <<dead, pendingLeave, members, net>>
        /\ \A v \in Game : v # w => game'[v] = game[v]
        /\ game[w].leaves = {} /\ game'[w].pc # "move"
    BY <1>19, RoomTickEffect DEF GameAt, LockInv, BatchInUse
  <2> QED BY <2>1, FoundStays
<1>20. ASSUME NEW w \in Game, TransferBegin(w) PROVE LeaveFound'
  <2>0. PICK old \in Rooms : old = game[w].cur
    BY <1>0, GameTyped
  <2>1. PICK new \in Rooms :
           /\ AllocRoomSlotLocked(new, gameWorker[old], {old})
           /\ GameAt(w, "move", old, new, pendingJoin[old], pendingLeave[old])
    BY <1>20, <2>0, TransferBeginEffect
  <2>2. /\ game[w].pc = "tick" /\ game[w].leaves = {} /\ UNCHANGED <<dead, net>>
    BY <1>20, TransferBeginEffect DEF LockInv, BatchInUse
  <2>3. /\ members'[new] = {} /\ \A x \in Rooms : x # new => members'[x] = members[x]
        /\ \A x \in Rooms : x \notin {old, new} => pendingLeave'[x] = pendingLeave[x]
    <3>1. {old} \in SUBSET Rooms /\ gameWorker[old] \in Game
      BY DEF TypeOK, MgrTypeOK
    <3>2. members'[new] = {} /\ \A x \in Rooms : x # new => members'[x] = members[x]
      BY <2>1, <3>1, AllocEffect
    <3>3. \A x \in Rooms : x \notin {old, new} => pendingLeave'[x] = pendingLeave[x]
      BY <2>1, <3>1, AllocEffect
    <3> QED BY <3>2, <3>3
  <2>4. /\ game'[w].pc = "move" /\ game'[w].cur = old /\ game'[w].leaves = pendingLeave[old]
        /\ \A v \in Game : v # w => game'[v] = game[v]
    BY <2>1 DEF GameAt
  <2> SUFFICES ASSUME NEW r \in Rooms, NEW m \in members'[r], dead'[m.sess]
               PROVE  OnItsWay(m, r)'
    BY DEF LeaveFound
  <2>5. r # new /\ m \in members[r] /\ OnItsWay(m, r)
    BY <2>2, <2>3 DEF LeaveFound
  <2>6. \A v \in Game : LeaveFor(m) \in game[v].leaves /\ Working(v, r)
            => LeaveFor(m) \in game'[v].leaves /\ Working(v, r)'
    BY <2>2, <2>4 DEF Working
  <2>7. CASE r # old
    <3>1. Emptied(r)' => Emptied(r)
      BY <2>4, <2>7 DEF Emptied
    <3> QED BY <2>2, <2>3, <2>5, <2>6, <2>7, <3>1, WayStays
  <2>8. CASE r = old
    <3>1. ~\E e \in Net : Pushing(e, m.sess, r)
      <4> SUFFICES ASSUME NEW e \in Net, Pushing(e, m.sess, old) PROVE FALSE
        BY <2>8
      <4>1. net'[e].pc = "pushLeave" /\ net'[e].room = old /\ net'[e].sess = m.sess
        BY <2>2 DEF Pushing
      <4> QED BY <2>4, <2>8, <4>1 DEF LateLeave
    <3>2. CASE \E e \in Net : net[e].pc = "leave" /\ net[e].sess = m.sess
      BY <2>2, <3>2 DEF OnItsWay
    <3>3. CASE LeaveFor(m) \in pendingLeave[r]
      BY <2>4, <2>8, <3>3 DEF OnItsWay, Working
    <3>4. CASE \E v \in Game : LeaveFor(m) \in game[v].leaves /\ Working(v, r)
      BY <2>6, <3>4 DEF OnItsWay
    <3> QED BY <2>5, <3>1, <3>2, <3>3, <3>4 DEF OnItsWay
  <2> QED BY <2>7, <2>8
<1>21. ASSUME NEW w \in Game, NEW o \in members[game[w].cur], TransferMember(w, o) PROVE LeaveFound'
  <2>0. PICK old \in Rooms, new \in Rooms : old = game[w].cur /\ new = game[w].nr
    BY <1>0, GameTyped
  <2>1. game[w].pc = "move" /\ UNCHANGED <<dead, pendingLeave, net, game>>
    BY <1>21, TransferMemberEffect
  <2>2. Moves(AtMember(old), AtMember(new), {o}) /\ old # new
    BY <1>21, <2>0, <2>1, MemberMoves, MovingHands
  <2>3. /\ members'[new] = members[new] \cup {o} /\ o \in members[old]
        /\ \A x \in Rooms : x # new => members'[x] \subseteq members[x]
    <3>1. members'[new] = members[new] \cup {o} /\ members'[old] = members[old] \ {o}
      BY <2>2, WhereIs, WhereIsNext DEF Moves
    <3>2. \A x \in Rooms : x # new /\ x # old => members'[x] = members[x]
      BY <2>2, PlaceCases, PlacesApart, WhereIs, WhereIsNext DEF Moves
    <3> QED BY <2>0, <3>1, <3>2
  <2> SUFFICES ASSUME NEW r \in Rooms, NEW m \in members'[r], dead'[m.sess]
               PROVE  OnItsWay(m, r)'
    BY DEF LeaveFound
  <2>4. \A q \in Rooms : /\ Emptied(q)' <=> Emptied(q)
                         /\ \A v \in Game : Working(v, q)' <=> Working(v, q)
    BY <2>1 DEF Emptied, Working
  <2>5. CASE m \in members[r]
    <3>1. OnItsWay(m, r)
      BY <2>1, <2>5 DEF LeaveFound
    <3> QED BY <2>1, <2>4, <3>1, WayStays
  <2>6. CASE m \notin members[r]
    <3>1. r = new /\ m = o
      BY <2>3, <2>6
    <3>2. OnItsWay(m, old) /\ Emptied(old)
      BY <2>0, <2>1, <2>3, <3>1 DEF LeaveFound, Emptied
    <3>3. CASE \E e \in Net : net[e].pc = "leave" /\ net[e].sess = m.sess
      BY <2>1, <3>3 DEF OnItsWay
    <3>4. ASSUME NEW v \in Game, LeaveFor(m) \in game[v].leaves, Working(v, old)
          PROVE  OnItsWay(m, r)'
      <4>1. v = w
        <5>1. CASE game[v].pc \in {"queues", "move"} /\ game[v].cur = old
          BY <2>0, <2>1, <5>1, MovingHands
        <5>2. CASE game[v].pc = "move" /\ game[v].nr = old
          BY <2>1, <5>2 DEF LockInv, LockExclusive
        <5> QED BY <3>4, <5>1, <5>2 DEF Working
      <4>2. Working(w, r)
        BY <2>0, <2>1, <3>1 DEF Working
      <4> QED BY <2>1, <2>4, <3>4, <4>1, <4>2 DEF OnItsWay
    <3> QED BY <3>2, <3>3, <3>4 DEF OnItsWay
  <2> QED BY <2>5, <2>6
<1>22. ASSUME NEW w \in Game, TransferEnd(w) PROVE LeaveFound'
  <2>0. PICK old \in Rooms, new \in Rooms : old = game[w].cur /\ new = game[w].nr
    BY <1>0, GameTyped
  <2>1. /\ game[w].pc = "move" /\ members[old] = {} /\ UNCHANGED <<dead, members, net>>
        /\ pendingLeave' = [pendingLeave EXCEPT ![new] = @ \cup game[w].leaves]
        /\ game'[w].pc = "rooms" /\ \A v \in Game : v # w => game'[v] = game[v]
    BY <1>22, <2>0, TransferEndEffect DEF GameAt
  <2>2. \A v \in Game : game'[v].pc # "move"
    BY <2>1 DEF LockInv, LockExclusive
  <2> SUFFICES ASSUME NEW r \in Rooms, NEW m \in members'[r], dead'[m.sess]
               PROVE  OnItsWay(m, r)'
    BY DEF LeaveFound
  <2>3. r # old /\ OnItsWay(m, r)
    BY <2>1 DEF LeaveFound
  <2>4. ~Emptied(r)'
    BY <2>2 DEF Emptied
  <2>5. /\ pendingLeave[r] \subseteq pendingLeave'[r]
        /\ game[w].leaves \subseteq pendingLeave'[new]
    BY <1>0, <2>1 DEF QueueTypeOK
  <2>6. CASE \E e \in Net : net[e].pc = "leave" /\ net[e].sess = m.sess
    BY <2>1, <2>6 DEF OnItsWay
  <2>7. CASE \E e \in Net : Pushing(e, m.sess, r)
    BY <2>1, <2>4, <2>7 DEF OnItsWay, Pushing
  <2>8. CASE LeaveFor(m) \in pendingLeave[r]
    BY <2>4, <2>5, <2>8 DEF OnItsWay
  <2>9. ASSUME NEW v \in Game, LeaveFor(m) \in game[v].leaves, Working(v, r)
        PROVE  OnItsWay(m, r)'
    <3>1. CASE v = w
      <4>1. r = new
        BY <2>0, <2>3, <2>9, <3>1 DEF Working
      <4> QED BY <2>4, <2>5, <2>9, <3>1, <4>1 DEF OnItsWay
    <3>2. CASE v # w
      BY <2>1, <2>9, <3>2 DEF OnItsWay, Working
    <3> QED BY <3>1, <3>2
  <2> QED BY <2>3, <2>6, <2>7, <2>8, <2>9 DEF OnItsWay
<1>23. CASE UNCHANGED vars
  <2>1. UNCHANGED <<dead, pendingLeave, members, net, game>>
    BY <1>23 DEF vars, poolVars, roomVars, queueVars, memberVars, gameVars
  <2> QED BY <2>1, FoundStays
<1>24. ASSUME NEW e \in Net, ServeStep(e) PROVE LeaveFound'
  <2>1. /\ UNCHANGED <<dead, pendingLeave, members, game>>
        /\ \A f \in Net : net[f].pc \in {"leave", "pushLeave"} => net'[f] = net[f]
    BY <1>24, ServeEffect
  <2> QED BY <2>1, FoundStays
<1> QED
  BY <1>1, <1>2, <1>3, <1>4, <1>5, <1>6, <1>7, <1>8, <1>9, <1>10, <1>11, <1>12,
     <1>13, <1>14, <1>15, <1>16, <1>17, <1>18, <1>19, <1>20, <1>21, <1>22, <1>23,
     <1>24 DEF Next, NetStep, ServeStep, GameStep

(* A late leave is lost: nothing that is on its way will remove its member.     *)
LEMMA LateIsLost ==
    ASSUME TypeOK, LockInv, HandInv, HoldInv, LeaveInv, LeftInv, LateLeave
    PROVE  ~LeaveFound
<1>0. FrameTypeOK /\ \A e \in Net : net[e].pc \notin {"idle", "serve"} => net[e].sess \in mySessions[e]
  BY DEF TypeOK, LockInv, NetHasSession
<1>1. PICK e \in Net, w \in Game :
         /\ net[e].pc = "pushLeave" /\ game[w].pc = "move" /\ net[e].room = game[w].cur
         /\ \E m \in members[game[w].cur] \cup members[game[w].nr] : m.sess = net[e].sess
  BY DEF LateLeave
<1>2. PICK old \in Rooms, new \in Rooms, s \in Sess :
         old = game[w].cur /\ new = game[w].nr /\ s = net[e].sess
  BY <1>0, GameTyped, NetTyped
<1>3. PICK r \in {old, new} : \E m \in members[r] : m.sess = s
  BY <1>1, <1>2
<1>4. PICK m \in members[r] : m.sess = s
  BY <1>3
<1>5. \A f \in Net : net[f].pc \in {"leave", "pushLeave"} /\ net[f].sess = s => f = e
  BY <1>0, <1>1, <1>2 DEF HoldInv, OneOwner
<1>6. ~LeaveQueued(LeaveFor(m))
  <2>1. LeaveFor(m) = LeaveOf(s) /\ LeaveOf(s) \in LeaveEntry
    <3>1. LeaveFor(m) = LeaveOf(s)
      BY <1>2, <1>3, <1>4, MemberIs
    <3>2. gen[s] \in Nat
      BY <1>2 DEF TypeOK, PoolTypeOK
    <3> QED BY <1>2, <3>1, <3>2 DEF LeaveOf, LeaveEntry
  <2>2. ~Left(s)
    BY <1>0, <1>1, <1>2 DEF Left
  <2> QED BY <2>1, <2>2 DEF LeftInv, LeftQueued, LeaveOf
<1>7. ~OnItsWay(m, r)
  <2>1. ~\E f \in Net : net[f].pc = "leave" /\ net[f].sess = m.sess
    BY <1>1, <1>4, <1>5
  <2>2. ~(~Emptied(r) /\ \E f \in Net : Pushing(f, m.sess, r))
    <3> SUFFICES ASSUME NEW f \in Net, Pushing(f, m.sess, r) PROVE Emptied(r)
      OBVIOUS
    <3>1. r = old
      BY <1>1, <1>2, <1>4, <1>5 DEF Pushing
    <3> QED BY <1>1, <1>2, <3>1 DEF Emptied
  <2> QED BY <1>6, <2>1, <2>2 DEF OnItsWay, LeaveQueued
<1>8. dead[m.sess]
  BY <1>1, <1>2, <1>4 DEF LeaveInv, Leaving
<1> QED BY <1>4, <1>7, <1>8 DEF LeaveFound

(* The finding of LostLeave, exactly.  OnSessionLeave reads the room number     *)
(* before it has the room's lock (RoomManager.cpp:209-223); in the runs in      *)
(* which no transfer empties that room in between with the member in its party, *)
(* the leave of every member whose session has gone is on its way to the member *)
(* for as long as it is one, and in the others one is lost.                     *)
THEOREM LeavesExactly == PatientSpec => ([]LeaveFound <=> []~LateLeave)
<1> DEFINE I == /\ TypeOK /\ LockInv /\ HandInv /\ SeatInv /\ HoldInv /\ LeaveInv
                /\ RouteInv /\ LeftInv
<1>1. Init => LeaveFound
  BY DEF Init, LeaveFound
<1>2. I /\ I' /\ LeaveFound /\ ~LateLeave' /\ [Next]_vars => LeaveFound'
  BY FoundStep
<1>3. I /\ LeaveFound => ~LateLeave
  BY LateIsLost
<1>4. PatientSpec => []I
  BY TypeCorrect, LockHolder, RoomsInHand, SeatsSound, HoldersSound, LeavesSound, RoutesSound,
     LeftSound, PTL DEF PatientSpec
<1> HIDE DEF I
<1> QED BY <1>1, <1>2, <1>3, <1>4, PTL DEF Spec, PatientSpec

--------------------------------------------------------------------------------
(* The assumption.                                                              *)

(* A server with one epoll worker keeps AcceptsAfter by itself: the only thread *)
(* that accepts is the one that would be inside HandleSession. There every      *)
(* theorem about PatientSpec is one about Spec (EpollWorker.cpp:93-118).        *)
THEOREM LoneWorkerPatient ==
    ASSUME NEW e, Net = {e}
    PROVE  Spec => PatientSpec
<1>1. AcceptsAfter
  BY DEF AcceptsAfter, Accept, AcceptAborted
<1> QED BY <1>1, PTL DEF PatientSpec

================================================================================
