---------------------------- MODULE RoomInputProofs ----------------------------
(* Theorems about RoomInput, for every number of sessions, rooms, seats and     *)
(* inputs and every depth of a ring.                                            *)
EXTENDS RoomInput, FiniteSetTheorems, WellFoundedInduction, TLAPS

(* A non-empty set of numbers has a least one: the finite sets 0 .. x are well  *)
(* founded under strict inclusion.                                              *)
LEMMA LeastNat ==
    ASSUME NEW S \in SUBSET Nat, S # {}
    PROVE  \E x \in S : \A y \in S : x <= y
<1> DEFINE T == {0 .. x : x \in S}
<1>1. T \subseteq FiniteSubsetsOf(Nat)
  <2>1. SUFFICES ASSUME NEW x \in S
                 PROVE  0 .. x \in FiniteSubsetsOf(Nat)
    OBVIOUS
  <2>2. 0 .. x \in SUBSET Nat /\ x \in Int
    OBVIOUS
  <2>3. IsFiniteSet(0 .. x)
    BY <2>2, FS_Interval
  <2> QED BY <2>2, <2>3 DEF FiniteSubsetsOf
<1>2. \E u \in T : \A v \in T : ~ (<<v, u>> \in StrictSubsetOrdering(Nat))
  <2>1. T # {} OBVIOUS
  <2> HIDE DEF T
  <2> QED BY <1>1, <2>1, WFMin, FS_StrictSubsetOrderingWellFounded
<1>3. PICK x \in S : \A y \in S : ~ (<<0 .. y, 0 .. x>> \in StrictSubsetOrdering(Nat))
  BY <1>2
<1>4. ASSUME NEW y \in S, y < x
      PROVE  FALSE
  <2>1. 0 .. y \subseteq 0 .. x
    BY <1>4
  <2>2. x \in 0 .. x /\ x \notin 0 .. y
    BY <1>4
  <2>3. 0 .. y \in SUBSET Nat /\ 0 .. x \in SUBSET Nat
    OBVIOUS
  <2> DEFINE p == <<0 .. y, 0 .. x>>
  <2>4. p \in (SUBSET Nat) \X (SUBSET Nat) /\ p[1] \subseteq p[2] /\ p[1] # p[2]
    BY <2>1, <2>2, <2>3, Zenon
  <2>5. p \in StrictSubsetOrdering(Nat)
    BY <2>4 DEF StrictSubsetOrdering
  <2> QED BY <1>3, <2>5
<1> QED BY <1>4
(* Induction over the positions of a finite list.                               *)
LEMMA UpTo ==
    ASSUME NEW n \in Nat, NEW S,
           0 \in S, \A k \in 1 .. n : k - 1 \in S => k \in S
    PROVE  \A k \in 0 .. n : k \in S
<1> DEFINE Missing == (0 .. n) \ S
<1>1. ASSUME NEW k \in Missing, \A j \in Missing : k <= j
      PROVE  FALSE
  <2>1. k \in 1 .. n
    BY <1>1
  <2>2. k - 1 \notin Missing
    BY <1>1, <2>1
  <2> QED BY <1>1, <2>1, <2>2
<1>2. Missing = {}
  <2>1. Missing \in SUBSET Nat
    OBVIOUS
  <2> HIDE DEF Missing
  <2> QED BY <1>1, <2>1, LeastNat
<1> QED BY <1>2

(* The loop over the queue in RoomTick as a function of the number of commands  *)
(* that have been routed.                                                       *)
LEMMA RoutedSteps ==
    ASSUME NEW ms, NEW q, Len(q) \in Nat
    PROVE  \E f : /\ RoutedAll(ms, q) = f[Len(q)]
                  /\ f[0] = ms
                  /\ \A k \in 1 .. Len(q) : f[k] = Routed(f[k - 1], q[k])
<1> DEFINE Def(f, n) == f = [k \in 0 .. n |-> IF k = 0 THEN ms ELSE Routed(f[k - 1], q[k])]
           Good == {n \in 0 .. Len(q) : \E f : Def(f, n)}
<1>1. 0 \in Good
  <2> DEFINE g == [k \in 0 .. 0 |-> ms]
  <2>1. g = [k \in 0 .. 0 |-> IF k = 0 THEN ms ELSE Routed(g[k - 1], q[k])]
    OBVIOUS
  <2>2. \E h : Def(h, 0)
    <3> HIDE DEF g
    <3> QED BY <2>1
  <2> QED BY <2>2
<1>2. ASSUME NEW n \in 1 .. Len(q), n - 1 \in Good
      PROVE  n \in Good
  <2>1. PICK f : Def(f, n - 1)
    BY <1>2
  <2> DEFINE g == [k \in 0 .. n |-> IF k = n THEN Routed(f[n - 1], q[n]) ELSE f[k]]
  <2>2. \A k \in 0 .. n - 1 : f[k] = IF k = 0 THEN ms ELSE Routed(f[k - 1], q[k])
    BY <2>1
  <2>3. ASSUME NEW k \in 0 .. n
        PROVE  g[k] = IF k = 0 THEN ms ELSE Routed(g[k - 1], q[k])
    <3>1. CASE k = n
      <4>1. g[k - 1] = f[n - 1]
        BY <3>1
      <4> QED BY <3>1, <4>1
    <3>2. CASE k # n
      <4>1. k \in 0 .. n - 1 /\ g[k] = f[k]
        BY <3>2
      <4>2. k # 0 => g[k - 1] = f[k - 1]
        BY <3>2
      <4> QED BY <2>2, <4>1, <4>2
    <3> QED BY <3>1, <3>2
  <2>4. g = [k \in 0 .. n |-> IF k = 0 THEN ms ELSE Routed(g[k - 1], q[k])]
    BY <2>3
  <2>5. \E h : Def(h, n)
    <3> HIDE DEF g
    <3> QED BY <2>4
  <2> QED BY <2>5
<1>3. Len(q) \in Good
  <2>1. \A n \in 1 .. Len(q) : n - 1 \in Good => n \in Good
    BY <1>2
  <2> HIDE DEF Good
  <2>2. \A n \in 0 .. Len(q) : n \in Good
    BY <1>1, <2>1, UpTo
  <2> QED BY <2>2
<1>4. \E f : Def(f, Len(q))
  BY <1>3
<1>5. PICK f : /\ f = [k \in 0 .. Len(q) |-> IF k = 0 THEN ms ELSE Routed(f[k - 1], q[k])]
               /\ RoutedAll(ms, q) = f[Len(q)]
  BY <1>4 DEF RoutedAll
<1>6. f[0] = ms /\ \A k \in 1 .. Len(q) : f[k] = Routed(f[k - 1], q[k])
  BY <1>5
<1> QED BY <1>5, <1>6

--------------------------------------------------------------------------------
(* The operators on a player and on the players of a room.                      *)

(* A new member is empty (Room.h:Member).                                       *)
LEMMA FreshType ==
    ASSUME NEW s \in Sess, NEW g \in 0 .. MaxGen, NEW i \in Seats
    PROVE  /\ Fresh(s, g, i) \in MemberSet
           /\ Fresh(s, g, i).used /\ Fresh(s, g, i).sess = s /\ Fresh(s, g, i).gen = g
           /\ Fresh(s, g, i).ring = <<>> /\ Fresh(s, g, i).lastInputSeq = 0
           /\ Fresh(s, g, i).held.sess = s /\ Fresh(s, g, i).held.gen = g
<1>1. NoCmd(s, g, i) \in Cmd
  BY BoundAssumption, DirAssumption DEF NoCmd, Cmd
<1>2. <<>> \in Seq(Cmd)
  OBVIOUS
<1>3. 0 \in 0 .. MaxSeq /\ 0 \in 0 .. NeutralAfter + 1
  BY BoundAssumption, DepthAssumption
<1> QED BY <1>1, <1>2, <1>3 DEF Fresh, MemberSet, NoCmd

(* A seat may become unused, which changes nothing else.                        *)
LEMMA UnusedType ==
    ASSUME NEW m \in MemberSet, NEW u \in BOOLEAN
    PROVE  /\ [m EXCEPT !.used = u] \in MemberSet
           /\ [m EXCEPT !.used = u].used = u
           /\ [m EXCEPT !.used = u].sess = m.sess /\ [m EXCEPT !.used = u].gen = m.gen
           /\ [m EXCEPT !.used = u].ring = m.ring /\ [m EXCEPT !.used = u].held = m.held
           /\ [m EXCEPT !.used = u].lastInputSeq = m.lastInputSeq
BY DEF MemberSet

(* The members of a new room.                                                   *)
LEMMA NoMembersType ==
    NoMembers \in [Seats -> MemberSet] /\ \A i \in Seats : ~NoMembers[i].used /\ NoMembers[i].ring = <<>>
<1>1. (CHOOSE s \in Sess : TRUE) \in Sess /\ 0 \in 0 .. MaxGen
  BY SlotAssumption, BoundAssumption
<1>2. ASSUME NEW i \in Seats
      PROVE  /\ [Fresh(CHOOSE s \in Sess : TRUE, 0, i) EXCEPT !.used = FALSE] \in MemberSet
             /\ ~[Fresh(CHOOSE s \in Sess : TRUE, 0, i) EXCEPT !.used = FALSE].used
             /\ [Fresh(CHOOSE s \in Sess : TRUE, 0, i) EXCEPT !.used = FALSE].ring = <<>>
  <2> DEFINE m == Fresh(CHOOSE s \in Sess : TRUE, 0, i)
  <2>1. m \in MemberSet /\ m.ring = <<>>
    BY <1>1, FreshType
  <2> HIDE DEF m
  <2>2. [m EXCEPT !.used = FALSE] \in MemberSet /\ ~[m EXCEPT !.used = FALSE].used
        /\ [m EXCEPT !.used = FALSE].ring = <<>>
    BY <2>1, UnusedType
  <2> QED BY <2>2 DEF m
<1> QED BY <1>2 DEF NoMembers

(* The ring after a push: c is the newest, the oldest may have been dropped.    *)
LEMMA PushedShape ==
    ASSUME NEW ring \in Seq(Cmd), Len(ring) <= kInputRingDepth, NEW c \in Cmd
    PROVE  /\ Pushed(ring, c) \in Seq(Cmd) /\ Len(Pushed(ring, c)) \in 1 .. kInputRingDepth
           /\ Pushed(ring, c)[Len(Pushed(ring, c))] = c
           /\ \E d \in {0, 1} : \A k \in 1 .. Len(Pushed(ring, c)) - 1 :
                 k + d \in 1 .. Len(ring) /\ Pushed(ring, c)[k] = ring[k + d]
<1> USE DepthAssumption
<1>1. CASE Len(ring) = kInputRingDepth
  <2>1. ring # <<>>
    BY <1>1
  <2>2. /\ Tail(ring) \in Seq(Cmd) /\ Len(Tail(ring)) = Len(ring) - 1
        /\ \A k \in 1 .. Len(ring) - 1 : Tail(ring)[k] = ring[k + 1]
    BY <2>1
  <2>3. Pushed(ring, c) = Append(Tail(ring), c)
    BY <1>1 DEF Pushed
  <2> DEFINE t == Tail(ring)
  <2>a. t \in Seq(Cmd) /\ Len(t) = Len(ring) - 1 /\ Len(ring) \in Nat
    BY <2>2
  <2>4. /\ Append(t, c) \in Seq(Cmd) /\ Len(Append(t, c)) = Len(ring)
        /\ Append(t, c)[Len(ring)] = c
        /\ \A k \in 1 .. Len(ring) - 1 : Append(t, c)[k] = t[k]
    <3> HIDE DEF t
    <3> QED BY <2>a
  <2>5. \A k \in 1 .. Len(ring) - 1 : k + 1 \in 1 .. Len(ring) /\ Append(t, c)[k] = ring[k + 1]
    BY <2>2, <2>4
  <2> QED BY <1>1, <2>3, <2>4, <2>5
<1>2. CASE Len(ring) # kInputRingDepth
  <2>1. Pushed(ring, c) = Append(ring, c)
    BY <1>2 DEF Pushed
  <2>2. /\ Append(ring, c) \in Seq(Cmd) /\ Len(Append(ring, c)) = Len(ring) + 1
        /\ Append(ring, c)[Len(ring) + 1] = c
        /\ \A k \in 1 .. Len(ring) : k + 0 \in 1 .. Len(ring) /\ Append(ring, c)[k] = ring[k + 0]
    OBVIOUS
  <2>3. Len(ring) + 1 \in 1 .. kInputRingDepth
    BY <1>2
  <2> QED BY <2>1, <2>2, <2>3
<1> QED BY <1>1, <1>2

(* What routing and consuming leave alone.                                      *)
SamePlayer(m, n) == n.used = m.used /\ n.sess = m.sess /\ n.gen = m.gen

(* A player of the right type whose ring is not too deep.                       *)
Sound(m) == m \in MemberSet /\ Len(m.ring) <= kInputRingDepth

(* One command reaches one ring, or none.                                       *)
LEMMA RoutedEffect ==
    ASSUME NEW ms \in [Seats -> MemberSet], \A i \in Seats : Sound(ms[i]), NEW c \in Cmd
    PROVE  /\ Routed(ms, c) \in [Seats -> MemberSet]
           /\ \A i \in Seats :
                 LET m == ms[i]
                     n == Routed(ms, c)[i]
                 IN  /\ Sound(n) /\ SamePlayer(m, n)
                     /\ n.held = m.held /\ n.lastInputSeq = m.lastInputSeq
                     /\ \/ n = m /\ ~(i = c.seat /\ Accepted(m, c))
                        \/ i = c.seat /\ Accepted(m, c) /\ n.ring = Pushed(m.ring, c)
<1>0. c.seat \in Seats
  BY DEF Cmd
<1>1. CASE ~Accepted(ms[c.seat], c)
  <2>1. Routed(ms, c) = ms
    BY <1>1 DEF Routed
  <2> QED BY <1>1, <2>1 DEF SamePlayer
<1>2. CASE Accepted(ms[c.seat], c)
  <2> DEFINE m == ms[c.seat]
             n == [m EXCEPT !.ring = Pushed(m.ring, c)]
  <2>1. Routed(ms, c) = [ms EXCEPT ![c.seat] = n]
    BY <1>2 DEF Routed
  <2>2. m \in MemberSet /\ m.ring \in Seq(Cmd) /\ Len(m.ring) <= kInputRingDepth
    BY <1>0 DEF Sound, MemberSet
  <2>3. Pushed(m.ring, c) \in Seq(Cmd) /\ Len(Pushed(m.ring, c)) <= kInputRingDepth
    <3>1. Len(Pushed(m.ring, c)) \in 1 .. kInputRingDepth /\ Pushed(m.ring, c) \in Seq(Cmd)
      BY <2>2, PushedShape
    <3> QED BY <3>1, DepthAssumption
  <2>4. /\ n \in MemberSet /\ n.ring = Pushed(m.ring, c) /\ SamePlayer(m, n)
        /\ n.held = m.held /\ n.lastInputSeq = m.lastInputSeq
    BY <2>2, <2>3 DEF MemberSet, SamePlayer
  <2>5. Sound(n)
    BY <2>3, <2>4 DEF Sound
  <2>6. m = ms[c.seat]
    OBVIOUS
  <2> HIDE DEF m, n
  <2>7. [ms EXCEPT ![c.seat] = n] \in [Seats -> MemberSet]
    BY <1>0, <2>4
  <2>8. \A i \in Seats : [ms EXCEPT ![c.seat] = n][i] = IF i = c.seat THEN n ELSE ms[i]
    BY <1>0
  <2> QED BY <1>2, <2>1, <2>4, <2>5, <2>6, <2>7, <2>8 DEF SamePlayer
<1> QED BY <1>1, <1>2

(* A player that consumes stays who it is; its ring loses its head at most.     *)
LEMMA ConsumedEffect ==
    ASSUME NEW m, Sound(m)
    PROVE  /\ Sound(Consumed(m)) /\ SamePlayer(m, Consumed(m))
           /\ ~m.used => Consumed(m) = m
           /\ m.used /\ m.ring # <<>> =>
                 /\ Consumed(m).held = Head(m.ring) /\ Consumed(m).ring = Tail(m.ring)
                 /\ Consumed(m).lastInputSeq = Head(m.ring).seq
           /\ m.used /\ m.ring = <<>> =>
                 /\ Consumed(m).held.sess = m.held.sess /\ Consumed(m).held.gen = m.held.gen
                 /\ Consumed(m).ring = <<>> /\ Consumed(m).lastInputSeq = m.lastInputSeq
<1>0. m \in MemberSet /\ m.ring \in Seq(Cmd) /\ m.held \in Cmd /\ Len(m.ring) <= kInputRingDepth
      /\ m.used \in BOOLEAN /\ m.emptyStreak \in 0 .. NeutralAfter + 1
  BY DEF Sound, MemberSet
<1>1. CASE ~m.used
  <2>1. Consumed(m) = m
    BY <1>1 DEF Consumed
  <2> QED BY <1>1, <2>1 DEF SamePlayer
<1>2. CASE m.used /\ m.ring # <<>>
  <2> DEFINE n == [m EXCEPT !.held = Head(m.ring), !.ring = Tail(@),
                            !.lastInputSeq = Head(m.ring).seq, !.emptyStreak = 0]
  <2>1. Consumed(m) = n
    BY <1>2 DEF Consumed
  <2>2. Head(m.ring) \in Cmd /\ Tail(m.ring) \in Seq(Cmd) /\ Len(Tail(m.ring)) <= kInputRingDepth
    BY <1>0, <1>2, DepthAssumption
  <2>3. Head(m.ring).seq \in 0 .. MaxSeq /\ 0 \in 0 .. NeutralAfter + 1
    BY <2>2, DepthAssumption DEF Cmd
  <2>4. /\ n \in MemberSet /\ SamePlayer(m, n) /\ n.held = Head(m.ring) /\ n.ring = Tail(m.ring)
        /\ n.lastInputSeq = Head(m.ring).seq
    BY <1>0, <2>2, <2>3 DEF MemberSet, SamePlayer
  <2> HIDE DEF n
  <2> QED BY <1>2, <2>1, <2>2, <2>4 DEF Sound
<1>3. CASE m.used /\ m.ring = <<>>
  <2> DEFINE streak == IF m.emptyStreak > NeutralAfter THEN m.emptyStreak ELSE m.emptyStreak + 1
             n == [m EXCEPT !.emptyStreak = streak, !.held = Neutral(m, streak)]
  <2>1. Consumed(m) = n
    BY <1>3 DEF Consumed
  <2>2. streak \in 0 .. NeutralAfter + 1
    BY <1>0, DepthAssumption
  <2>3. Neutral(m, streak) \in Cmd /\ Neutral(m, streak).sess = m.held.sess /\ Neutral(m, streak).gen = m.held.gen
    <3> HIDE DEF streak
    <3>1. /\ [m.held EXCEPT !.dir = "none"] \in Cmd
          /\ [m.held EXCEPT !.dir = "none"].sess = m.held.sess
          /\ [m.held EXCEPT !.dir = "none"].gen = m.held.gen
      BY <1>0, DirAssumption DEF Cmd
    <3> QED BY <1>0, <3>1 DEF Neutral
  <2> HIDE DEF streak
  <2>4. /\ n \in MemberSet /\ SamePlayer(m, n) /\ n.held = Neutral(m, streak) /\ n.ring = m.ring
        /\ n.lastInputSeq = m.lastInputSeq
    BY <1>0, <2>2, <2>3 DEF MemberSet, SamePlayer
  <2> HIDE DEF n
  <2> QED BY <1>0, <1>3, <2>1, <2>3, <2>4 DEF Sound
<1> QED BY <1>0, <1>1, <1>2, <1>3

(* The whole queue is routed: who sits where does not change (RoomTick).        *)
LEMMA RoutedAllType ==
    ASSUME NEW ms \in [Seats -> MemberSet], \A i \in Seats : Sound(ms[i]), NEW q \in Seq(Cmd)
    PROVE  /\ RoutedAll(ms, q) \in [Seats -> MemberSet]
           /\ \A i \in Seats : LET n == RoutedAll(ms, q)[i]
                               IN  /\ Sound(n) /\ SamePlayer(ms[i], n)
                                   /\ n.held = ms[i].held /\ n.lastInputSeq = ms[i].lastInputSeq
<1>1. Len(q) \in Nat /\ \A k \in 1 .. Len(q) : q[k] \in Cmd
  OBVIOUS
<1>2. PICK f : /\ RoutedAll(ms, q) = f[Len(q)] /\ f[0] = ms
               /\ \A k \in 1 .. Len(q) : f[k] = Routed(f[k - 1], q[k])
  BY <1>1, RoutedSteps
<1> DEFINE Ok(k) == /\ f[k] \in [Seats -> MemberSet]
                    /\ \A i \in Seats : /\ Sound(f[k][i]) /\ SamePlayer(ms[i], f[k][i])
                                        /\ f[k][i].held = ms[i].held
                                        /\ f[k][i].lastInputSeq = ms[i].lastInputSeq
           S == {k \in 0 .. Len(q) : Ok(k)}
<1>3. 0 \in S
  BY <1>1, <1>2 DEF SamePlayer
<1>4. ASSUME NEW k \in 1 .. Len(q), k - 1 \in S
      PROVE  k \in S
  <2>1. Ok(k - 1) /\ q[k] \in Cmd /\ f[k] = Routed(f[k - 1], q[k])
    BY <1>1, <1>2, <1>4
  <2> DEFINE h == f[k - 1]
  <2>2. h \in [Seats -> MemberSet] /\ \A i \in Seats : Sound(h[i])
    BY <2>1
  <2>3. /\ Routed(h, q[k]) \in [Seats -> MemberSet]
        /\ \A i \in Seats : /\ Sound(Routed(h, q[k])[i]) /\ SamePlayer(h[i], Routed(h, q[k])[i])
                            /\ Routed(h, q[k])[i].held = h[i].held
                            /\ Routed(h, q[k])[i].lastInputSeq = h[i].lastInputSeq
    <3> HIDE DEF h
    <3> QED BY <2>1, <2>2, RoutedEffect
  <2>4. Ok(k)
    BY <2>1, <2>3 DEF SamePlayer
  <2> QED BY <2>4
<1>5. Ok(Len(q))
  <2>1. \A k \in 1 .. Len(q) : k - 1 \in S => k \in S
    BY <1>4
  <2> HIDE DEF S
  <2>2. \A k \in 0 .. Len(q) : k \in S
    BY <1>1, <1>3, <2>1, UpTo
  <2>3. Len(q) \in S
    BY <1>1, <2>2
  <2> QED BY <2>3 DEF S
<1> QED BY <1>2, <1>5

(* The player after a tick.                                                     *)
Ticking(r, i) == Consumed(RoutedAll(members[r], inQ[r])[i])

(* Every input in the ring, and the one that is held, is the player's own.      *)
Own(m) ==
    /\ \A k \in 1 .. Len(m.ring) : m.ring[k].sess = m.sess /\ m.ring[k].gen = m.gen
    /\ m.held.sess = m.sess /\ m.held.gen = m.gen

(* Nothing in the ring was sent after number n.                                 *)
UpToSeq(m, n) == \A k \in 1 .. Len(m.ring) : m.ring[k].seq <= n

(* Routing the queue keeps a player's ring its own and in order.                *)
LEMMA RoutedAllOrder ==
    ASSUME NEW ms \in [Seats -> MemberSet], \A i \in Seats : Sound(ms[i]), NEW q \in Seq(Cmd),
           NEW i \in Seats, NEW top \in Nat,
           RingInOrder(ms[i]), Own(ms[i]), UpToSeq(ms[i], top), Newer(ms[i], q),
           \A k \in SentBy(ms[i], q) : q[k].seq <= top
    PROVE  LET n == RoutedAll(ms, q)[i]
           IN  RingInOrder(n) /\ Own(n) /\ UpToSeq(n, top)
<1>1. Len(q) \in Nat /\ \A k \in 1 .. Len(q) : q[k] \in Cmd
  OBVIOUS
<1>2. PICK f : /\ RoutedAll(ms, q) = f[Len(q)] /\ f[0] = ms
               /\ \A k \in 1 .. Len(q) : f[k] = Routed(f[k - 1], q[k])
  BY <1>1, RoutedSteps
<1> DEFINE Older(n, k) == \A j \in k + 1 .. Len(q) : j \in SentBy(ms[i], q) =>
                             \A l \in 1 .. Len(n.ring) : n.ring[l].seq < q[j].seq
           Fine(n) == RingInOrder(n) /\ Own(n) /\ UpToSeq(n, top) /\ SamePlayer(ms[i], n)
                      /\ n.lastInputSeq = ms[i].lastInputSeq
           Ok(k) == /\ f[k] \in [Seats -> MemberSet] /\ \A j \in Seats : Sound(f[k][j])
                    /\ Fine(f[k][i]) /\ Older(f[k][i], k)
           S == {k \in 0 .. Len(q) : Ok(k)}
<1>3. 0 \in S
  <2>1. \A j \in SentBy(ms[i], q) : \A l \in 1 .. Len(ms[i].ring) : ms[i].ring[l].seq < q[j].seq
    BY DEF Newer
  <2> QED BY <1>1, <1>2, <2>1 DEF SamePlayer
<1>4. ASSUME NEW k \in 1 .. Len(q), k - 1 \in S
      PROVE  k \in S
  <2>1. Ok(k - 1) /\ q[k] \in Cmd /\ f[k] = Routed(f[k - 1], q[k])
    BY <1>1, <1>2, <1>4
  <2> DEFINE h == f[k - 1]
             m == h[i]
             n == f[k][i]
             c == q[k]
  <2>2. /\ f[k] \in [Seats -> MemberSet] /\ \A j \in Seats : Sound(f[k][j])
        /\ SamePlayer(m, n) /\ n.held = m.held /\ n.lastInputSeq = m.lastInputSeq
        /\ \/ n = m
           \/ Accepted(m, c) /\ n.ring = Pushed(m.ring, c)
    <3>1. h \in [Seats -> MemberSet] /\ (\A j \in Seats : Sound(h[j])) /\ c \in Cmd /\ f[k] = Routed(h, c)
      BY <2>1
    <3> HIDE DEF h, c
    <3> QED BY <3>1, RoutedEffect
  <2>3. Fine(m) /\ Older(m, k - 1) /\ Sound(m) /\ c \in Cmd
    BY <2>1
  <2>4. Fine(n) /\ Older(n, k)
    <3>1. CASE n = m
      <4>1. \A j \in k + 1 .. Len(q) : j \in (k - 1) + 1 .. Len(q)
        BY <1>1
      <4>2. Older(m, k)
        <5> HIDE DEF m, c
        <5> QED BY <2>3, <4>1
      <4> QED BY <3>1, <2>3, <4>2
    <3>2. CASE Accepted(m, c) /\ n.ring = Pushed(m.ring, c)
      <4> HIDE DEF h, m, n, c
      <4>1. c.sess = m.sess /\ c.gen = m.gen /\ m.sess = ms[i].sess /\ m.gen = ms[i].gen
        BY <3>2, <2>3 DEF Accepted, SamePlayer
      <4>2. k \in SentBy(ms[i], q) /\ k \in (k - 1) + 1 .. Len(q)
        BY <1>1, <4>1 DEF SentBy, c
      <4>3. c.seq > m.lastInputSeq /\ c.seq <= top /\ \A l \in 1 .. Len(m.ring) : m.ring[l].seq < c.seq
        <5>1. c.seq > ms[i].lastInputSeq /\ c.seq <= top
          BY <4>2 DEF Newer, c
        <5>2. \A l \in 1 .. Len(m.ring) : m.ring[l].seq < c.seq
          BY <4>2, <2>3 DEF c
        <5> QED BY <5>1, <5>2, <2>3
      <4>4. m.ring \in Seq(Cmd) /\ Len(m.ring) <= kInputRingDepth
        BY <2>3 DEF Sound, MemberSet
      <4> DEFINE p == Pushed(m.ring, c)
      <4>p. p = n.ring
        BY <3>2
      <4>q. /\ Len(p) \in 1 .. kInputRingDepth /\ p[Len(p)] = c
            /\ \E d \in {0, 1} : \A l \in 1 .. Len(p) - 1 :
                 l + d \in 1 .. Len(m.ring) /\ p[l] = m.ring[l + d]
        <5> DEFINE a == m.ring
        <5>1. a \in Seq(Cmd) /\ Len(a) <= kInputRingDepth /\ c \in Cmd
          BY <2>3, <4>4
        <5> HIDE DEF a
        <5>2. /\ Len(Pushed(a, c)) \in 1 .. kInputRingDepth /\ Pushed(a, c)[Len(Pushed(a, c))] = c
              /\ \E d \in {0, 1} : \A l \in 1 .. Len(Pushed(a, c)) - 1 :
                   l + d \in 1 .. Len(a) /\ Pushed(a, c)[l] = a[l + d]
          BY <5>1, PushedShape
        <5> QED BY <5>2 DEF a
      <4> HIDE DEF p
      <4>5. PICK d \in {0, 1} : \A l \in 1 .. Len(n.ring) - 1 :
                 l + d \in 1 .. Len(m.ring) /\ n.ring[l] = m.ring[l + d]
        BY <4>p, <4>q
      <4>6. Len(n.ring) \in Nat /\ Len(n.ring) >= 1 /\ n.ring[Len(n.ring)] = c
        <5>1. Len(n.ring) \in 1 .. kInputRingDepth /\ n.ring[Len(n.ring)] = c
          BY <4>p, <4>q
        <5> QED BY <5>1, DepthAssumption
      <4>7. \A l \in 1 .. Len(n.ring) : l = Len(n.ring) \/ l \in 1 .. Len(n.ring) - 1
        BY <4>6
      <4>8. Len(m.ring) \in Nat /\ \A l \in 1 .. Len(m.ring) : m.ring[l].seq \in Nat
        <5>1. Cmd = [sess : Sess, gen : 0 .. MaxGen, seat : Seats, seq : 0 .. MaxSeq, dir : Dirs]
          BY DEF Cmd
        <5>2. \A x \in Cmd : x.seq \in Nat
          BY <5>1
        <5> QED BY <4>4, <5>2
      <4>9. c.seq \in Nat /\ m.lastInputSeq \in Nat
        BY <2>3, BoundAssumption DEF Cmd, Sound, MemberSet
      <4>10. RingInOrder(n)
        <5>1. \A l \in 1 .. Len(n.ring) : n.ring[l].seq > n.lastInputSeq
          <6>1. \A l \in 1 .. Len(m.ring) : m.ring[l].seq > m.lastInputSeq
            BY <2>3 DEF RingInOrder
          <6> QED BY <2>2, <4>3, <4>5, <4>6, <4>7, <6>1
        <5>2. ASSUME NEW l \in 1 .. Len(n.ring), NEW j \in 1 .. l - 1
              PROVE  n.ring[j].seq < n.ring[l].seq
          <6>1. j \in 1 .. Len(n.ring) - 1
            BY <4>6
          <6>2. j + d \in 1 .. Len(m.ring) /\ n.ring[j] = m.ring[j + d]
            BY <4>5, <6>1
          <6>3. CASE l = Len(n.ring)
            BY <4>3, <4>6, <6>2, <6>3
          <6>4. CASE l # Len(n.ring)
            <7>0. l \in 1 .. Len(n.ring) - 1
              BY <4>6, <6>4
            <7>1. l + d \in 1 .. Len(m.ring) /\ n.ring[l] = m.ring[l + d]
              BY <4>5, <7>0
            <7>2. j + d \in 1 .. (l + d) - 1
              BY <6>2
            <7>3. m.ring[j + d].seq < m.ring[l + d].seq
              BY <2>3, <7>1, <7>2 DEF RingInOrder
            <7> QED BY <6>2, <7>1, <7>3
          <6> QED BY <6>3, <6>4
        <5> QED BY <5>1, <5>2 DEF RingInOrder
      <4>11. Own(n)
        <5>1. /\ \A l \in 1 .. Len(m.ring) : m.ring[l].sess = m.sess /\ m.ring[l].gen = m.gen
              /\ n.held.sess = n.sess /\ n.held.gen = n.gen /\ n.sess = m.sess /\ n.gen = m.gen
          BY <2>2, <2>3 DEF Own, SamePlayer
        <5> QED BY <4>1, <4>5, <4>6, <4>7, <5>1 DEF Own
      <4>12. UpToSeq(n, top)
        BY <2>3, <4>3, <4>5, <4>6, <4>7 DEF UpToSeq
      <4>13. Older(n, k)
        <5> SUFFICES ASSUME NEW j \in k + 1 .. Len(q), j \in SentBy(ms[i], q),
                            NEW l \in 1 .. Len(n.ring)
                     PROVE  n.ring[l].seq < q[j].seq
          OBVIOUS
        <5>1. c.seq < q[j].seq
          BY <1>1, <4>2 DEF Newer, c
        <5>2. \A x \in 1 .. Len(m.ring) : m.ring[x].seq < q[j].seq
          <6>1. j \in (k - 1) + 1 .. Len(q)
            BY <1>1
          <6> QED BY <2>3, <6>1
        <5> QED BY <4>5, <4>6, <4>7, <5>1, <5>2
      <4> QED BY <2>2, <2>3, <4>10, <4>11, <4>12, <4>13 DEF SamePlayer
    <3> QED BY <2>2, <3>1, <3>2
  <2>5. Ok(k)
    BY <2>2, <2>4
  <2> QED BY <2>5
<1>5. Ok(Len(q))
  <2>1. \A k \in 1 .. Len(q) : k - 1 \in S => k \in S
    BY <1>4
  <2> HIDE DEF S
  <2>2. \A k \in 0 .. Len(q) : k \in S
    BY <1>1, <1>3, <2>1, UpTo
  <2>3. Len(q) \in S
    BY <1>1, <2>2
  <2> QED BY <2>3 DEF S
<1> QED BY <1>2, <1>5

--------------------------------------------------------------------------------
(* Where sessions are.                                                          *)

Sits(r, i)   == members[r][i].used
Sitter(r, i) == members[r][i].sess
Moving(r)    == game[r].pc = "move"

(* A session waits to join one room or sits in one seat, or neither.            *)
OnePlace ==
    /\ \A r, q \in Rooms : \A s \in Sess : s \in pendingJoin[r] /\ s \in pendingJoin[q] => r = q
    /\ \A r, q \in Rooms : \A i, j \in Seats :
          Sits(r, i) /\ Sits(q, j) /\ Sitter(r, i) = Sitter(q, j) => r = q /\ i = j
    /\ \A r, q \in Rooms : \A i \in Seats : Sits(r, i) => Sitter(r, i) \notin pendingJoin[q]

(* Who waits or sits is in a room or has a leave entry, with the generation of  *)
(* its slot; an operation is begun only in a room.                              *)
Present ==
    /\ \A r \in Rooms : \A s \in pendingJoin[r] : inRoom[s] \/ s \in leaving
    /\ \A r \in Rooms : \A i \in Seats :
          Sits(r, i) => /\ inRoom[Sitter(r, i)] \/ Sitter(r, i) \in leaving
                        /\ members[r][i].gen = gen[Sitter(r, i)]
    /\ \A s \in Sess : inRoom[s] => s \notin leaving
    /\ \A s \in leaving : gen[s] < MaxGen
    /\ \A s \in Sess : /\ op[s].pc # "idle" => inRoom[s]
                       /\ op[s].pc = "push" => seq[s] < MaxSeq

(* Nobody waits or sits in a room slot that is free, and its worker is idle.    *)
FreeRooms ==
    \A r \in Rooms : r \notin live => /\ pendingJoin[r] = {} /\ game[r].pc = "queues"
                                      /\ \A i \in Seats : ~Sits(r, i)

(* One party moves at a time, to a slot where nobody but the moved ones is.     *)
MoveSound ==
    /\ \A r, q \in Rooms : Moving(r) /\ Moving(q) => r = q
    /\ \A r, n \in Rooms : Moving(r) /\ game[r].nr = n =>
          /\ n # r /\ n \in live /\ r \in live /\ pendingJoin[n] = {} /\ game[n].pc = "queues"
          /\ \A i \in Seats : /\ Sits(n, i) => i \in game[r].moved
                              /\ Sits(r, i) => i \notin game[r].moved
          /\ \A s \in pendingJoin[r] : ~Sits(n, actorId[s])

(* A seat that is waited for is empty, and waited for by one session.           *)
SeatsApart ==
    \A r \in Rooms : \A s \in pendingJoin[r] :
        ~Sits(r, actorId[s]) /\ \A t \in pendingJoin[r] : actorId[s] = actorId[t] => s = t

(* The inductive invariant of who is where.                                     *)
PlaceInv == TypeOK /\ OnePlace /\ Present /\ FreeRooms /\ MoveSound /\ SeatsApart

(* Nobody sits down or stands up.                                               *)
SameSitters ==
    \A r \in Rooms : \A i \in Seats :
        /\ Sits(r, i)' = Sits(r, i)
        /\ Sits(r, i) => Sitter(r, i)' = Sitter(r, i) /\ members'[r][i].gen = members[r][i].gen

(* The types of the worker's frames.                                            *)
OpSet   == [pc : {"idle", "push", "ping"}, room : Rooms]
GameSet == [pc : {"queues", "tick", "exit", "move"}, nr : Rooms, moved : SUBSET Seats]

LEMMA FramesType ==
    /\ Idle \in OpSet /\ Idle.pc = "idle"
    /\ \A r \in Rooms : Ticked(r) \in GameSet /\ Ticked(r).pc = "queues"
<1>1. (CHOOSE r \in Rooms : TRUE) \in Rooms
  BY SlotAssumption
<1> QED BY <1>1 DEF Idle, OpSet, Ticked, GameSet

(* A room slot that is handed out was empty and is empty.                       *)
LEMMA AllocEffect ==
    ASSUME TypeOK, FreeRooms, NEW r \in Rooms, AllocRoomSlotLocked(r)
    PROVE  /\ r \notin live /\ live' = live \cup {r} /\ live' \subseteq Rooms
           /\ SameSitters
           /\ members' \in [Rooms -> [Seats -> MemberSet]]
           /\ \A q \in Rooms : \A i \in Seats : Len(members'[q][i].ring) <= kInputRingDepth
           /\ \A q \in Rooms : q # r => members'[q] = members[q] /\ inQ'[q] = inQ[q]
           /\ inQ' \in [Rooms -> Seq(Cmd)] /\ inQ'[r] = <<>>
           /\ tickAtomic' \in [Rooms -> 0 .. MaxTick]
<1>1. r \notin live /\ live' = live \cup {r} /\ live' \subseteq Rooms
  BY DEF AllocRoomSlotLocked, TypeOK
<1>2. members' = [members EXCEPT ![r] = NoMembers] /\ members \in [Rooms -> [Seats -> MemberSet]]
  BY DEF AllocRoomSlotLocked, TypeOK
<1>3. /\ members' \in [Rooms -> [Seats -> MemberSet]] /\ members'[r] = NoMembers
      /\ \A q \in Rooms : q # r => members'[q] = members[q]
  BY <1>2, NoMembersType
<1>4. \A q \in Rooms : \A i \in Seats : Len(members'[q][i].ring) <= kInputRingDepth
  <2>1. \A i \in Seats : Len(NoMembers[i].ring) <= kInputRingDepth
    BY NoMembersType, DepthAssumption
  <2> QED BY <1>3, <2>1 DEF TypeOK
<1>5. SameSitters
  <2>1. \A i \in Seats : ~Sits(r, i) /\ ~Sits(r, i)'
    BY <1>1, <1>3, NoMembersType DEF FreeRooms, Sits
  <2>2. \A q \in Rooms : \A i \in Seats : Sits(q, i) \in BOOLEAN /\ Sits(q, i)' \in BOOLEAN
    BY <1>2, <1>3 DEF Sits, MemberSet
  <2> QED BY <1>3, <2>1, <2>2 DEF SameSitters, Sits, Sitter
<1>6. /\ inQ' \in [Rooms -> Seq(Cmd)] /\ inQ'[r] = <<>>
      /\ \A q \in Rooms : q # r => inQ'[q] = inQ[q]
  BY DEF AllocRoomSlotLocked, FreshQueue, TypeOK
<1>7. tickAtomic' \in [Rooms -> 0 .. MaxTick]
  <2>1. 0 \in 0 .. MaxTick
    BY BoundAssumption
  <2> QED BY <2>1 DEF AllocRoomSlotLocked, TypeOK
<1> QED BY <1>1, <1>3, <1>4, <1>5, <1>6, <1>7

(* A tick changes what players have, not who they are.                          *)
LEMMA TickEffect ==
    ASSUME TypeOK, NEW r \in Rooms, RoomTick(r)
    PROVE  /\ members' \in [Rooms -> [Seats -> MemberSet]]
           /\ \A q \in Rooms : \A i \in Seats : Sound(members'[q][i])
           /\ SameSitters
           /\ \A q \in Rooms : q # r => members'[q] = members[q] /\ inQ'[q] = inQ[q]
           /\ \A i \in Seats : members'[r][i] = Ticking(r, i)
           /\ inQ' \in [Rooms -> Seq(Cmd)] /\ inQ'[r] = <<>>
           /\ tickAtomic' \in [Rooms -> 0 .. MaxTick]
<1>1. /\ members[r] \in [Seats -> MemberSet] /\ inQ[r] \in Seq(Cmd)
      /\ \A q \in Rooms : \A i \in Seats : Sound(members[q][i])
  BY DEF TypeOK, Sound
<1>2. \A i \in Seats : Sound(Ticking(r, i)) /\ SamePlayer(members[r][i], Ticking(r, i))
  <2>1. ASSUME NEW i \in Seats
        PROVE  Sound(Ticking(r, i)) /\ SamePlayer(members[r][i], Ticking(r, i))
    <3> DEFINE n == RoutedAll(members[r], inQ[r])[i]
    <3>1. Sound(n) /\ SamePlayer(members[r][i], n)
      BY <1>1, RoutedAllType
    <3>2. Sound(Consumed(n)) /\ SamePlayer(n, Consumed(n))
      <4> HIDE DEF n
      <4> QED BY <3>1, ConsumedEffect
    <3> QED BY <3>1, <3>2 DEF Ticking, SamePlayer
  <2> QED BY <2>1
<1>3. members' = [members EXCEPT ![r] = [i \in Seats |-> Ticking(r, i)]]
  BY DEF RoomTick, Ticking
<1>4. [i \in Seats |-> Ticking(r, i)] \in [Seats -> MemberSet]
  BY <1>2 DEF Sound
<1>5. /\ members' \in [Rooms -> [Seats -> MemberSet]]
      /\ \A q \in Rooms : q # r => members'[q] = members[q]
      /\ \A i \in Seats : members'[r][i] = Ticking(r, i)
  <2>1. members \in [Rooms -> [Seats -> MemberSet]]
    BY DEF TypeOK
  <2> QED BY <1>3, <1>4, <2>1
<1>6. \A q \in Rooms : \A i \in Seats : Sound(members'[q][i])
  BY <1>1, <1>2, <1>5
<1>7. SameSitters
  BY <1>2, <1>5 DEF SameSitters, SamePlayer, Sits, Sitter
<1>8. /\ inQ' \in [Rooms -> Seq(Cmd)] /\ inQ'[r] = <<>>
      /\ \A q \in Rooms : q # r => inQ'[q] = inQ[q]
  BY DEF RoomTick, TypeOK
<1>9. tickAtomic' \in [Rooms -> 0 .. MaxTick]
  <2> DEFINE tick == IF tickAtomic[r] < MaxTick THEN tickAtomic[r] + 1 ELSE MaxTick
  <2>1. tickAtomic[r] \in 0 .. MaxTick /\ tickAtomic \in [Rooms -> 0 .. MaxTick]
    BY DEF TypeOK
  <2>2. tick \in 0 .. MaxTick
    BY <2>1, BoundAssumption
  <2>3. tickAtomic' = [tickAtomic EXCEPT ![r] = tick]
    BY DEF RoomTick
  <2> HIDE DEF tick
  <2> QED BY <2>1, <2>2, <2>3
<1> QED BY <1>5, <1>6, <1>7, <1>8, <1>9

(* Who has left by the time room r's queues are processed.                      *)
Gone(r) == {s \in leaving : s \in pendingJoin[r] \/ \E i \in Used(r) : members[r][i].sess = s}

(* Seat i of room r gets the session s that waited for it.                      *)
Arrives(r, i, s) ==
    /\ s \in pendingJoin[r] /\ s \notin Gone(r) /\ actorId[s] = i
    /\ members'[r][i] = Fresh(s, gen[s], i)

(* Seat i of room r keeps its player, unless that one has left.                 *)
Stays(r, i) ==
    /\ \A s \in pendingJoin[r] : s \notin Gone(r) => actorId[s] # i
    /\ members'[r][i].used <=> Sits(r, i) /\ Sitter(r, i) \notin Gone(r)
    /\ LET m == members[r][i]
           n == members'[r][i]
       IN  /\ n.sess = m.sess /\ n.gen = m.gen /\ n.ring = m.ring /\ n.held = m.held
           /\ n.lastInputSeq = m.lastInputSeq

(* What ProcessRoomQueues does with the players of the room.                    *)
LEMMA QueuesEffect ==
    ASSUME TypeOK, NEW r \in Rooms, ProcessRoomQueues(r)
    PROVE  /\ members' \in [Rooms -> [Seats -> MemberSet]]
           /\ \A q \in Rooms : \A i \in Seats : Sound(members'[q][i])
           /\ \A q \in Rooms : q # r => members'[q] = members[q]
           /\ \A i \in Seats : (\E s \in Sess : Arrives(r, i, s)) \/ Stays(r, i)
<1> DEFINE here == pendingJoin[r] \ Gone(r)
           Member(i) == IF \E s \in here : actorId[s] = i
                          THEN Installed(r, i, CHOOSE s \in here : actorId[s] = i)
                          ELSE [members[r][i] EXCEPT !.used = @ /\ members[r][i].sess \notin Gone(r)]
<1>1. members' = [members EXCEPT ![r] = [i \in Seats |-> Member(i)]]
  BY DEF ProcessRoomQueues, Gone
<1>2. /\ members \in [Rooms -> [Seats -> MemberSet]] /\ here \subseteq Sess
      /\ gen \in [Sess -> 0 .. MaxGen]
      /\ \A q \in Rooms : \A i \in Seats : Sound(members[q][i])
  BY DEF TypeOK, Sound
<1>3. ASSUME NEW i \in Seats
      PROVE  /\ Sound(Member(i))
             /\ \/ \E s \in here : actorId[s] = i /\ Member(i) = Fresh(s, gen[s], i)
                \/ /\ \A s \in here : actorId[s] # i
                   /\ LET m == members[r][i]
                          n == Member(i)
                      IN  /\ n.used = (m.used /\ m.sess \notin Gone(r))
                          /\ n.sess = m.sess /\ n.gen = m.gen /\ n.ring = m.ring /\ n.held = m.held
                          /\ n.lastInputSeq = m.lastInputSeq
  <2>1. CASE \E s \in here : actorId[s] = i
    <3> DEFINE t == CHOOSE s \in here : actorId[s] = i
    <3>1. t \in here /\ actorId[t] = i
      BY <2>1
    <3>2. Member(i) = Fresh(t, gen[t], i)
      BY <2>1 DEF Installed
    <3> HIDE DEF t
    <3>3. gen[t] \in 0 .. MaxGen /\ t \in Sess
      BY <1>2, <3>1
    <3>4. Fresh(t, gen[t], i) \in MemberSet /\ Fresh(t, gen[t], i).ring = <<>>
      BY <3>3, FreshType
    <3>5. Sound(Fresh(t, gen[t], i))
      BY <3>4, DepthAssumption DEF Sound
    <3> HIDE DEF Member, here
    <3> QED BY <3>1, <3>2, <3>5
  <2>2. CASE ~ \E s \in here : actorId[s] = i
    <3> DEFINE m == members[r][i]
               u == m.used /\ m.sess \notin Gone(r)
    <3>1. Member(i) = [m EXCEPT !.used = u]
      BY <2>2
    <3>2. m \in MemberSet /\ u \in BOOLEAN /\ Len(m.ring) <= kInputRingDepth
      <4>1. m \in MemberSet /\ m.used \in BOOLEAN
        BY <1>2 DEF MemberSet
      <4>2. Sound(m)
        BY <1>2
      <4> QED BY <4>1, <4>2 DEF Sound
    <3>3. m = members[r][i] /\ u = (m.used /\ m.sess \notin Gone(r))
      OBVIOUS
    <3> HIDE DEF m, u, Member, here
    <3>4. /\ [m EXCEPT !.used = u] \in MemberSet
          /\ [m EXCEPT !.used = u].used = u
          /\ [m EXCEPT !.used = u].sess = m.sess /\ [m EXCEPT !.used = u].gen = m.gen
          /\ [m EXCEPT !.used = u].ring = m.ring /\ [m EXCEPT !.used = u].held = m.held
          /\ [m EXCEPT !.used = u].lastInputSeq = m.lastInputSeq
      BY <3>2, UnusedType
    <3>5. Sound(Member(i))
      BY <3>1, <3>2, <3>4 DEF Sound
    <3> QED BY <2>2, <3>1, <3>3, <3>4, <3>5
  <2> QED BY <2>1, <2>2
<1> HIDE DEF Member
<1>4. [i \in Seats |-> Member(i)] \in [Seats -> MemberSet]
  BY <1>3 DEF Sound
<1>5. /\ members' \in [Rooms -> [Seats -> MemberSet]]
      /\ \A q \in Rooms : q # r => members'[q] = members[q]
      /\ \A i \in Seats : members'[r][i] = Member(i)
  BY <1>1, <1>2, <1>4
<1>6. \A q \in Rooms : \A i \in Seats : Sound(members'[q][i])
  BY <1>2, <1>3, <1>5
<1>7. ASSUME NEW i \in Seats
      PROVE  (\E s \in Sess : Arrives(r, i, s)) \/ Stays(r, i)
  <2>1. CASE \E s \in here : actorId[s] = i /\ Member(i) = Fresh(s, gen[s], i)
    BY <1>2, <1>5, <2>1 DEF Arrives
  <2>2. CASE ~ \E s \in here : actorId[s] = i /\ Member(i) = Fresh(s, gen[s], i)
    <3>1. \A s \in pendingJoin[r] : s \notin Gone(r) => actorId[s] # i
      BY <1>3, <2>2
    <3>2. LET m == members[r][i]
              n == members'[r][i]
          IN  /\ n.used = (m.used /\ m.sess \notin Gone(r))
              /\ n.sess = m.sess /\ n.gen = m.gen /\ n.ring = m.ring /\ n.held = m.held
              /\ n.lastInputSeq = m.lastInputSeq
      BY <1>3, <1>5, <2>2
    <3>3. members'[r][i].used \in BOOLEAN
      BY <1>5 DEF MemberSet
    <3> QED BY <3>1, <3>2, <3>3 DEF Stays, Sits, Sitter
  <2> QED BY <2>1, <2>2
<1> QED BY <1>5, <1>6, <1>7

(* What ProcessRoomQueues does with the sessions.                               *)
LEMMA QueuesSessions ==
    ASSUME TypeOK, Present, NEW r \in Rooms, ProcessRoomQueues(r)
    PROVE  /\ r \in live /\ game[r].pc = "queues"
           /\ \A q \in Rooms : Moving(q) => game[q].nr # r
           /\ gen' \in [Sess -> 0 .. MaxGen] /\ seq' \in [Sess -> 0 .. MaxSeq]
           /\ lastPong' \in [Sess -> 0 .. MaxTick]
           /\ \A s \in Sess : IF s \in Gone(r) THEN gen'[s] = gen[s] + 1 /\ seq'[s] = 0
                                               ELSE gen'[s] = gen[s] /\ seq'[s] = seq[s]
           /\ pendingJoin' \in [Rooms -> SUBSET Sess] /\ pendingJoin'[r] = {}
           /\ \A q \in Rooms : q # r => pendingJoin'[q] = pendingJoin[q]
           /\ leaving' = leaving \ Gone(r) /\ Gone(r) \subseteq leaving
           /\ live' \subseteq live /\ live \ live' \subseteq {r}
           /\ r \notin live' => \A i \in Seats : ~members'[r][i].used
           /\ game' \in [Rooms -> GameSet]
           /\ \A q \in Rooms : q # r => game'[q] = game[q]
           /\ game'[r].pc \in {"queues", "tick"} /\ (r \notin live' => game'[r].pc = "queues")
           /\ UNCHANGED <<inRoom, roomIdx, actorId, op, inQ, tickAtomic>>
<1>1. r \in live /\ game[r].pc = "queues" /\ UNCHANGED <<inRoom, roomIdx, actorId, op, inQ, tickAtomic>>
  BY DEF ProcessRoomQueues
<1>2. \A q \in Rooms : Moving(q) => game[q].nr # r
  BY DEF ProcessRoomQueues, Target, Moving
<1>3. Gone(r) \subseteq leaving /\ leaving \subseteq Sess
  BY DEF Gone, TypeOK
<1>4. /\ gen' = [s \in Sess |-> IF s \in Gone(r) THEN gen[s] + 1 ELSE gen[s]]
      /\ seq' = [s \in Sess |-> IF s \in Gone(r) THEN 0 ELSE seq[s]]
      /\ lastPong' = [s \in Sess |-> IF s \in Gone(r) THEN 0 ELSE lastPong[s]]
  BY DEF ProcessRoomQueues, Gone
<1>5. \A s \in Sess : /\ gen[s] \in 0 .. MaxGen /\ seq[s] \in 0 .. MaxSeq /\ lastPong[s] \in 0 .. MaxTick
                      /\ s \in Gone(r) => gen[s] + 1 \in 0 .. MaxGen
  <2>1. ASSUME NEW s \in Sess
        PROVE  gen[s] \in 0 .. MaxGen /\ seq[s] \in 0 .. MaxSeq /\ lastPong[s] \in 0 .. MaxTick
    BY DEF TypeOK
  <2>2. \A s \in leaving : gen[s] < MaxGen
    BY DEF Present
  <2>3. ASSUME NEW s \in Gone(r)
        PROVE  gen[s] + 1 \in 0 .. MaxGen
    <3>1. s \in leaving /\ s \in Sess
      BY <1>3
    <3>2. gen[s] \in 0 .. MaxGen /\ gen[s] < MaxGen
      BY <2>1, <2>2, <3>1
    <3> QED BY <3>2, BoundAssumption
  <2> QED BY <2>1, <2>3
<1>6. gen' \in [Sess -> 0 .. MaxGen] /\ seq' \in [Sess -> 0 .. MaxSeq] /\ lastPong' \in [Sess -> 0 .. MaxTick]
  <2>1. 0 \in 0 .. MaxSeq /\ 0 \in 0 .. MaxTick
    BY BoundAssumption
  <2> QED BY <1>4, <1>5, <2>1
<1>7. \A s \in Sess : IF s \in Gone(r) THEN gen'[s] = gen[s] + 1 /\ seq'[s] = 0
                                       ELSE gen'[s] = gen[s] /\ seq'[s] = seq[s]
  BY <1>4
<1>8. /\ pendingJoin' \in [Rooms -> SUBSET Sess] /\ pendingJoin'[r] = {}
      /\ \A q \in Rooms : q # r => pendingJoin'[q] = pendingJoin[q]
  BY DEF ProcessRoomQueues, TypeOK
<1>9. leaving' = leaving \ Gone(r)
  BY DEF ProcessRoomQueues, Gone
<1> DEFINE here == pendingJoin[r] \ Gone(r)
           Member(i) == IF \E s \in here : actorId[s] = i
                          THEN Installed(r, i, CHOOSE s \in here : actorId[s] = i)
                          ELSE [members[r][i] EXCEPT !.used = @ /\ members[r][i].sess \notin Gone(r)]
           dies == \A i \in Seats : ~Member(i).used
<1>10. /\ members' = [members EXCEPT ![r] = [i \in Seats |-> Member(i)]]
       /\ live' = IF dies THEN live \ {r} ELSE live
       /\ game' = [game EXCEPT ![r].pc = IF dies THEN "queues" ELSE "tick"]
  BY DEF ProcessRoomQueues, Gone
<1> HIDE DEF Member
<1>11. dies => \A i \in Seats : ~members'[r][i].used
  <2>1. \A i \in Seats : members'[r][i] = Member(i)
    BY <1>10 DEF TypeOK
  <2> QED BY <2>1
<1> HIDE DEF dies
<1>12. /\ live' \subseteq live /\ live \ live' \subseteq {r}
       /\ r \notin live' => \A i \in Seats : ~members'[r][i].used
  BY <1>1, <1>10, <1>11
<1>13. /\ game' \in [Rooms -> GameSet]
       /\ \A q \in Rooms : q # r => game'[q] = game[q]
       /\ game'[r].pc \in {"queues", "tick"} /\ (r \notin live' => game'[r].pc = "queues")
  <2>1. game \in [Rooms -> GameSet]
    BY DEF TypeOK, GameSet
  <2> DEFINE pc == IF dies THEN "queues" ELSE "tick"
  <2>2. pc \in {"queues", "tick"} /\ (r \notin live' => pc = "queues")
    BY <1>1, <1>10
  <2>3. game' = [game EXCEPT ![r].pc = pc]
    BY <1>10
  <2> HIDE DEF pc
  <2> DEFINE g == [game[r] EXCEPT !.pc = pc]
  <2>4. g \in GameSet /\ g.pc = pc
    BY <2>1, <2>2 DEF GameSet
  <2>5. game' = [game EXCEPT ![r] = g]
    BY <2>3
  <2> HIDE DEF g
  <2> QED BY <2>1, <2>2, <2>4, <2>5
<1> QED BY <1>1, <1>2, <1>3, <1>6, <1>7, <1>8, <1>9, <1>12, <1>13

(* What TransferMember does.                                                    *)
LEMMA MemberMoves ==
    ASSUME TypeOK, MoveSound, NEW r \in Rooms, NEW i \in Seats, TransferMember(r, i)
    PROVE  \E n \in Rooms :
              /\ Moving(r) /\ game[r].nr = n /\ n # r /\ i \notin game[r].moved
              /\ members' \in [Rooms -> [Seats -> MemberSet]]
              /\ \A q \in Rooms : \A j \in Seats : Sound(members'[q][j])
              /\ \A q \in Rooms : \A j \in Seats :
                    <<q, j>> \notin {<<r, i>>, <<n, i>>} => members'[q][j] = members[q][j]
              /\ members'[n][i] = members[r][i] /\ ~members'[r][i].used
              /\ roomIdx' \in [Sess -> Rooms]
              /\ game' \in [Rooms -> GameSet] /\ game'[r].pc = "move" /\ game'[r].nr = n
              /\ game'[r].moved = game[r].moved \cup {i}
              /\ \A q \in Rooms : q # r => game'[q] = game[q]
<1> DEFINE n == game[r].nr
           m == members[r][i]
           u == [m EXCEPT !.used = FALSE]
<1>1. Moving(r) /\ n \in Rooms /\ i \notin game[r].moved /\ game \in [Rooms -> GameSet]
  BY DEF TransferMember, Moving, TypeOK, GameSet
<1>2. n # r
  BY <1>1 DEF MoveSound
<1>3. /\ members \in [Rooms -> [Seats -> MemberSet]]
      /\ \A q \in Rooms : \A j \in Seats : Sound(members[q][j])
  BY DEF TypeOK, Sound
<1>4. m \in MemberSet /\ u \in MemberSet /\ ~u.used /\ u.ring = m.ring
  <2>1. m \in MemberSet
    BY <1>3
  <2> HIDE DEF m
  <2> QED BY <2>1, UnusedType
<1>5. members' = [members EXCEPT ![n][i] = m, ![r][i].used = FALSE]
  BY DEF TransferMember, Carried
<1>6. /\ members' \in [Rooms -> [Seats -> MemberSet]]
      /\ members'[n][i] = m /\ members'[r][i] = u
      /\ \A q \in Rooms : \A j \in Seats :
            <<q, j>> \notin {<<r, i>>, <<n, i>>} => members'[q][j] = members[q][j]
  <2>1. members' = [members EXCEPT ![n] = [members[n] EXCEPT ![i] = m],
                                   ![r] = [members[r] EXCEPT ![i] = u]]
    BY <1>1, <1>2, <1>3, <1>5
  <2>2. m = members[r][i]
    OBVIOUS
  <2> HIDE DEF m, u, n
  <2>3. /\ [members[n] EXCEPT ![i] = m] \in [Seats -> MemberSet]
        /\ [members[r] EXCEPT ![i] = u] \in [Seats -> MemberSet]
    BY <1>1, <1>3, <1>4
  <2> QED BY <1>1, <1>2, <1>3, <2>1, <2>3
<1>7. \A q \in Rooms : \A j \in Seats : Sound(members'[q][j])
  <2>1. Sound(m) /\ Sound(u)
    BY <1>3, <1>4 DEF Sound
  <2> HIDE DEF m, u, n
  <2> QED BY <1>3, <1>6, <2>1
<1>8. roomIdx' \in [Sess -> Rooms]
  <2>1. roomIdx' = [roomIdx EXCEPT ![m.sess] = IF gen[m.sess] = m.gen THEN n ELSE roomIdx[m.sess]]
    BY DEF TransferMember
  <2>2. m.sess \in Sess /\ roomIdx \in [Sess -> Rooms]
    BY <1>4 DEF MemberSet, TypeOK
  <2> HIDE DEF m, n
  <2> QED BY <1>1, <2>1, <2>2
<1>9. /\ game' \in [Rooms -> GameSet] /\ game'[r].pc = "move" /\ game'[r].nr = n
      /\ game'[r].moved = game[r].moved \cup {i}
      /\ \A q \in Rooms : q # r => game'[q] = game[q]
  <2> DEFINE g == [game[r] EXCEPT !.moved = game[r].moved \cup {i}]
  <2>1. game[r] \in GameSet /\ game[r].pc = "move"
    BY <1>1 DEF Moving
  <2>2. g \in GameSet /\ g.pc = "move" /\ g.nr = n /\ g.moved = game[r].moved \cup {i}
    BY <2>1 DEF GameSet
  <2>3. game' = [game EXCEPT ![r] = g]
    BY <1>1 DEF TransferMember
  <2> HIDE DEF g
  <2> QED BY <1>1, <2>2, <2>3
<1> QED BY <1>1, <1>2, <1>6, <1>7, <1>8, <1>9

(* While nobody changes place, who is where stays sound.                        *)
LEMMA PlacesKept ==
    ASSUME PlaceInv, SameSitters, UNCHANGED <<pendingJoin, actorId>>
    PROVE  OnePlace' /\ SeatsApart'
<1>1. \A r \in Rooms : \A i \in Seats : Sits(r, i)' = Sits(r, i) /\ (Sits(r, i) => Sitter(r, i)' = Sitter(r, i))
  BY DEF SameSitters
<1>2. OnePlace'
  BY <1>1 DEF PlaceInv, OnePlace
<1>3. \A r \in Rooms : \A s \in pendingJoin[r] : actorId[s] \in Seats
  BY DEF PlaceInv, TypeOK
<1>4. SeatsApart'
  BY <1>1, <1>3 DEF PlaceInv, SeatsApart
<1> QED BY <1>2, <1>4

(* No session that could join waits or sits anywhere.                           *)
LEMMA NotHere ==
    ASSUME PlaceInv, NEW s \in Sess, ~inRoom[s], s \notin leaving, NEW r \in Rooms
    PROVE  s \notin pendingJoin[r] /\ \A i \in Seats : Sits(r, i) => Sitter(r, i) # s
BY DEF PlaceInv, Present

(* Who sits in room r after ProcessRoomQueues.                                  *)
LEMMA QueuesSitters ==
    ASSUME PlaceInv, NEW r \in Rooms, ProcessRoomQueues(r)
    PROVE  /\ \A q \in Rooms : q # r => \A i \in Seats :
                 /\ Sits(q, i)' = Sits(q, i) /\ Sitter(q, i)' = Sitter(q, i)
                 /\ members'[q][i].gen = members[q][i].gen
                 /\ Sits(q, i) => Sitter(q, i) \notin Gone(r)
           /\ \A q \in Rooms : q # r => \A s \in pendingJoin[q] : s \notin Gone(r)
           /\ \A i \in Seats : Sits(r, i)' =>
                 \/ /\ Sits(r, i) /\ Sitter(r, i)' = Sitter(r, i) /\ Sitter(r, i) \notin Gone(r)
                    /\ members'[r][i].gen = members[r][i].gen
                 \/ /\ Sitter(r, i)' \in pendingJoin[r] /\ Sitter(r, i)' \notin Gone(r)
                    /\ actorId[Sitter(r, i)'] = i /\ members'[r][i].gen = gen[Sitter(r, i)']
<1>1. /\ \A q \in Rooms : q # r => members'[q] = members[q]
      /\ \A i \in Seats : (\E s \in Sess : Arrives(r, i, s)) \/ Stays(r, i)
  BY QueuesEffect DEF PlaceInv
<1>2. \A q \in Rooms : q # r => \A s \in pendingJoin[q] : s \notin Gone(r)
  BY DEF PlaceInv, OnePlace, Gone, Used, Sits, Sitter, TypeOK
<1>3. ASSUME NEW q \in Rooms, q # r, NEW i \in Seats, Sits(q, i)
      PROVE  Sitter(q, i) \notin Gone(r)
  <2>1. Sitter(q, i) \notin pendingJoin[r]
    BY <1>3 DEF PlaceInv, OnePlace
  <2>2. \A j \in Seats : Sits(r, j) => Sitter(r, j) # Sitter(q, i)
    BY <1>3 DEF PlaceInv, OnePlace
  <2> QED BY <2>1, <2>2 DEF Gone, Used, Sits, Sitter
<1>4. ASSUME NEW i \in Seats, Sits(r, i)'
      PROVE  \/ /\ Sits(r, i) /\ Sitter(r, i)' = Sitter(r, i) /\ Sitter(r, i) \notin Gone(r)
                /\ members'[r][i].gen = members[r][i].gen
             \/ /\ Sitter(r, i)' \in pendingJoin[r] /\ Sitter(r, i)' \notin Gone(r)
                /\ actorId[Sitter(r, i)'] = i /\ members'[r][i].gen = gen[Sitter(r, i)']
  <2>1. CASE Stays(r, i)
    BY <1>4, <2>1 DEF Stays, Sits, Sitter
  <2>2. ASSUME NEW s \in Sess, Arrives(r, i, s)
        PROVE  /\ Sitter(r, i)' \in pendingJoin[r] /\ Sitter(r, i)' \notin Gone(r)
               /\ actorId[Sitter(r, i)'] = i /\ members'[r][i].gen = gen[Sitter(r, i)']
    <3>1. members'[r][i] = Fresh(s, gen[s], i) /\ s \in pendingJoin[r] /\ s \notin Gone(r) /\ actorId[s] = i
      BY <2>2 DEF Arrives
    <3>2. gen[s] \in 0 .. MaxGen
      BY DEF PlaceInv, TypeOK
    <3>3. members'[r][i].sess = s /\ members'[r][i].gen = gen[s]
      BY <3>1, <3>2, FreshType
    <3> QED BY <3>1, <3>3 DEF Sitter
  <2> QED BY <1>1, <2>1, <2>2
<1>5. \A q \in Rooms : q # r => \A i \in Seats :
          /\ Sits(q, i)' = Sits(q, i) /\ Sitter(q, i)' = Sitter(q, i)
          /\ members'[q][i].gen = members[q][i].gen
  BY <1>1 DEF Sits, Sitter
<1> QED BY <1>2, <1>3, <1>4, <1>5

(* Types and places are sound from the start.                                   *)
LEMMA PlaceInit == Init => PlaceInv
<1> SUFFICES ASSUME Init PROVE PlaceInv
  OBVIOUS
<1>1. TypeOK
  <2>1. /\ (CHOOSE r \in Rooms : TRUE) \in Rooms /\ (CHOOSE i \in Seats : TRUE) \in Seats
        /\ 0 \in 0 .. MaxGen /\ 0 \in 0 .. MaxSeq /\ 0 \in 0 .. MaxTick
    BY SlotAssumption, BoundAssumption
  <2>2. members \in [Rooms -> [Seats -> MemberSet]]
    BY NoMembersType DEF Init
  <2>3. \A r \in Rooms : \A i \in Seats : Len(members[r][i].ring) <= kInputRingDepth
    <3>1. \A r \in Rooms : \A i \in Seats : members[r][i].ring = <<>>
      BY NoMembersType DEF Init
    <3> QED BY <3>1, DepthAssumption
  <2>4. op \in [Sess -> OpSet] /\ game \in [Rooms -> GameSet]
    BY FramesType DEF Init
  <2>5. inQ \in [Rooms -> Seq(Cmd)]
    <3>1. <<>> \in Seq(Cmd)
      OBVIOUS
    <3> QED BY <3>1 DEF Init
  <2>6. /\ gen \in [Sess -> 0 .. MaxGen] /\ inRoom \in [Sess -> BOOLEAN]
        /\ roomIdx \in [Sess -> Rooms] /\ actorId \in [Sess -> Seats]
        /\ seq \in [Sess -> 0 .. MaxSeq] /\ leaving \subseteq Sess /\ live \subseteq Rooms
        /\ pendingJoin \in [Rooms -> SUBSET Sess]
        /\ \A r \in Rooms : pendingJoin[r] = {}
        /\ tickAtomic \in [Rooms -> 0 .. MaxTick] /\ lastPong \in [Sess -> 0 .. MaxTick]
    BY <2>1 DEF Init
  <2> QED BY <2>2, <2>3, <2>4, <2>5, <2>6 DEF TypeOK, OpSet, GameSet
<1>2. /\ \A r \in Rooms : pendingJoin[r] = {} /\ game[r].pc = "queues"
      /\ \A r \in Rooms : \A i \in Seats : ~Sits(r, i)
      /\ leaving = {} /\ \A s \in Sess : ~inRoom[s] /\ op[s].pc = "idle"
  BY NoMembersType, FramesType DEF Init, Sits
<1> QED BY <1>1, <1>2 DEF PlaceInv, OnePlace, Present, FreeRooms, MoveSound, SeatsApart, Moving

(* Join takes a seat that is neither used nor reserved (RoomManager::Join).     *)
LEMMA JoinKeepsPlaces ==
    ASSUME PlaceInv, NEW s \in Sess, Join(s)
    PROVE  PlaceInv'
<1>1. PICK r \in Rooms :
         /\ \/ r \in live /\ FreeSeats(r) # {} /\ UNCHANGED <<live, inQ, tickAtomic, members>>
            \/ AllocRoomSlotLocked(r)
         /\ \E i \in Seats : (r \in live => i \in FreeSeats(r)) /\ actorId' = [actorId EXCEPT ![s] = i]
         /\ roomIdx' = [roomIdx EXCEPT ![s] = r]
         /\ pendingJoin' = [pendingJoin EXCEPT ![r] = pendingJoin[r] \cup {s}]
  BY DEF Join
<1>2. PICK i \in Seats : (r \in live => i \in FreeSeats(r)) /\ actorId' = [actorId EXCEPT ![s] = i]
  BY <1>1
<1>3. /\ op[s].pc = "idle" /\ ~inRoom[s] /\ s \notin leaving /\ ~MgrLockHeld
      /\ inRoom' = [inRoom EXCEPT ![s] = TRUE] /\ UNCHANGED <<gen, seq, op, leaving, game, lastPong>>
  BY DEF Join
<1>4. /\ SameSitters /\ live' \subseteq Rooms /\ live \subseteq live' /\ r \in live'
      /\ members' \in [Rooms -> [Seats -> MemberSet]]
      /\ \A q \in Rooms : \A j \in Seats : Len(members'[q][j].ring) <= kInputRingDepth
      /\ inQ' \in [Rooms -> Seq(Cmd)] /\ tickAtomic' \in [Rooms -> 0 .. MaxTick]
  <2>1. CASE r \in live /\ UNCHANGED <<live, inQ, tickAtomic, members>>
    BY <2>1 DEF PlaceInv, TypeOK, SameSitters, Sits, Sitter
  <2>2. CASE AllocRoomSlotLocked(r)
    BY <2>2, AllocEffect DEF PlaceInv
  <2> QED BY <1>1, <2>1, <2>2
<1>5. ~Sits(r, i) /\ \A t \in pendingJoin[r] : actorId[t] # i
  <2>1. CASE r \in live
    BY <1>2, <2>1 DEF FreeSeats, Used, Sits
  <2>2. CASE r \notin live
    BY <2>2 DEF PlaceInv, FreeRooms
  <2> QED BY <2>1, <2>2
<1>6. \A q \in Rooms : s \notin pendingJoin[q] /\ \A j \in Seats : Sits(q, j) => Sitter(q, j) # s
  BY <1>3, NotHere
<1>7. \A q \in Rooms : ~Moving(q)
  BY <1>3 DEF MgrLockHeld, Moving
<1>8. TypeOK
  BY DEF PlaceInv
<1>9. /\ pendingJoin' \in [Rooms -> SUBSET Sess] /\ pendingJoin'[r] = pendingJoin[r] \cup {s}
      /\ \A q \in Rooms : q # r => pendingJoin'[q] = pendingJoin[q]
      /\ actorId' \in [Sess -> Seats] /\ actorId'[s] = i
      /\ \A t \in Sess : t # s => actorId'[t] = actorId[t]
      /\ roomIdx' \in [Sess -> Rooms]
      /\ inRoom' \in [Sess -> BOOLEAN] /\ inRoom'[s] /\ \A t \in Sess : t # s => inRoom'[t] = inRoom[t]
  BY <1>1, <1>2, <1>3, <1>8 DEF TypeOK
<1>10. \A q \in Rooms : \A t \in pendingJoin[q] : t \in Sess /\ actorId'[t] = actorId[t]
  BY <1>6, <1>8, <1>9 DEF TypeOK
<1>11. SeatsApart'
  <2>1. ASSUME NEW q \in Rooms, NEW t \in pendingJoin'[q]
        PROVE  ~Sits(q, actorId[t])' /\ \A u \in pendingJoin'[q] : actorId'[t] = actorId'[u] => t = u
    <3>1. actorId'[t] \in Seats
      BY <1>9
    <3>2. ~Sits(q, actorId[t])'
      <4>1. CASE q = r /\ t = s
        BY <1>4, <1>5, <1>9, <4>1 DEF SameSitters, Sits
      <4>2. CASE ~(q = r /\ t = s)
        <5>1. t \in pendingJoin[q]
          BY <1>9, <4>2
        <5>2. ~Sits(q, actorId[t])
          BY <5>1 DEF PlaceInv, SeatsApart
        <5> QED BY <1>4, <1>10, <3>1, <5>1, <5>2 DEF SameSitters, Sits
      <4> QED BY <4>1, <4>2
    <3>3. ASSUME NEW u \in pendingJoin'[q], actorId'[t] = actorId'[u]
          PROVE  t = u
      <4>1. CASE q # r
        <5>1. t \in pendingJoin[q] /\ u \in pendingJoin[q]
          BY <1>9, <4>1
        <5> QED BY <1>10, <3>3, <5>1 DEF PlaceInv, SeatsApart
      <4>2. CASE q = r
        <5>1. (t = s \/ t \in pendingJoin[r]) /\ (u = s \/ u \in pendingJoin[r])
          BY <1>9, <4>2
        <5>2. \A x, y \in pendingJoin[r] : actorId[x] = actorId[y] => x = y
          BY DEF PlaceInv, SeatsApart
        <5> QED BY <1>5, <1>9, <1>10, <3>3, <5>1, <5>2
      <4> QED BY <4>1, <4>2
    <3> QED BY <3>2, <3>3
  <2> QED BY <2>1 DEF SeatsApart
<1>12. OnePlace'
  <2>1. ASSUME NEW q \in Rooms, NEW p \in Rooms, NEW t \in Sess, t \in pendingJoin'[q], t \in pendingJoin'[p]
        PROVE  q = p
    BY <1>6, <1>9, <2>1 DEF PlaceInv, OnePlace
  <2>2. ASSUME NEW q \in Rooms, NEW p \in Rooms, NEW j \in Seats, Sits(q, j)'
        PROVE  Sitter(q, j)' \notin pendingJoin'[p]
    <3>1. Sits(q, j) /\ Sitter(q, j)' = Sitter(q, j)
      BY <1>4, <2>2 DEF SameSitters
    <3> QED BY <1>6, <1>9, <3>1 DEF PlaceInv, OnePlace
  <2>3. \A q, p \in Rooms : \A j, k \in Seats :
           Sits(q, j)' /\ Sits(p, k)' /\ Sitter(q, j)' = Sitter(p, k)' => q = p /\ j = k
    BY <1>4 DEF SameSitters, PlaceInv, OnePlace
  <2> QED BY <2>1, <2>2, <2>3 DEF OnePlace
<1>13. Present'
  <2>1. \A q \in Rooms : \A t \in pendingJoin'[q] : inRoom'[t] \/ t \in leaving'
    <3>1. ASSUME NEW q \in Rooms, NEW t \in pendingJoin'[q]
          PROVE  inRoom'[t] \/ t \in leaving'
      <4>1. CASE t = s
        BY <1>9, <4>1
      <4>2. CASE t # s
        <5>1. t \in pendingJoin[q] /\ t \in Sess
          BY <1>9, <4>2
        <5>2. inRoom[t] \/ t \in leaving
          BY <5>1 DEF PlaceInv, Present
        <5> QED BY <1>3, <1>9, <4>2, <5>1, <5>2
      <4> QED BY <4>1, <4>2
    <3> QED BY <3>1
  <2>2. \A q \in Rooms : \A j \in Seats :
           Sits(q, j)' => /\ inRoom'[Sitter(q, j)'] \/ Sitter(q, j)' \in leaving'
                          /\ members'[q][j].gen = gen'[Sitter(q, j)']
    <3>1. ASSUME NEW q \in Rooms, NEW j \in Seats, Sits(q, j)'
          PROVE  /\ inRoom'[Sitter(q, j)'] \/ Sitter(q, j)' \in leaving'
                 /\ members'[q][j].gen = gen'[Sitter(q, j)']
      <4>1. /\ Sits(q, j) /\ Sitter(q, j)' = Sitter(q, j) /\ members'[q][j].gen = members[q][j].gen
        BY <1>4, <3>1 DEF SameSitters
      <4>2. Sitter(q, j) \in Sess
        BY <1>8 DEF TypeOK, MemberSet, Sitter
      <4>3. inRoom[Sitter(q, j)] \/ Sitter(q, j) \in leaving
        BY <4>1 DEF PlaceInv, Present
      <4>4. members[q][j].gen = gen[Sitter(q, j)]
        BY <4>1 DEF PlaceInv, Present
      <4> QED BY <1>3, <1>9, <4>1, <4>2, <4>3, <4>4
    <3> QED BY <3>1
  <2>3. \A t \in Sess : /\ inRoom'[t] => t \notin leaving'
                        /\ op'[t].pc # "idle" => inRoom'[t]
                        /\ op'[t].pc = "push" => seq'[t] < MaxSeq
    BY <1>3, <1>9 DEF PlaceInv, Present
  <2>4. \A t \in leaving' : gen'[t] < MaxGen
    BY <1>3 DEF PlaceInv, Present
  <2> QED BY <2>1, <2>2, <2>3, <2>4 DEF Present
<1>14. FreeRooms'
  <2>1. ASSUME NEW q \in Rooms, q \notin live'
        PROVE  pendingJoin'[q] = {} /\ game'[q].pc = "queues" /\ \A j \in Seats : ~Sits(q, j)'
    <3>1. q # r /\ q \notin live
      BY <1>4, <2>1
    <3>2. pendingJoin[q] = {} /\ game[q].pc = "queues" /\ \A j \in Seats : ~Sits(q, j)
      BY <3>1 DEF PlaceInv, FreeRooms
    <3>3. \A j \in Seats : Sits(q, j)' = Sits(q, j)
      BY <1>4 DEF SameSitters
    <3> QED BY <1>3, <1>9, <3>1, <3>2, <3>3
  <2> QED BY <2>1 DEF FreeRooms
<1>15. MoveSound'
  BY <1>3, <1>7 DEF MoveSound, Moving
<1>16. TypeOK'
  <2>1. \A q \in Rooms : \A t, u \in pendingJoin'[q] : actorId'[t] = actorId'[u] => t = u
    BY <1>11 DEF SeatsApart
  <2> QED BY <1>3, <1>4, <1>8, <1>9, <2>1 DEF TypeOK
<1> QED BY <1>11, <1>12, <1>13, <1>14, <1>15, <1>16 DEF PlaceInv

(* A leave entry is queued once per connection (OnSessionLeave).                *)
LEMMA LeaveKeepsPlaces ==
    ASSUME PlaceInv, NEW s \in Sess, OnSessionLeave(s)
    PROVE  PlaceInv'
<1>1. /\ op[s].pc = "idle" /\ inRoom[s] /\ gen[s] < MaxGen
      /\ inRoom' = [inRoom EXCEPT ![s] = FALSE] /\ leaving' = leaving \cup {s}
      /\ UNCHANGED <<gen, roomIdx, actorId, seq, op, roomVars, game, lastPong>>
  BY DEF OnSessionLeave
<1>2. TypeOK'
  BY <1>1 DEF PlaceInv, TypeOK, roomVars
<1>3. OnePlace' /\ SeatsApart' /\ FreeRooms' /\ MoveSound'
  <2>1. SameSitters
    BY <1>1 DEF SameSitters, Sits, Sitter, roomVars
  <2>2. OnePlace' /\ SeatsApart'
    BY <1>1, <2>1, PlacesKept DEF roomVars
  <2>3. FreeRooms' /\ MoveSound'
    BY <1>1 DEF PlaceInv, FreeRooms, MoveSound, Moving, Sits, roomVars
  <2> QED BY <2>2, <2>3
<1>4. Present'
  <2>1. \A t \in Sess : t # s => inRoom'[t] = inRoom[t]
    BY <1>1 DEF PlaceInv, TypeOK
  <2>2. ~inRoom'[s]
    BY <1>1 DEF PlaceInv, TypeOK
  <2>3. \A r \in Rooms : \A t \in pendingJoin[r] : t \in Sess
    BY DEF PlaceInv, TypeOK
  <2>4. \A r \in Rooms : \A i \in Seats : Sitter(r, i) \in Sess
    BY DEF PlaceInv, TypeOK, MemberSet, Sitter
  <2>5. \A r \in Rooms : \A t \in pendingJoin[r] : inRoom'[t] \/ t \in leaving'
    BY <1>1, <2>1, <2>3 DEF PlaceInv, Present
  <2>6. \A r \in Rooms : \A i \in Seats :
           Sits(r, i) => /\ inRoom'[Sitter(r, i)] \/ Sitter(r, i) \in leaving'
                         /\ members[r][i].gen = gen[Sitter(r, i)]
    BY <1>1, <2>1, <2>4 DEF PlaceInv, Present
  <2>7. \A t \in Sess : /\ inRoom'[t] => t \notin leaving'
                        /\ op[t].pc # "idle" => inRoom'[t]
                        /\ op[t].pc = "push" => seq[t] < MaxSeq
    BY <1>1, <2>1, <2>2 DEF PlaceInv, Present
  <2>8. \A t \in leaving' : gen[t] < MaxGen
    BY <1>1 DEF PlaceInv, Present
  <2> QED BY <1>1, <2>5, <2>6, <2>7, <2>8 DEF Present, Sits, Sitter, roomVars
<1> QED BY <1>2, <1>3, <1>4 DEF PlaceInv

(* Steps of an epoll worker that only read, or only write to an input queue.    *)
LEMMA OperationKeepsPlaces ==
    ASSUME PlaceInv, TypeOK', NEW s \in Sess,
           UNCHANGED <<sessVars, leaving, live, pendingJoin, members, game>>,
           \A t \in Sess : t # s => op'[t] = op[t] /\ seq'[t] = seq[t],
           op'[s].pc # "idle" => inRoom[s], op'[s].pc = "push" => seq'[s] < MaxSeq
    PROVE  PlaceInv'
<1>1. SameSitters
  BY DEF SameSitters, Sits, Sitter
<1>2. OnePlace' /\ SeatsApart'
  BY <1>1, PlacesKept DEF sessVars
<1>3. FreeRooms' /\ MoveSound'
  BY DEF PlaceInv, FreeRooms, MoveSound, Moving, Sits, sessVars
<1>4. Present'
  BY DEF PlaceInv, Present, Sits, Sitter, sessVars
<1> QED BY <1>2, <1>3, <1>4 DEF PlaceInv

(* The operation's room is loaded.                                              *)
LEMMA LoadKeepsPlaces ==
    ASSUME PlaceInv, NEW s \in Sess, NEW pc \in {"push", "ping"}, LoadRoom(s, pc),
           pc = "push" => seq[s] < MaxSeq
    PROVE  PlaceInv'
<1>1. /\ inRoom[s] /\ op' = [op EXCEPT ![s] = [pc |-> pc, room |-> roomIdx[s]]]
      /\ UNCHANGED <<sessVars, seq, leaving, roomVars, game, lastPong>>
  BY DEF LoadRoom
<1>2. [pc |-> pc, room |-> roomIdx[s]] \in OpSet
  BY DEF OpSet, PlaceInv, TypeOK
<1>3. op \in [Sess -> OpSet]
  BY DEF OpSet, PlaceInv, TypeOK
<1>4. op' \in [Sess -> OpSet] /\ op'[s].pc = pc /\ \A t \in Sess : t # s => op'[t] = op[t]
  BY <1>1, <1>2, <1>3
<1>5. TypeOK'
  BY <1>1, <1>4 DEF PlaceInv, TypeOK, OpSet, sessVars, roomVars
<1> QED BY <1>1, <1>4, <1>5, OperationKeepsPlaces DEF roomVars

(* PushInput appends one command.                                               *)
LEMMA PushEffect ==
    ASSUME PlaceInv, NEW s \in Sess, NEW d \in Dirs, PushInput(s, d)
    PROVE  \E r \in Rooms : \E c \in Cmd :
              /\ c.sess = s /\ c.gen = gen[s] /\ c.seq = seq[s] + 1
              /\ inQ' = [inQ EXCEPT ![r] = Append(inQ[r], c)] /\ inQ' \in [Rooms -> Seq(Cmd)]
              /\ seq' = [seq EXCEPT ![s] = seq[s] + 1] /\ seq' \in [Sess -> 0 .. MaxSeq]
              /\ op' = [op EXCEPT ![s] = Idle] /\ op' \in [Sess -> OpSet]
<1>1. /\ op[s].room \in Rooms /\ gen[s] \in 0 .. MaxGen /\ actorId[s] \in Seats
      /\ seq[s] \in 0 .. MaxSeq /\ seq[s] < MaxSeq
      /\ op \in [Sess -> OpSet] /\ inQ \in [Rooms -> Seq(Cmd)] /\ seq \in [Sess -> 0 .. MaxSeq]
  BY DEF PlaceInv, TypeOK, Present, PushInput, OpSet
<1>2. seq[s] + 1 \in 0 .. MaxSeq
  BY <1>1, BoundAssumption
<1> DEFINE r == op[s].room
           c == [sess |-> s, gen |-> gen[s], seat |-> actorId[s], seq |-> seq[s] + 1, dir |-> d]
<1>3. c \in Cmd /\ c.sess = s /\ c.gen = gen[s] /\ c.seq = seq[s] + 1
  BY <1>1, <1>2 DEF Cmd
<1>4. r \in Rooms /\ inQ' = [inQ EXCEPT ![r] = Append(inQ[r], c)]
  BY <1>1 DEF PushInput
<1>5. Append(inQ[r], c) \in Seq(Cmd)
  <2>1. inQ[r] \in Seq(Cmd)
    BY <1>1
  <2> HIDE DEF r, c
  <2> QED BY <1>3, <2>1
<1>6. inQ' \in [Rooms -> Seq(Cmd)]
  <2> HIDE DEF r, c
  <2> QED BY <1>1, <1>4, <1>5
<1>7. seq' = [seq EXCEPT ![s] = seq[s] + 1] /\ seq' \in [Sess -> 0 .. MaxSeq]
  BY <1>1, <1>2 DEF PushInput
<1>8. op' = [op EXCEPT ![s] = Idle] /\ op' \in [Sess -> OpSet]
  BY <1>1, FramesType DEF PushInput
<1> QED BY <1>3, <1>4, <1>6, <1>7, <1>8

(* PushInput.                                                                   *)
LEMMA PushKeepsPlaces ==
    ASSUME PlaceInv, NEW s \in Sess, NEW d \in Dirs, PushInput(s, d)
    PROVE  PlaceInv'
<1>1. /\ inQ' \in [Rooms -> Seq(Cmd)]
      /\ seq' = [seq EXCEPT ![s] = seq[s] + 1] /\ seq' \in [Sess -> 0 .. MaxSeq]
      /\ op' = [op EXCEPT ![s] = Idle] /\ op' \in [Sess -> OpSet]
  BY PushEffect
<1>2. UNCHANGED <<sessVars, leaving, live, pendingJoin, tickAtomic, members, game, lastPong>>
  BY DEF PushInput
<1>3. TypeOK'
  BY <1>1, <1>2 DEF PlaceInv, TypeOK, OpSet, sessVars
<1>4. op'[s].pc = "idle" /\ \A t \in Sess : t # s => op'[t] = op[t] /\ seq'[t] = seq[t]
  <2>1. op \in [Sess -> OpSet] /\ seq \in [Sess -> 0 .. MaxSeq]
    BY DEF PlaceInv, TypeOK, OpSet
  <2> QED BY <1>1, <2>1, FramesType
<1> QED BY <1>2, <1>3, <1>4, OperationKeepsPlaces

(* GetPingInfo.                                                                 *)
LEMMA PingKeepsPlaces ==
    ASSUME PlaceInv, NEW s \in Sess, GetPingInfo(s)
    PROVE  PlaceInv'
<1>1. /\ lastPong' = [lastPong EXCEPT ![s] = tickAtomic[op[s].room]] /\ op' = [op EXCEPT ![s] = Idle]
      /\ UNCHANGED <<sessVars, seq, leaving, roomVars, game>>
  BY DEF GetPingInfo
<1>2. op \in [Sess -> OpSet] /\ tickAtomic[op[s].room] \in 0 .. MaxTick
  BY DEF PlaceInv, TypeOK, OpSet
<1>3. op' \in [Sess -> OpSet] /\ op'[s].pc = "idle" /\ \A t \in Sess : t # s => op'[t] = op[t]
  BY <1>1, <1>2, FramesType
<1>4. lastPong' \in [Sess -> 0 .. MaxTick]
  BY <1>1, <1>2 DEF PlaceInv, TypeOK
<1>5. TypeOK'
  BY <1>1, <1>3, <1>4 DEF PlaceInv, TypeOK, OpSet, sessVars, roomVars
<1> QED BY <1>1, <1>3, <1>5, OperationKeepsPlaces DEF roomVars

(* ProcessRoomQueues seats who waited and takes out who has left.               *)
LEMMA QueuesKeepPlaces ==
    ASSUME PlaceInv, NEW r \in Rooms, ProcessRoomQueues(r)
    PROVE  PlaceInv'
<1>1. /\ r \in live /\ game[r].pc = "queues"
      /\ \A q \in Rooms : Moving(q) => game[q].nr # r
      /\ gen' \in [Sess -> 0 .. MaxGen] /\ seq' \in [Sess -> 0 .. MaxSeq]
      /\ lastPong' \in [Sess -> 0 .. MaxTick]
      /\ \A s \in Sess : IF s \in Gone(r) THEN gen'[s] = gen[s] + 1 /\ seq'[s] = 0
                                          ELSE gen'[s] = gen[s] /\ seq'[s] = seq[s]
      /\ pendingJoin' \in [Rooms -> SUBSET Sess] /\ pendingJoin'[r] = {}
      /\ \A q \in Rooms : q # r => pendingJoin'[q] = pendingJoin[q]
      /\ leaving' = leaving \ Gone(r) /\ Gone(r) \subseteq leaving
      /\ live' \subseteq live /\ live \ live' \subseteq {r}
      /\ r \notin live' => \A i \in Seats : ~members'[r][i].used
      /\ game' \in [Rooms -> GameSet]
      /\ \A q \in Rooms : q # r => game'[q] = game[q]
      /\ game'[r].pc \in {"queues", "tick"} /\ (r \notin live' => game'[r].pc = "queues")
      /\ UNCHANGED <<inRoom, roomIdx, actorId, op, inQ, tickAtomic>>
  BY QueuesSessions DEF PlaceInv
<1>2. /\ members' \in [Rooms -> [Seats -> MemberSet]]
      /\ \A q \in Rooms : \A i \in Seats : Sound(members'[q][i])
  BY QueuesEffect DEF PlaceInv
<1>3. /\ \A q \in Rooms : q # r => \A i \in Seats :
            /\ Sits(q, i)' = Sits(q, i) /\ Sitter(q, i)' = Sitter(q, i)
            /\ members'[q][i].gen = members[q][i].gen
            /\ Sits(q, i) => Sitter(q, i) \notin Gone(r)
      /\ \A q \in Rooms : q # r => \A s \in pendingJoin[q] : s \notin Gone(r)
      /\ \A i \in Seats : Sits(r, i)' =>
            \/ /\ Sits(r, i) /\ Sitter(r, i)' = Sitter(r, i) /\ Sitter(r, i) \notin Gone(r)
               /\ members'[r][i].gen = members[r][i].gen
            \/ /\ Sitter(r, i)' \in pendingJoin[r] /\ Sitter(r, i)' \notin Gone(r)
               /\ actorId[Sitter(r, i)'] = i /\ members'[r][i].gen = gen[Sitter(r, i)']
  BY QueuesSitters
<1>4. TypeOK /\ \A q \in Rooms : \A i \in Seats : Sitter(q, i) \in Sess /\ Sitter(q, i)' \in Sess
  <2>1. TypeOK /\ members \in [Rooms -> [Seats -> MemberSet]]
    BY DEF PlaceInv, TypeOK
  <2>2. \A m \in MemberSet : m.sess \in Sess
    BY DEF MemberSet
  <2> QED BY <1>2, <2>1, <2>2 DEF Sitter
<1>5. SeatsApart'
  <2>1. ASSUME NEW q \in Rooms, NEW s \in pendingJoin'[q]
        PROVE  ~Sits(q, actorId[s])' /\ \A t \in pendingJoin'[q] : actorId'[s] = actorId'[t] => s = t
    <3>1. q # r /\ pendingJoin'[q] = pendingJoin[q] /\ actorId[s] \in Seats
      BY <1>1, <1>4, <2>1 DEF TypeOK
    <3>2. ~Sits(q, actorId[s]) /\ \A t \in pendingJoin[q] : actorId[s] = actorId[t] => s = t
      BY <2>1, <3>1 DEF PlaceInv, SeatsApart
    <3> QED BY <1>1, <1>3, <3>1, <3>2
  <2> QED BY <2>1 DEF SeatsApart
<1>6. OnePlace'
  <2>1. \A p, q \in Rooms : \A s \in Sess : s \in pendingJoin'[p] /\ s \in pendingJoin'[q] => p = q
    BY <1>1 DEF PlaceInv, OnePlace
  <2>2. ASSUME NEW p \in Rooms, NEW q \in Rooms, NEW i \in Seats, Sits(p, i)'
        PROVE  Sitter(p, i)' \notin pendingJoin'[q]
    <3>1. CASE q = r
      BY <1>1, <3>1
    <3>2. CASE q # r /\ Sits(p, i) /\ Sitter(p, i)' = Sitter(p, i)
      BY <1>1, <3>2 DEF PlaceInv, OnePlace
    <3>3. CASE q # r /\ p = r /\ Sitter(r, i)' \in pendingJoin[r]
      BY <1>1, <1>4, <3>3 DEF PlaceInv, OnePlace
    <3> QED BY <1>3, <2>2, <3>1, <3>2, <3>3
  <2>3. ASSUME NEW p \in Rooms, NEW q \in Rooms, NEW i \in Seats, NEW j \in Seats,
               Sits(p, i)', Sits(q, j)', Sitter(p, i)' = Sitter(q, j)'
        PROVE  p = q /\ i = j
    <3>1. \/ Sits(p, i) /\ Sitter(p, i)' = Sitter(p, i)
          \/ p = r /\ Sitter(p, i)' \in pendingJoin[r] /\ actorId[Sitter(p, i)'] = i
      BY <1>3, <2>3
    <3>2. \/ Sits(q, j) /\ Sitter(q, j)' = Sitter(q, j)
          \/ q = r /\ Sitter(q, j)' \in pendingJoin[r] /\ actorId[Sitter(q, j)'] = j
      BY <1>3, <2>3
    <3>3. \A x \in Rooms : \A k \in Seats : Sits(x, k) => Sitter(x, k) \notin pendingJoin[r]
      BY DEF PlaceInv, OnePlace
    <3>4. Sits(p, i) /\ Sits(q, j) /\ Sitter(p, i) = Sitter(q, j) => p = q /\ i = j
      BY DEF PlaceInv, OnePlace
    <3> QED BY <2>3, <3>1, <3>2, <3>3, <3>4
  <2> QED BY <2>1, <2>2, <2>3 DEF OnePlace
<1>7. Present'
  <2>1. ASSUME NEW q \in Rooms, NEW s \in pendingJoin'[q]
        PROVE  inRoom'[s] \/ s \in leaving'
    <3>1. q # r /\ s \in pendingJoin[q] /\ s \notin Gone(r)
      BY <1>1, <1>3, <2>1
    <3> QED BY <1>1, <3>1 DEF PlaceInv, Present
  <2>2. ASSUME NEW q \in Rooms, NEW i \in Seats, Sits(q, i)'
        PROVE  /\ inRoom'[Sitter(q, i)'] \/ Sitter(q, i)' \in leaving'
               /\ members'[q][i].gen = gen'[Sitter(q, i)']
    <3>1. CASE /\ Sits(q, i) /\ Sitter(q, i)' = Sitter(q, i) /\ Sitter(q, i) \notin Gone(r)
               /\ members'[q][i].gen = members[q][i].gen
      <4>1. /\ inRoom[Sitter(q, i)] \/ Sitter(q, i) \in leaving
            /\ members[q][i].gen = gen[Sitter(q, i)]
        BY <3>1 DEF PlaceInv, Present
      <4> QED BY <1>1, <1>4, <3>1, <4>1
    <3>2. CASE /\ q = r /\ Sitter(r, i)' \in pendingJoin[r] /\ Sitter(r, i)' \notin Gone(r)
               /\ members'[r][i].gen = gen[Sitter(r, i)']
      <4>1. inRoom[Sitter(r, i)'] \/ Sitter(r, i)' \in leaving
        BY <3>2 DEF PlaceInv, Present
      <4> QED BY <1>1, <1>4, <3>2, <4>1
    <3> QED BY <1>3, <2>2, <3>1, <3>2
  <2>3. ASSUME NEW s \in Sess
        PROVE  /\ inRoom'[s] => s \notin leaving'
               /\ op'[s].pc # "idle" => inRoom'[s]
               /\ op'[s].pc = "push" => seq'[s] < MaxSeq
    <3>1. /\ inRoom[s] => s \notin leaving
          /\ op[s].pc # "idle" => inRoom[s]
          /\ op[s].pc = "push" => seq[s] < MaxSeq
      BY DEF PlaceInv, Present
    <3>2. op[s].pc = "push" => s \notin Gone(r)
      BY <1>1, <3>1
    <3> QED BY <1>1, <3>1, <3>2
  <2>4. ASSUME NEW s \in leaving'
        PROVE  gen'[s] < MaxGen
    <3>1. s \in leaving /\ s \notin Gone(r) /\ s \in Sess
      BY <1>1, <1>4, <2>4 DEF TypeOK
    <3> QED BY <1>1, <3>1 DEF PlaceInv, Present
  <2> QED BY <2>1, <2>2, <2>3, <2>4 DEF Present
<1>8. FreeRooms'
  <2>1. ASSUME NEW q \in Rooms, q \notin live'
        PROVE  pendingJoin'[q] = {} /\ game'[q].pc = "queues" /\ \A i \in Seats : ~Sits(q, i)'
    <3>1. CASE q = r
      BY <1>1, <2>1, <3>1 DEF Sits
    <3>2. CASE q # r
      <4>1. q \notin live
        BY <1>1, <2>1, <3>2
      <4> QED BY <1>1, <1>3, <3>2, <4>1 DEF PlaceInv, FreeRooms
    <3> QED BY <3>1, <3>2
  <2> QED BY <2>1 DEF FreeRooms
<1>9. MoveSound'
  <2>1. \A q \in Rooms : Moving(q)' => q # r /\ Moving(q) /\ game'[q] = game[q]
    BY <1>1 DEF Moving
  <2>2. \A p, q \in Rooms : Moving(p)' /\ Moving(q)' => p = q
    BY <2>1 DEF PlaceInv, MoveSound
  <2>3. ASSUME NEW q \in Rooms, NEW n \in Rooms, Moving(q)', game'[q].nr = n
        PROVE  /\ n # q /\ n \in live' /\ q \in live' /\ pendingJoin'[n] = {} /\ game'[n].pc = "queues"
               /\ \A i \in Seats : /\ Sits(n, i)' => i \in game'[q].moved
                                   /\ Sits(q, i)' => i \notin game'[q].moved
               /\ \A s \in pendingJoin'[q] : ~Sits(n, actorId[s])'
    <3>1. q # r /\ n # r /\ Moving(q) /\ game[q].nr = n /\ game'[q] = game[q]
      BY <1>1, <2>1, <2>3
    <3>2. /\ n # q /\ n \in live /\ q \in live /\ pendingJoin[n] = {} /\ game[n].pc = "queues"
          /\ \A i \in Seats : /\ Sits(n, i) => i \in game[q].moved
                              /\ Sits(q, i) => i \notin game[q].moved
          /\ \A s \in pendingJoin[q] : ~Sits(n, actorId[s])
      BY <3>1 DEF PlaceInv, MoveSound
    <3>3. \A s \in pendingJoin[q] : actorId[s] \in Seats
      BY <1>4 DEF TypeOK
    <3> QED BY <1>1, <1>3, <3>1, <3>2, <3>3
  <2> QED BY <2>2, <2>3 DEF MoveSound
<1>10. TypeOK'
  <2>1. \A q \in Rooms : \A s, t \in pendingJoin'[q] : actorId'[s] = actorId'[t] => s = t
    BY <1>5 DEF SeatsApart
  <2>2. leaving' \subseteq Sess /\ live' \subseteq Rooms
    BY <1>1, <1>4 DEF TypeOK
  <2>3. \A q \in Rooms : \A i \in Seats : Len(members'[q][i].ring) <= kInputRingDepth
    BY <1>2 DEF Sound
  <2> QED BY <1>1, <1>2, <1>4, <2>1, <2>2, <2>3 DEF TypeOK, GameSet
<1> QED BY <1>5, <1>6, <1>7, <1>8, <1>9, <1>10 DEF PlaceInv

(* A step of the game worker that seats nobody and moves nobody.                *)
LEMMA WorkerKeepsPlaces ==
    ASSUME PlaceInv, SameSitters, NEW r \in Rooms, ~Moving(r), ~Moving(r)', r \in live,
           UNCHANGED <<sessVars, seq, op, leaving, live, pendingJoin, lastPong>>,
           members' \in [Rooms -> [Seats -> MemberSet]], inQ' \in [Rooms -> Seq(Cmd)],
           \A q \in Rooms : \A i \in Seats : Len(members'[q][i].ring) <= kInputRingDepth,
           tickAtomic' \in [Rooms -> 0 .. MaxTick], game' \in [Rooms -> GameSet],
           \A q \in Rooms : q # r => game'[q] = game[q],
           \A q \in Rooms : Moving(q) => game[q].nr # r
    PROVE  PlaceInv'
<1>1. OnePlace' /\ SeatsApart'
  BY PlacesKept DEF sessVars
<1>2. \A q \in Rooms : \A i \in Seats :
         /\ Sits(q, i)' = Sits(q, i)
         /\ Sits(q, i) => Sitter(q, i)' = Sitter(q, i) /\ members'[q][i].gen = members[q][i].gen
  BY DEF SameSitters
<1>3. Present'
  BY <1>2 DEF PlaceInv, Present, sessVars
<1>4. FreeRooms'
  BY <1>2 DEF PlaceInv, FreeRooms
<1>5. MoveSound'
  <2>1. \A q \in Rooms : Moving(q)' => q # r /\ Moving(q) /\ game'[q] = game[q]
    BY DEF Moving
  <2>2. \A p, q \in Rooms : Moving(p)' /\ Moving(q)' => p = q
    BY <2>1 DEF PlaceInv, MoveSound
  <2>3. ASSUME NEW q \in Rooms, NEW n \in Rooms, Moving(q)', game'[q].nr = n
        PROVE  /\ n # q /\ n \in live' /\ q \in live' /\ pendingJoin'[n] = {} /\ game'[n].pc = "queues"
               /\ \A i \in Seats : /\ Sits(n, i)' => i \in game'[q].moved
                                   /\ Sits(q, i)' => i \notin game'[q].moved
               /\ \A s \in pendingJoin'[q] : ~Sits(n, actorId[s])'
    <3>1. q # r /\ n # r /\ Moving(q) /\ game[q].nr = n /\ game'[q] = game[q]
      BY <2>1, <2>3
    <3>2. /\ n # q /\ n \in live /\ q \in live /\ pendingJoin[n] = {} /\ game[n].pc = "queues"
          /\ \A i \in Seats : /\ Sits(n, i) => i \in game[q].moved
                              /\ Sits(q, i) => i \notin game[q].moved
          /\ \A s \in pendingJoin[q] : ~Sits(n, actorId[s])
      BY <3>1 DEF PlaceInv, MoveSound
    <3>3. \A s \in pendingJoin[q] : actorId[s] \in Seats
      BY DEF PlaceInv, TypeOK
    <3> QED BY <1>2, <3>1, <3>2, <3>3 DEF sessVars
  <2> QED BY <2>2, <2>3 DEF MoveSound
<1>6. TypeOK'
  BY DEF PlaceInv, TypeOK, GameSet, sessVars
<1> QED BY <1>1, <1>3, <1>4, <1>5, <1>6 DEF PlaceInv

(* A room that is ticking is live and nobody moves to it.                       *)
LEMMA BusyRoom ==
    ASSUME PlaceInv, NEW r \in Rooms, game[r].pc # "queues"
    PROVE  r \in live /\ \A q \in Rooms : Moving(q) => game[q].nr # r
<1>1. r \in live
  BY DEF PlaceInv, FreeRooms
<1>2. \A q \in Rooms : Moving(q) => game[q].nr \in Rooms
  BY DEF PlaceInv, TypeOK
<1> QED BY <1>1, <1>2 DEF PlaceInv, MoveSound

(* RoomTick.                                                                    *)
LEMMA TickKeepsPlaces ==
    ASSUME PlaceInv, NEW r \in Rooms, RoomTick(r)
    PROVE  PlaceInv'
<1>1. game[r].pc = "tick" /\ UNCHANGED <<sessVars, seq, op, leaving, live, pendingJoin, lastPong>>
  BY DEF RoomTick
<1>2. PICK pc \in {"queues", "exit"} : game' = [game EXCEPT ![r].pc = pc]
  BY DEF RoomTick
<1>3. game \in [Rooms -> GameSet]
  BY DEF PlaceInv, TypeOK, GameSet
<1>4. game' \in [Rooms -> GameSet] /\ game'[r].pc = pc /\ \A q \in Rooms : q # r => game'[q] = game[q]
  <2> DEFINE g == [game[r] EXCEPT !.pc = pc]
  <2>1. g \in GameSet /\ g.pc = pc
    BY <1>3 DEF GameSet
  <2>2. game' = [game EXCEPT ![r] = g]
    BY <1>2
  <2> HIDE DEF g
  <2> QED BY <1>3, <2>1, <2>2
<1>5. /\ members' \in [Rooms -> [Seats -> MemberSet]]
      /\ \A q \in Rooms : \A i \in Seats : Len(members'[q][i].ring) <= kInputRingDepth
      /\ SameSitters
      /\ inQ' \in [Rooms -> Seq(Cmd)] /\ tickAtomic' \in [Rooms -> 0 .. MaxTick]
  BY TickEffect DEF PlaceInv, Sound
<1>6. ~Moving(r) /\ ~Moving(r)' /\ r \in live /\ \A q \in Rooms : Moving(q) => game[q].nr # r
  BY <1>1, <1>4, BusyRoom DEF Moving
<1> QED BY <1>1, <1>4, <1>5, <1>6, WorkerKeepsPlaces

(* TransferRoom without a free room slot.                                       *)
LEMMA NoMoveKeepsPlaces ==
    ASSUME PlaceInv, NEW r \in Rooms, TransferFails(r)
    PROVE  PlaceInv'
<1>1. /\ game[r].pc = "exit" /\ game' = [game EXCEPT ![r] = Ticked(r)]
      /\ UNCHANGED <<sessVars, seq, op, leaving, roomVars, lastPong>>
  BY DEF TransferFails
<1>2. /\ game' \in [Rooms -> GameSet] /\ game'[r].pc = "queues"
      /\ \A q \in Rooms : q # r => game'[q] = game[q]
  BY <1>1, FramesType DEF PlaceInv, TypeOK, GameSet
<1>3. SameSitters
  BY <1>1 DEF SameSitters, Sits, Sitter, roomVars
<1>4. ~Moving(r) /\ ~Moving(r)' /\ r \in live /\ \A q \in Rooms : Moving(q) => game[q].nr # r
  BY <1>1, <1>2, BusyRoom DEF Moving
<1> QED BY <1>1, <1>2, <1>3, <1>4, WorkerKeepsPlaces DEF roomVars, PlaceInv, TypeOK

(* TransferRoom takes a room slot.                                              *)
LEMMA BeginKeepsPlaces ==
    ASSUME PlaceInv, NEW r \in Rooms, NEW n \in Rooms, TransferBegin(r, n)
    PROVE  PlaceInv'
<1>1. /\ game[r].pc = "exit" /\ ~MgrLockHeld /\ AllocRoomSlotLocked(n)
      /\ game' = [game EXCEPT ![r] = [pc |-> "move", nr |-> n, moved |-> Seats \ Used(r)]]
      /\ UNCHANGED <<sessVars, seq, op, leaving, pendingJoin, lastPong>>
  BY DEF TransferBegin
<1>2. /\ n \notin live /\ live' = live \cup {n} /\ live' \subseteq Rooms
      /\ SameSitters
      /\ members' \in [Rooms -> [Seats -> MemberSet]]
      /\ \A q \in Rooms : \A i \in Seats : Len(members'[q][i].ring) <= kInputRingDepth
      /\ inQ' \in [Rooms -> Seq(Cmd)] /\ tickAtomic' \in [Rooms -> 0 .. MaxTick]
  BY <1>1, AllocEffect DEF PlaceInv
<1>3. r \in live /\ r # n /\ pendingJoin[n] = {} /\ game[n].pc = "queues" /\ \A i \in Seats : ~Sits(n, i)
  BY <1>1, <1>2 DEF PlaceInv, FreeRooms
<1>4. /\ game' \in [Rooms -> GameSet] /\ game'[r].pc = "move" /\ game'[r].nr = n
      /\ game'[r].moved = Seats \ Used(r)
      /\ \A q \in Rooms : q # r => game'[q] = game[q]
  <2>1. [pc |-> "move", nr |-> n, moved |-> Seats \ Used(r)] \in GameSet
    BY DEF GameSet
  <2> QED BY <1>1, <2>1 DEF PlaceInv, TypeOK, GameSet
<1>5. \A q \in Rooms : \A i \in Seats :
         /\ Sits(q, i)' = Sits(q, i)
         /\ Sits(q, i) => Sitter(q, i)' = Sitter(q, i) /\ members'[q][i].gen = members[q][i].gen
  BY <1>2 DEF SameSitters
<1>6. OnePlace' /\ SeatsApart'
  BY <1>1, <1>2, PlacesKept DEF sessVars
<1>7. Present'
  BY <1>1, <1>5 DEF PlaceInv, Present, sessVars
<1>8. FreeRooms'
  BY <1>1, <1>2, <1>3, <1>4, <1>5 DEF PlaceInv, FreeRooms
<1>9. MoveSound'
  <2>1. \A q \in Rooms : Moving(q)' => q = r
    BY <1>1, <1>4 DEF MgrLockHeld, Moving
  <2>2. \A i \in Seats : ~Sits(n, i)' /\ (Sits(r, i)' => i \notin game'[r].moved)
    BY <1>3, <1>4, <1>5 DEF Used, Sits
  <2>3. \A s \in pendingJoin[r] : actorId[s] \in Seats
    BY DEF PlaceInv, TypeOK
  <2>4. game'[n].pc = "queues" /\ n \in live' /\ r \in live' /\ pendingJoin'[n] = {} /\ n # r
    BY <1>1, <1>2, <1>3, <1>4
  <2> QED BY <1>1, <1>4, <2>1, <2>2, <2>3, <2>4 DEF MoveSound, sessVars
<1>10. TypeOK'
  BY <1>1, <1>2, <1>4 DEF PlaceInv, TypeOK, GameSet, sessVars
<1> QED BY <1>6, <1>7, <1>8, <1>9, <1>10 DEF PlaceInv

(* TransferRoom moves one member.                                               *)
LEMMA MemberKeepsPlaces ==
    ASSUME PlaceInv, NEW r \in Rooms, NEW i \in Seats, TransferMember(r, i)
    PROVE  PlaceInv'
<1>1. PICK n \in Rooms :
         /\ Moving(r) /\ game[r].nr = n /\ n # r /\ i \notin game[r].moved
         /\ members' \in [Rooms -> [Seats -> MemberSet]]
         /\ \A q \in Rooms : \A j \in Seats : Sound(members'[q][j])
         /\ \A q \in Rooms : \A j \in Seats :
               <<q, j>> \notin {<<r, i>>, <<n, i>>} => members'[q][j] = members[q][j]
         /\ members'[n][i] = members[r][i] /\ ~members'[r][i].used
         /\ roomIdx' \in [Sess -> Rooms]
         /\ game' \in [Rooms -> GameSet] /\ game'[r].pc = "move" /\ game'[r].nr = n
         /\ game'[r].moved = game[r].moved \cup {i}
         /\ \A q \in Rooms : q # r => game'[q] = game[q]
  BY MemberMoves DEF PlaceInv
<1>2. UNCHANGED <<gen, inRoom, actorId, seq, op, leaving, live, pendingJoin, inQ, tickAtomic, lastPong>>
  BY DEF TransferMember
<1>3. /\ n \in live /\ r \in live /\ pendingJoin[n] = {} /\ game[n].pc = "queues"
      /\ \A j \in Seats : (Sits(n, j) => j \in game[r].moved) /\ (Sits(r, j) => j \notin game[r].moved)
      /\ \A s \in pendingJoin[r] : ~Sits(n, actorId[s])
      /\ \A q \in Rooms : Moving(q) => q = r
  BY <1>1 DEF PlaceInv, MoveSound
<1>4. TypeOK
  BY DEF PlaceInv
<1>5. /\ ~Sits(r, i)' /\ Sits(n, i)' = Sits(r, i) /\ Sitter(n, i)' = Sitter(r, i)
      /\ members'[n][i].gen = members[r][i].gen
      /\ \A q \in Rooms : \A j \in Seats : <<q, j>> \notin {<<r, i>>, <<n, i>>} =>
            /\ Sits(q, j)' = Sits(q, j) /\ Sitter(q, j)' = Sitter(q, j)
            /\ members'[q][j].gen = members[q][j].gen
  BY <1>1 DEF Sits, Sitter
<1> DEFINE From(q, j, p, k) == Sits(p, k) /\ Sitter(q, j)' = Sitter(p, k) /\ members'[q][j].gen = members[p][k].gen
<1>6. ASSUME NEW q \in Rooms, NEW j \in Seats, Sits(q, j)'
      PROVE  \/ q = n /\ j = i /\ From(q, j, r, i)
             \/ <<q, j>> \notin {<<r, i>>, <<n, i>>} /\ From(q, j, q, j)
  BY <1>5, <1>6
<1>7. OnePlace'
  <2>1. ASSUME NEW p \in Rooms, NEW q \in Rooms, NEW j \in Seats, NEW k \in Seats,
               Sits(p, j)', Sits(q, k)', Sitter(p, j)' = Sitter(q, k)'
        PROVE  p = q /\ j = k
    <3>1. \A x, y \in Rooms : \A l, m \in Seats :
             Sits(x, l) /\ Sits(y, m) /\ Sitter(x, l) = Sitter(y, m) => x = y /\ l = m
      BY DEF PlaceInv, OnePlace
    <3> QED BY <1>6, <2>1, <3>1
  <2>2. ASSUME NEW p \in Rooms, NEW q \in Rooms, NEW j \in Seats, Sits(p, j)'
        PROVE  Sitter(p, j)' \notin pendingJoin'[q]
    <3>1. \A x, y \in Rooms : \A l \in Seats : Sits(x, l) => Sitter(x, l) \notin pendingJoin[y]
      BY DEF PlaceInv, OnePlace
    <3> QED BY <1>2, <1>6, <2>2, <3>1
  <2>3. \A p, q \in Rooms : \A s \in Sess : s \in pendingJoin'[p] /\ s \in pendingJoin'[q] => p = q
    BY <1>2 DEF PlaceInv, OnePlace
  <2> QED BY <2>1, <2>2, <2>3 DEF OnePlace
<1>8. Present'
  <2>1. ASSUME NEW q \in Rooms, NEW j \in Seats, Sits(q, j)'
        PROVE  /\ inRoom'[Sitter(q, j)'] \/ Sitter(q, j)' \in leaving'
               /\ members'[q][j].gen = gen'[Sitter(q, j)']
    <3>1. \A x \in Rooms : \A l \in Seats :
             Sits(x, l) => /\ inRoom[Sitter(x, l)] \/ Sitter(x, l) \in leaving
                           /\ members[x][l].gen = gen[Sitter(x, l)]
      BY DEF PlaceInv, Present
    <3> QED BY <1>2, <1>6, <2>1, <3>1
  <2> QED BY <1>2, <2>1 DEF PlaceInv, Present
<1>9. FreeRooms'
  <2>1. ASSUME NEW q \in Rooms, q \notin live
        PROVE  pendingJoin[q] = {} /\ game'[q].pc = "queues" /\ \A j \in Seats : ~Sits(q, j)'
    <3>1. q # r /\ q # n
      BY <1>3, <2>1
    <3>2. pendingJoin[q] = {} /\ game[q].pc = "queues" /\ \A j \in Seats : ~Sits(q, j)
      BY <2>1 DEF PlaceInv, FreeRooms
    <3> QED BY <1>1, <1>5, <3>1, <3>2
  <2> QED BY <1>2, <2>1 DEF FreeRooms
<1>10. MoveSound'
  <2>1. \A q \in Rooms : Moving(q)' => q = r
    BY <1>1, <1>3 DEF Moving
  <2>2. \A j \in Seats : /\ Sits(n, j)' => j \in game'[r].moved
                         /\ Sits(r, j)' => j \notin game'[r].moved
    BY <1>1, <1>3, <1>5
  <2>3. \A s \in pendingJoin[r] : ~Sits(n, actorId[s])'
    <3>1. ASSUME NEW s \in pendingJoin[r]
          PROVE  ~Sits(n, actorId[s])'
      <4>1. ~Sits(r, actorId[s]) /\ ~Sits(n, actorId[s]) /\ actorId[s] \in Seats
        BY <1>3, <1>4 DEF PlaceInv, SeatsApart, TypeOK
      <4>2. CASE actorId[s] = i
        BY <1>2, <1>5, <4>1, <4>2
      <4>3. CASE actorId[s] # i
        BY <1>2, <1>5, <4>1, <4>3
      <4> QED BY <4>2, <4>3
    <3> QED BY <3>1
  <2>4. game'[n].pc = "queues"
    BY <1>1, <1>3
  <2>5. \A q, m \in Rooms : Moving(q)' /\ game'[q].nr = m => q = r /\ m = n
    BY <1>1, <2>1
  <2>6. \A s \in pendingJoin'[r] : ~Sits(n, actorId[s])'
    BY <1>2, <2>3
  <2>7. n # r /\ n \in live' /\ r \in live' /\ pendingJoin'[n] = {}
    BY <1>1, <1>2, <1>3
  <2> QED BY <2>1, <2>2, <2>4, <2>5, <2>6, <2>7 DEF MoveSound
<1>11. SeatsApart'
  <2>1. ASSUME NEW q \in Rooms, NEW s \in pendingJoin[q]
        PROVE  ~Sits(q, actorId[s])' /\ \A t \in pendingJoin[q] : actorId[s] = actorId[t] => s = t
    <3>1. q # n /\ actorId[s] \in Seats
      BY <1>3, <1>4 DEF TypeOK
    <3>2. ~Sits(q, actorId[s]) /\ \A t \in pendingJoin[q] : actorId[s] = actorId[t] => s = t
      BY DEF PlaceInv, SeatsApart
    <3>3. ~Sits(q, actorId[s])'
      <4>1. CASE q = r /\ actorId[s] = i
        BY <1>2, <1>5, <4>1
      <4>2. CASE ~(q = r /\ actorId[s] = i)
        BY <1>2, <1>5, <3>1, <3>2, <4>2
      <4> QED BY <4>1, <4>2
    <3> QED BY <3>2, <3>3
  <2> QED BY <1>2, <2>1 DEF SeatsApart
<1>12. TypeOK'
  <2>1. \A q \in Rooms : \A j \in Seats : Len(members'[q][j].ring) <= kInputRingDepth
    BY <1>1 DEF Sound
  <2> QED BY <1>1, <1>2, <1>4, <2>1 DEF TypeOK, GameSet
<1> QED BY <1>7, <1>8, <1>9, <1>10, <1>11, <1>12 DEF PlaceInv

(* TransferRoom ends: the old slot is free, the joins follow.                   *)
LEMMA EndKeepsPlaces ==
    ASSUME PlaceInv, NEW r \in Rooms, TransferEnd(r)
    PROVE  PlaceInv'
<1>1. PICK n \in Rooms :
         /\ game[r].nr = n /\ Moving(r) /\ game[r].moved = Seats
         /\ tickAtomic' = [tickAtomic EXCEPT ![n] = tickAtomic[r]]
         /\ roomIdx' = [s \in Sess |-> IF s \in pendingJoin[r] THEN n ELSE roomIdx[s]]
         /\ pendingJoin' = [pendingJoin EXCEPT ![r] = {}, ![n] = pendingJoin[r]]
         /\ live' = live \ {r}
         /\ game' = [game EXCEPT ![r] = Ticked(r), ![n] = Ticked(n)]
         /\ UNCHANGED <<gen, inRoom, actorId, seq, op, leaving, inQ, members, lastPong>>
  BY DEF TransferEnd, CarriedTick, Moving, PlaceInv, TypeOK
<1>2. /\ n # r /\ n \in live /\ r \in live /\ pendingJoin[n] = {} /\ game[n].pc = "queues"
      /\ \A j \in Seats : ~Sits(r, j)
      /\ \A s \in pendingJoin[r] : ~Sits(n, actorId[s])
      /\ \A q \in Rooms : Moving(q) => q = r
  BY <1>1 DEF PlaceInv, MoveSound
<1>3. TypeOK
  BY DEF PlaceInv
<1>4. /\ pendingJoin' \in [Rooms -> SUBSET Sess] /\ pendingJoin'[r] = {} /\ pendingJoin'[n] = pendingJoin[r]
      /\ \A q \in Rooms : q \notin {r, n} => pendingJoin'[q] = pendingJoin[q]
  BY <1>1, <1>2, <1>3 DEF TypeOK
<1>5. /\ game' \in [Rooms -> GameSet] /\ game'[r].pc = "queues" /\ game'[n].pc = "queues"
      /\ \A q \in Rooms : q \notin {r, n} => game'[q] = game[q]
  <2>1. game \in [Rooms -> GameSet]
    BY <1>3 DEF TypeOK, GameSet
  <2> QED BY <1>1, <1>2, <2>1, FramesType
<1>6. \A q \in Rooms : \A j \in Seats : Sits(q, j)' = Sits(q, j) /\ Sitter(q, j)' = Sitter(q, j)
  BY <1>1 DEF Sits, Sitter
<1>7. \A q \in Rooms : \A s \in pendingJoin'[q] : \E p \in Rooms : s \in pendingJoin[p] /\ (p = q \/ (p = r /\ q = n))
  <2>1. ASSUME NEW q \in Rooms, NEW s \in pendingJoin'[q]
        PROVE  \E p \in Rooms : s \in pendingJoin[p] /\ (p = q \/ (p = r /\ q = n))
    <3>1. CASE q = n
      <4>1. s \in pendingJoin[r]
        BY <1>4, <3>1
      <4> QED BY <3>1, <4>1
    <3>2. CASE q # n
      <4>1. s \in pendingJoin[q]
        BY <1>4, <3>2
      <4> QED BY <4>1
    <3> QED BY <3>1, <3>2
  <2> QED BY <2>1
<1>8. OnePlace'
  <2>1. \A p, q \in Rooms : \A s \in Sess : s \in pendingJoin[p] /\ s \in pendingJoin[q] => p = q
    BY DEF PlaceInv, OnePlace
  <2>2. ASSUME NEW p \in Rooms, NEW q \in Rooms, NEW s \in Sess, s \in pendingJoin'[p], s \in pendingJoin'[q]
        PROVE  p = q
    BY <1>2, <1>4, <2>1, <2>2
  <2>3. \A p, q \in Rooms : \A i \in Seats : Sits(p, i) => Sitter(p, i) \notin pendingJoin'[q]
    BY <1>7 DEF PlaceInv, OnePlace
  <2> QED BY <1>6, <2>2, <2>3 DEF PlaceInv, OnePlace
<1>9. Present'
  <2>1. \A q \in Rooms : \A s \in pendingJoin'[q] : inRoom[s] \/ s \in leaving
    BY <1>7 DEF PlaceInv, Present
  <2>2. /\ \A q \in Rooms : \A i \in Seats :
               Sits(q, i)' => /\ inRoom'[Sitter(q, i)'] \/ Sitter(q, i)' \in leaving'
                              /\ members'[q][i].gen = gen'[Sitter(q, i)']
        /\ \A s \in Sess : inRoom'[s] => s \notin leaving'
        /\ \A s \in leaving' : gen'[s] < MaxGen
        /\ \A s \in Sess : /\ op'[s].pc # "idle" => inRoom'[s]
                           /\ op'[s].pc = "push" => seq'[s] < MaxSeq
    BY <1>1, <1>6 DEF PlaceInv, Present
  <2>3. \A q \in Rooms : \A s \in pendingJoin'[q] : inRoom'[s] \/ s \in leaving'
    BY <1>1, <2>1
  <2> QED BY <2>2, <2>3 DEF Present
<1>10. FreeRooms'
  <2>1. ASSUME NEW q \in Rooms, q \notin live'
        PROVE  pendingJoin'[q] = {} /\ game'[q].pc = "queues" /\ \A j \in Seats : ~Sits(q, j)
    <3>1. CASE q = r
      BY <1>2, <1>4, <1>5, <3>1
    <3>2. CASE q # r
      <4>1. q \notin live /\ q \notin {r, n}
        BY <1>1, <1>2, <2>1, <3>2
      <4> QED BY <1>4, <1>5, <4>1 DEF PlaceInv, FreeRooms
    <3> QED BY <3>1, <3>2
  <2> QED BY <1>6, <2>1 DEF FreeRooms
<1>11. MoveSound'
  <2>1. \A q \in Rooms : ~Moving(q)'
    BY <1>2, <1>5 DEF Moving
  <2> QED BY <2>1 DEF MoveSound
<1>12. SeatsApart'
  <2>1. ASSUME NEW q \in Rooms, NEW s \in pendingJoin'[q]
        PROVE  ~Sits(q, actorId[s]) /\ \A t \in pendingJoin'[q] : actorId[s] = actorId[t] => s = t
    <3>1. CASE q = n
      BY <1>2, <1>4, <2>1, <3>1 DEF PlaceInv, SeatsApart
    <3>2. CASE q = r
      BY <1>4, <2>1, <3>2
    <3>3. CASE q \notin {r, n}
      BY <1>4, <2>1, <3>3 DEF PlaceInv, SeatsApart
    <3> QED BY <3>1, <3>2, <3>3
  <2> QED BY <1>1, <2>1 DEF SeatsApart, Sits
<1>13. TypeOK'
  <2>1. \A q \in Rooms : \A s, t \in pendingJoin'[q] : actorId'[s] = actorId'[t] => s = t
    BY <1>12 DEF SeatsApart
  <2>2. /\ tickAtomic' \in [Rooms -> 0 .. MaxTick] /\ roomIdx' \in [Sess -> Rooms] /\ live' \subseteq Rooms
    BY <1>1, <1>3 DEF TypeOK
  <2> QED BY <1>1, <1>3, <1>4, <1>5, <2>1, <2>2 DEF TypeOK, GameSet
<1> QED BY <1>8, <1>9, <1>10, <1>11, <1>12, <1>13 DEF PlaceInv

(* Whatever interleaves, no session is in two places, a seat that is waited for *)
(* stays empty, and a party moves into a room where nobody else is              *)
(* (RoomManager::Join, ProcessRoomQueues, TransferRoom).                        *)
THEOREM PlacesSound == Spec => []PlaceInv
<1>1. PlaceInv /\ [Next]_vars => PlaceInv'
  <2> SUFFICES ASSUME PlaceInv, [Next]_vars
               PROVE  PlaceInv'
    OBVIOUS
  <2>1. ASSUME NEW r \in Rooms, GameStep(r)
        PROVE  PlaceInv'
    <3>1. CASE ProcessRoomQueues(r)
      BY <3>1, QueuesKeepPlaces
    <3>2. CASE RoomTick(r)
      BY <3>2, TickKeepsPlaces
    <3>3. CASE TransferFails(r)
      BY <3>3, NoMoveKeepsPlaces
    <3>4. CASE \E n \in Rooms : TransferBegin(r, n)
      BY <3>4, BeginKeepsPlaces
    <3>5. CASE \E i \in Seats : TransferMember(r, i)
      BY <3>5, MemberKeepsPlaces
    <3>6. CASE TransferEnd(r)
      BY <3>6, EndKeepsPlaces
    <3> QED BY <2>1, <3>1, <3>2, <3>3, <3>4, <3>5, <3>6 DEF GameStep
  <2>2. ASSUME NEW s \in Sess, SessStep(s)
        PROVE  PlaceInv'
    <3>1. CASE Join(s)
      BY <3>1, JoinKeepsPlaces
    <3>2. CASE OnSessionLeave(s)
      BY <3>2, LeaveKeepsPlaces
    <3>3. CASE seq[s] < MaxSeq /\ LoadRoom(s, "push")
      BY <3>3, LoadKeepsPlaces
    <3>4. CASE LoadRoom(s, "ping")
      BY <3>4, LoadKeepsPlaces
    <3>5. CASE \E d \in Dirs : PushInput(s, d)
      BY <3>5, PushKeepsPlaces
    <3>6. CASE GetPingInfo(s)
      BY <3>6, PingKeepsPlaces
    <3> QED BY <2>2, <3>1, <3>2, <3>3, <3>4, <3>5, <3>6 DEF SessStep
  <2>3. ASSUME UNCHANGED vars
        PROVE  PlaceInv'
    <3> USE <2>3 DEF vars, sessVars, roomVars
    <3>1. TypeOK'
      BY DEF PlaceInv, TypeOK
    <3>2. SameSitters
      BY DEF SameSitters, Sits, Sitter
    <3>3. OnePlace' /\ SeatsApart'
      BY <3>2, PlacesKept
    <3>4. Present'
      BY DEF PlaceInv, Present, Sits, Sitter
    <3>5. FreeRooms' /\ MoveSound'
      BY DEF PlaceInv, FreeRooms, MoveSound, Moving, Sits
    <3> QED BY <3>1, <3>3, <3>4, <3>5 DEF PlaceInv
  <2> QED BY <2>1, <2>2, <2>3 DEF Next
<1> QED BY <1>1, PlaceInit, PTL DEF Spec

(* Everything keeps its type, and no ring gets deeper than kInputRingDepth.     *)
THEOREM InputTyped == Spec => []TypeOK
<1>1. PlaceInv => TypeOK
  BY DEF PlaceInv
<1> QED BY <1>1, PlacesSound, PTL

--------------------------------------------------------------------------------
(* What is queued for whom.                                                     *)

(* The command c was sent on a connection of its slot, the present one or an    *)
(* earlier one.                                                                 *)
Sent(c) ==
    /\ c.seq > 0 /\ c.gen <= gen[c.sess]
    /\ c.gen = gen[c.sess] => c.seq <= seq[c.sess]

(* Each connection's commands are in q in the order in which they were sent.    *)
InSendOrder(q) ==
    \A k \in 1 .. Len(q) : \A j \in 1 .. k - 1 :
        q[j].sess = q[k].sess /\ q[j].gen = q[k].gen => q[j].seq < q[k].seq

(* The input queues, those of free room slots included.                         *)
QueueSound ==
    \A r \in Rooms : InSendOrder(inQ[r]) /\ \A k \in 1 .. Len(inQ[r]) : Sent(inQ[r][k])

(* A player has only what its connection sent, in order, up to number top.      *)
PlayerFine(m, top) == m.lastInputSeq <= top /\ UpToSeq(m, top) /\ RingInOrder(m) /\ Own(m)

(* While a party moves, pushes may reach either room: the queues of both hold   *)
(* only what is newer than what a player has.                                   *)
PlayerAt(r, i) ==
    Sits(r, i) => /\ PlayerFine(members[r][i], seq[Sitter(r, i)])
                  /\ Newer(members[r][i], inQ[r])
                  /\ Moving(r) => Newer(members[r][i], inQ[game[r].nr])

(* The inductive invariant of inputs, given that of places.                     *)
InputInv == QueueSound /\ \A r \in Rooms : \A i \in Seats : PlayerAt(r, i)

(* What a move or another player's tick leaves as it is.                        *)
Kept(m, n) ==
    /\ n.sess = m.sess /\ n.gen = m.gen /\ n.ring = m.ring /\ n.held = m.held
    /\ n.lastInputSeq = m.lastInputSeq

(* Nothing is older than anything in an empty queue.                            *)
LEMMA NewerEmpty == \A m : Newer(m, <<>>)
BY DEF Newer, SentBy

(* What a player has does not depend on where it sits.                          *)
LEMMA KeptFine ==
    ASSUME NEW m, NEW n, Kept(m, n)
    PROVE  /\ \A top : PlayerFine(m, top) => PlayerFine(n, top)
           /\ \A q : Newer(m, q) => Newer(n, q)
<1>1. \A top : PlayerFine(m, top) => PlayerFine(n, top)
  BY DEF Kept, PlayerFine, UpToSeq, RingInOrder, Own
<1>2. ASSUME NEW q, Newer(m, q)
      PROVE  Newer(n, q)
  <2>1. SentBy(n, q) = SentBy(m, q)
    BY DEF Kept, SentBy
  <2> QED BY <1>2, <2>1 DEF Kept, Newer
<1> QED BY <1>1, <1>2

(* A player that keeps what it has is sound after a step that leaves the queues *)
(* that may reach it as they were, or empty.                                    *)
LEMMA PlayerKept ==
    ASSUME InputInv, NEW p \in Rooms, NEW q \in Rooms, NEW i \in Seats,
           Sits(p, i), Kept(members[p][i], members'[q][i]),
           seq'[Sitter(p, i)] = seq[Sitter(p, i)],
           \/ inQ'[q] \in {<<>>, inQ[p]}
           \/ Moving(p) /\ inQ'[q] = inQ[game[p].nr],
           Moving(q)' => \/ inQ'[game'[q].nr] = <<>>
                         \/ Moving(p) /\ inQ'[game'[q].nr] = inQ[game[p].nr]
    PROVE  PlayerAt(q, i)'
<1> DEFINE m == members[p][i]
           n == members'[q][i]
<1>1. /\ PlayerFine(m, seq[Sitter(p, i)]) /\ Newer(m, inQ[p])
      /\ Moving(p) => Newer(m, inQ[game[p].nr])
  BY DEF InputInv, PlayerAt
<1>2. Sitter(q, i)' = Sitter(p, i)
  BY DEF Kept, Sitter
<1>3. /\ \A top : PlayerFine(m, top) => PlayerFine(n, top)
      /\ \A x : Newer(m, x) => Newer(n, x)
  BY KeptFine
<1>4. PlayerFine(n, seq'[Sitter(q, i)'])
  BY <1>1, <1>2, <1>3
<1>5. Newer(n, inQ'[q]) /\ (Moving(q)' => Newer(n, inQ'[game'[q].nr]))
  BY <1>1, <1>3, NewerEmpty
<1> QED BY <1>4, <1>5 DEF PlayerAt

(* Queues that are as they were, or empty, stay sound while no session's counts *)
(* go back.                                                                     *)
LEMMA QueuesKept ==
    ASSUME TypeOK, QueueSound, TypeOK',
           \A q \in Rooms : inQ'[q] \in {<<>>, inQ[q]},
           \A s \in Sess : \/ gen'[s] = gen[s] /\ seq'[s] = seq[s]
                           \/ gen'[s] = gen[s] + 1
    PROVE  QueueSound'
<1>1. ASSUME NEW q \in Rooms
      PROVE  InSendOrder(inQ'[q]) /\ \A k \in 1 .. Len(inQ'[q]) : Sent(inQ[q][k])'
  <2>1. CASE inQ'[q] = <<>>
    BY <2>1 DEF InSendOrder
  <2>2. CASE inQ'[q] = inQ[q]
    <3>1. InSendOrder(inQ'[q])
      BY <2>2 DEF QueueSound
    <3>2. ASSUME NEW k \in 1 .. Len(inQ[q])
          PROVE  Sent(inQ[q][k])'
      <4> DEFINE c == inQ[q][k]
      <4>1. c \in Cmd /\ Sent(c)
        BY DEF TypeOK, QueueSound
      <4>2. c.sess \in Sess /\ c.gen \in Int /\ gen[c.sess] \in Int
        <5>1. c.sess \in Sess /\ c.gen \in 0 .. MaxGen
          BY <4>1 DEF Cmd
        <5>2. gen[c.sess] \in 0 .. MaxGen
          BY <5>1 DEF TypeOK
        <5> QED BY <5>1, <5>2
      <4>3. inQ'[q][k] = c
        BY <2>2
      <4> HIDE DEF c
      <4>4. c.seq > 0 /\ c.gen <= gen'[c.sess] /\ (c.gen = gen'[c.sess] => c.seq <= seq'[c.sess])
        BY <4>1, <4>2 DEF Sent
      <4> QED BY <4>3, <4>4 DEF Sent
    <3> QED BY <2>2, <3>1, <3>2
  <2> QED BY <2>1, <2>2
<1> QED BY <1>1 DEF QueueSound

(* A player takes its oldest input: what is left is newer (RoomTick).           *)
LEMMA ConsumedOrder ==
    ASSUME NEW m, Sound(m), m.used, NEW top \in Nat, PlayerFine(m, top)
    PROVE  PlayerFine(Consumed(m), top) /\ m.lastInputSeq <= Consumed(m).lastInputSeq
<1> DEFINE n == Consumed(m)
<1>1. /\ SamePlayer(m, n) /\ m.ring \in Seq(Cmd)
      /\ m.ring # <<>> => /\ n.held = Head(m.ring) /\ n.ring = Tail(m.ring)
                          /\ n.lastInputSeq = Head(m.ring).seq
      /\ m.ring = <<>> => /\ n.held.sess = m.held.sess /\ n.held.gen = m.held.gen
                          /\ n.ring = <<>> /\ n.lastInputSeq = m.lastInputSeq
  <2>1. m.ring \in Seq(Cmd)
    BY DEF Sound, MemberSet
  <2> QED BY <2>1, ConsumedEffect
<1>2. m.lastInputSeq \in Nat
  BY BoundAssumption DEF Sound, MemberSet
<1> HIDE DEF n
<1>3. CASE m.ring = <<>>
  BY <1>1, <1>2, <1>3 DEF PlayerFine, UpToSeq, RingInOrder, Own, SamePlayer, n
<1>4. CASE m.ring # <<>>
  <2>1. /\ Len(m.ring) \in Nat /\ 1 \in 1 .. Len(m.ring) /\ n.held = m.ring[1]
        /\ n.lastInputSeq = m.ring[1].seq
        /\ Len(n.ring) = Len(m.ring) - 1
        /\ \A k \in 1 .. Len(n.ring) : n.ring[k] = m.ring[k + 1] /\ k + 1 \in 1 .. Len(m.ring)
    <3> DEFINE a == m.ring
    <3>1. a \in Seq(Cmd) /\ a # <<>>
      BY <1>1, <1>4
    <3> HIDE DEF a
    <3>2. /\ Len(a) \in Nat /\ Len(a) >= 1 /\ Head(a) = a[1] /\ Len(Tail(a)) = Len(a) - 1
          /\ \A k \in 1 .. Len(a) - 1 : Tail(a)[k] = a[k + 1]
      BY <3>1
    <3>3. n.held = Head(a) /\ n.ring = Tail(a) /\ n.lastInputSeq = Head(a).seq
      BY <1>1, <1>4 DEF a
    <3>4. \A k \in 1 .. Len(a) - 1 : k + 1 \in 1 .. Len(a)
      BY <3>2
    <3> QED BY <3>2, <3>3, <3>4 DEF a
  <2>2. \A k \in 1 .. Len(m.ring) :
           /\ m.ring[k].seq > m.lastInputSeq /\ m.ring[k].seq <= top
           /\ m.ring[k].sess = m.sess /\ m.ring[k].gen = m.gen
           /\ \A j \in 1 .. k - 1 : m.ring[j].seq < m.ring[k].seq
    BY DEF PlayerFine, UpToSeq, RingInOrder, Own
  <2>3. \A x \in Cmd : x.seq \in Nat
    BY BoundAssumption DEF Cmd
  <2>4. m.ring[1].seq \in Nat /\ m.ring[1].seq > m.lastInputSeq /\ m.ring[1].seq <= top
    BY <1>1, <2>1, <2>2, <2>3
  <2>5. UpToSeq(n, top)
    BY <2>1, <2>2 DEF UpToSeq
  <2>6. RingInOrder(n)
    <3>1. ASSUME NEW k \in 1 .. Len(n.ring)
          PROVE  n.ring[k].seq > n.lastInputSeq
      <4>1. k + 1 \in 1 .. Len(m.ring) /\ 1 \in 1 .. (k + 1) - 1 /\ n.ring[k] = m.ring[k + 1]
        BY <2>1
      <4>2. m.ring[1].seq < m.ring[k + 1].seq
        BY <2>2, <4>1
      <4>3. m.ring[k + 1].seq \in Nat
        BY <1>1, <2>3, <4>1
      <4> QED BY <2>1, <2>4, <4>1, <4>2, <4>3
    <3>2. ASSUME NEW k \in 1 .. Len(n.ring), NEW j \in 1 .. k - 1
          PROVE  n.ring[j].seq < n.ring[k].seq
      <4>0. Len(n.ring) \in Int /\ j \in Int /\ k \in Int /\ 1 <= j /\ j <= k - 1 /\ k <= Len(n.ring)
        BY <2>1
      <4>1. k + 1 \in 1 .. Len(m.ring) /\ n.ring[k] = m.ring[k + 1]
        BY <2>1
      <4>2. j \in 1 .. Len(n.ring)
        BY <4>0
      <4>3. n.ring[j] = m.ring[j + 1]
        BY <2>1, <4>2
      <4>4. j + 1 \in 1 .. (k + 1) - 1
        BY <4>0
      <4> QED BY <2>2, <4>1, <4>3, <4>4
    <3> QED BY <3>1, <3>2 DEF RingInOrder
  <2>7. Own(n)
    BY <1>1, <2>1, <2>2 DEF Own, SamePlayer
  <2> QED BY <1>2, <2>1, <2>4, <2>5, <2>6, <2>7 DEF PlayerFine, n
<1> QED BY <1>3, <1>4

--------------------------------------------------------------------------------
(* What a step does to inputs.                                                  *)

(* Who sits at seat i of room q after a step sat somewhere before it, with an   *)
(* acknowledgement that was not newer, or has waited to join.                   *)
Follows(q, i) ==
    Sits(q, i)' =>
       \/ \E p \in Rooms : \E j \in Seats :
             /\ Sits(p, j) /\ Sitter(p, j) = Sitter(q, i)'
             /\ members[p][j].lastInputSeq <= members'[q][i].lastInputSeq
             /\ members'[q][i].lastInputSeq <= seq[Sitter(p, j)]
       \/ \E p \in Rooms : Sitter(q, i)' \in pendingJoin[p]

InputStep == InputInv' /\ \A q \in Rooms : \A i \in Seats : Follows(q, i)

(* A player that is kept.                                                       *)
LEMMA KeptFollows ==
    ASSUME PlaceInv, InputInv, NEW p \in Rooms, NEW q \in Rooms, NEW i \in Seats,
           Sits(p, i), Kept(members[p][i], members'[q][i])
    PROVE  Follows(q, i)
<1>1. members[p][i].lastInputSeq <= seq[Sitter(p, i)]
  BY DEF InputInv, PlayerAt, PlayerFine
<1>2. members[p][i].lastInputSeq \in Nat
  <2>1. members[p][i] \in MemberSet
    BY DEF PlaceInv, TypeOK
  <2> QED BY <2>1, BoundAssumption DEF MemberSet
<1>3. members'[q][i].lastInputSeq = members[p][i].lastInputSeq /\ Sitter(q, i)' = Sitter(p, i)
  BY DEF Kept, Sitter
<1>4. members[p][i].lastInputSeq <= members'[q][i].lastInputSeq
  BY <1>2, <1>3
<1> QED BY <1>1, <1>3, <1>4 DEF Follows

(* A step after which whoever sits anywhere sat there before, with the same     *)
(* inputs, and the queues are as before or empty.                               *)
LEMMA QuietStep ==
    ASSUME PlaceInv, PlaceInv', InputInv, UNCHANGED <<gen, seq>>,
           \A q \in Rooms : inQ'[q] \in {<<>>, inQ[q]},
           \A q \in Rooms : \A i \in Seats :
               Sits(q, i)' => Sits(q, i) /\ Kept(members[q][i], members'[q][i]),
           \A q \in Rooms : Moving(q)' => \/ inQ'[game'[q].nr] = <<>>
                                          \/ Moving(q) /\ game'[q].nr = game[q].nr
    PROVE  InputStep
<1>1. QueueSound'
  BY QueuesKept DEF PlaceInv, InputInv
<1>2. ASSUME NEW q \in Rooms, NEW i \in Seats
      PROVE  PlayerAt(q, i)' /\ Follows(q, i)
  <2>1. CASE ~Sits(q, i)'
    BY <2>1 DEF PlayerAt, Follows
  <2>2. CASE Sits(q, i)'
    <3>1. Sits(q, i) /\ Kept(members[q][i], members'[q][i])
      BY <2>2
    <3>2. Moving(q)' => \/ inQ'[game'[q].nr] = <<>>
                        \/ Moving(q) /\ inQ'[game'[q].nr] = inQ[game[q].nr]
      <4>1. Moving(q)' => game'[q].nr \in Rooms
        BY DEF PlaceInv, TypeOK
      <4> QED BY <4>1
    <3>3. PlayerAt(q, i)'
      BY <3>1, <3>2, PlayerKept
    <3> QED BY <3>1, <3>3, KeptFollows
  <2> QED BY <2>1, <2>2
<1> QED BY <1>1, <1>2 DEF InputStep, InputInv

(* A new room slot has an empty queue and no players.                           *)
LEMMA AllocInputs ==
    ASSUME PlaceInv, NEW r \in Rooms, AllocRoomSlotLocked(r)
    PROVE  /\ \A q \in Rooms : inQ'[q] \in {<<>>, inQ[q]}
           /\ \A q \in Rooms : \A i \in Seats :
                 Sits(q, i)' => Sits(q, i) /\ Kept(members[q][i], members'[q][i])
<1>1. /\ SameSitters /\ inQ'[r] = <<>> /\ r \notin live
      /\ \A q \in Rooms : q # r => members'[q] = members[q] /\ inQ'[q] = inQ[q]
  BY AllocEffect DEF PlaceInv
<1>2. \A i \in Seats : ~Sits(r, i)'
  BY <1>1 DEF PlaceInv, FreeRooms, SameSitters
<1> QED BY <1>1, <1>2 DEF Kept, Sits

(* Join, and what an epoll worker does without a command.                       *)
LEMMA JoinInputs ==
    ASSUME PlaceInv, PlaceInv', InputInv, NEW s \in Sess, Join(s)
    PROVE  InputStep
<1>1. /\ \A q \in Rooms : inQ'[q] \in {<<>>, inQ[q]}
      /\ \A q \in Rooms : \A i \in Seats :
            Sits(q, i)' => Sits(q, i) /\ Kept(members[q][i], members'[q][i])
  <2>1. CASE UNCHANGED <<live, inQ, tickAtomic, members>>
    BY <2>1 DEF Kept, Sits
  <2>2. CASE \E r \in Rooms : AllocRoomSlotLocked(r)
    BY <2>2, AllocInputs
  <2> QED BY <2>1, <2>2 DEF Join
<1>2. UNCHANGED <<gen, seq, game>>
  BY DEF Join
<1>3. \A q \in Rooms : Moving(q)' => Moving(q) /\ game'[q].nr = game[q].nr
  BY <1>2 DEF Moving
<1> QED BY <1>1, <1>2, <1>3, QuietStep

(* Steps that touch neither players nor queues.                                 *)
LEMMA IdleInputs ==
    ASSUME PlaceInv, PlaceInv', InputInv, UNCHANGED <<gen, seq, inQ, members>>,
           \A q \in Rooms : Moving(q)' => Moving(q) /\ game'[q].nr = game[q].nr
    PROVE  InputStep
<1>1. \A q \in Rooms : inQ'[q] \in {<<>>, inQ[q]}
  OBVIOUS
<1>2. \A q \in Rooms : \A i \in Seats :
         Sits(q, i)' => Sits(q, i) /\ Kept(members[q][i], members'[q][i])
  BY DEF Kept, Sits
<1> QED BY <1>1, <1>2, QuietStep

(* TransferRoom takes a room slot: its queue is empty.                          *)
LEMMA BeginInputs ==
    ASSUME PlaceInv, PlaceInv', InputInv, NEW r \in Rooms, NEW n \in Rooms, TransferBegin(r, n)
    PROVE  InputStep
<1>1. /\ AllocRoomSlotLocked(n) /\ UNCHANGED <<gen, seq>>
      /\ game' = [game EXCEPT ![r] = [pc |-> "move", nr |-> n, moved |-> Seats \ Used(r)]]
  BY DEF TransferBegin, sessVars
<1>2. inQ'[n] = <<>>
  BY <1>1, AllocEffect DEF PlaceInv
<1>3. \A q \in Rooms : Moving(q)' => \/ inQ'[game'[q].nr] = <<>>
                                     \/ Moving(q) /\ game'[q].nr = game[q].nr
  <2>1. game \in [Rooms -> GameSet]
    BY DEF PlaceInv, TypeOK, GameSet
  <2>2. game'[r].nr = n /\ \A q \in Rooms : q # r => game'[q] = game[q]
    BY <1>1, <2>1
  <2>3. ASSUME NEW q \in Rooms, Moving(q)'
        PROVE  inQ'[game'[q].nr] = <<>> \/ (Moving(q) /\ game'[q].nr = game[q].nr)
    <3>1. CASE q = r
      BY <1>2, <2>2, <3>1
    <3>2. CASE q # r
      BY <2>2, <2>3, <3>2 DEF Moving
    <3> QED BY <3>1, <3>2
  <2> QED BY <2>3
<1> QED BY <1>1, <1>3, AllocInputs, QuietStep

(* TransferRoom ends.                                                           *)
LEMMA EndInputs ==
    ASSUME PlaceInv, PlaceInv', InputInv, NEW r \in Rooms, TransferEnd(r)
    PROVE  InputStep
<1>1. /\ UNCHANGED <<gen, seq, inQ, members>>
      /\ game' = [game EXCEPT ![r] = Ticked(r), ![game[r].nr] = Ticked(game[r].nr)]
  BY DEF TransferEnd
<1>2. \A q \in Rooms : Moving(q)' => Moving(q) /\ game'[q].nr = game[q].nr
  <2>1. game \in [Rooms -> GameSet]
    BY DEF PlaceInv, TypeOK, GameSet
  <2>2. game[r].nr \in Rooms
    BY <2>1 DEF GameSet
  <2>3. \A q \in Rooms : game'[q] = game[q] \/ game'[q].pc = "queues"
    BY <1>1, <2>1, <2>2, FramesType
  <2> QED BY <2>3 DEF Moving
<1> QED BY <1>1, <1>2, IdleInputs

(* TransferRoom moves a member: what is pushed to the new room is newer.        *)
LEMMA MemberInputs ==
    ASSUME PlaceInv, PlaceInv', InputInv, NEW r \in Rooms, NEW i \in Seats, TransferMember(r, i)
    PROVE  InputStep
<1>1. PICK n \in Rooms :
         /\ Moving(r) /\ game[r].nr = n /\ n # r
         /\ \A q \in Rooms : \A j \in Seats :
               <<q, j>> \notin {<<r, i>>, <<n, i>>} => members'[q][j] = members[q][j]
         /\ members'[n][i] = members[r][i] /\ ~members'[r][i].used
         /\ game'[r].pc = "move" /\ game'[r].nr = n
         /\ \A q \in Rooms : q # r => game'[q] = game[q]
  BY MemberMoves DEF PlaceInv
<1>2. UNCHANGED <<gen, seq, inQ>>
  BY DEF TransferMember
<1>3. QueueSound'
  BY <1>2, QueuesKept DEF PlaceInv, InputInv
<1>4. \A q \in Rooms : Moving(q)' => Moving(q) /\ game'[q].nr = game[q].nr
  BY <1>1 DEF Moving
<1>5. ASSUME NEW q \in Rooms, NEW j \in Seats, Sits(q, j)'
      PROVE  PlayerAt(q, j)' /\ Follows(q, j)
  <2>1. CASE q = n /\ j = i
    <3>1. Sits(r, i) /\ Kept(members[r][i], members'[n][i])
      BY <1>1, <1>5, <2>1 DEF Kept, Sits
    <3>2. ~Moving(n)' /\ inQ'[n] = inQ[game[r].nr]
      BY <1>1, <1>2, <1>4 DEF PlaceInv, MoveSound
    <3>3. PlayerAt(n, i)'
      BY <1>1, <1>2, <3>1, <3>2, PlayerKept
    <3> QED BY <2>1, <3>1, <3>3, KeptFollows
  <2>2. CASE <<q, j>> \notin {<<r, i>>, <<n, i>>}
    <3>1. Sits(q, j) /\ Kept(members[q][j], members'[q][j])
      BY <1>1, <1>5, <2>2 DEF Kept, Sits
    <3>2. Moving(q)' => Moving(q) /\ inQ'[game'[q].nr] = inQ[game[q].nr]
      BY <1>2, <1>4
    <3>3. PlayerAt(q, j)'
      BY <1>2, <3>1, <3>2, PlayerKept
    <3> QED BY <3>1, <3>3, KeptFollows
  <2> QED BY <1>1, <1>5, <2>1, <2>2 DEF Sits
<1>6. \A q \in Rooms : \A j \in Seats : PlayerAt(q, j)' /\ Follows(q, j)
  BY <1>5 DEF PlayerAt, Follows
<1> QED BY <1>3, <1>6 DEF InputStep, InputInv

(* ProcessRoomQueues: a new player finds only what its own connection sent.     *)
LEMMA QueuesInputs ==
    ASSUME PlaceInv, PlaceInv', InputInv, NEW r \in Rooms, ProcessRoomQueues(r)
    PROVE  InputStep
<1>1. /\ \A q \in Rooms : Moving(q) => game[q].nr # r
      /\ \A s \in Sess : IF s \in Gone(r) THEN gen'[s] = gen[s] + 1 /\ seq'[s] = 0
                                          ELSE gen'[s] = gen[s] /\ seq'[s] = seq[s]
      /\ \A q \in Rooms : q # r => game'[q] = game[q]
      /\ game'[r].pc \in {"queues", "tick"} /\ inQ' = inQ
  BY QueuesSessions DEF PlaceInv
<1>2. /\ \A q \in Rooms : q # r => members'[q] = members[q]
      /\ \A i \in Seats : (\E s \in Sess : Arrives(r, i, s)) \/ Stays(r, i)
  BY QueuesEffect DEF PlaceInv
<1>3. \A q \in Rooms : q # r => \A i \in Seats : Sits(q, i) => Sitter(q, i) \notin Gone(r)
  BY QueuesSitters
<1>4. QueueSound'
  BY <1>1, QueuesKept DEF PlaceInv, InputInv
<1>5. \A q \in Rooms : \A i \in Seats : Sitter(q, i) \in Sess
  <2>1. members \in [Rooms -> [Seats -> MemberSet]]
    BY DEF PlaceInv, TypeOK
  <2> QED BY <2>1 DEF MemberSet, Sitter
<1>6. \A q \in Rooms : Moving(q)' => Moving(q) /\ game'[q] = game[q]
  BY <1>1 DEF Moving
<1>7. ASSUME NEW q \in Rooms, NEW i \in Seats, Sits(q, i)',
             Sits(q, i), Kept(members[q][i], members'[q][i]), Sitter(q, i) \notin Gone(r)
      PROVE  PlayerAt(q, i)' /\ Follows(q, i)
  <2>1. seq'[Sitter(q, i)] = seq[Sitter(q, i)]
    BY <1>1, <1>5, <1>7
  <2>2. PlayerAt(q, i)'
    BY <1>1, <1>6, <1>7, <2>1, PlayerKept
  <2> QED BY <1>7, <2>2, KeptFollows
<1>8. ASSUME NEW i \in Seats, NEW s \in Sess, Arrives(r, i, s)
      PROVE  PlayerAt(r, i)' /\ Follows(r, i)
  <2> DEFINE n == members'[r][i]
             q == inQ[r]
  <2>1. s \in pendingJoin[r] /\ s \notin Gone(r) /\ n = Fresh(s, gen[s], i)
    BY <1>8 DEF Arrives
  <2>2. gen[s] \in 0 .. MaxGen /\ seq[s] \in Nat
    BY DEF PlaceInv, TypeOK
  <2>3. /\ n.sess = s /\ n.gen = gen[s] /\ n.ring = <<>> /\ n.lastInputSeq = 0
        /\ n.held.sess = s /\ n.held.gen = gen[s]
    BY <2>1, <2>2, FreshType
  <2>4. PlayerFine(n, seq'[s])
    <3>1. seq'[s] = seq[s]
      BY <1>1, <2>1
    <3> HIDE DEF n
    <3> QED BY <2>2, <2>3, <3>1 DEF PlayerFine, UpToSeq, RingInOrder, Own
  <2>5. Newer(n, q)
    <3>1. InSendOrder(q) /\ \A k \in 1 .. Len(q) : Sent(q[k])
      BY DEF InputInv, QueueSound
    <3> HIDE DEF n, q
    <3>2. ASSUME NEW k \in SentBy(n, q)
          PROVE  /\ q[k].seq > n.lastInputSeq
                 /\ \A j \in 1 .. Len(n.ring) : n.ring[j].seq < q[k].seq
                 /\ \A j \in SentBy(n, q) : j < k => q[j].seq < q[k].seq
      <4>1. k \in 1 .. Len(q) /\ q[k].seq > 0
        BY <3>1 DEF SentBy, Sent
      <4>2. \A j \in SentBy(n, q) : j < k => j \in 1 .. k - 1 /\ q[j].sess = q[k].sess /\ q[j].gen = q[k].gen
        BY <4>1 DEF SentBy
      <4> QED BY <2>3, <3>1, <4>1, <4>2 DEF InSendOrder
    <3> QED BY <3>2 DEF Newer
  <2>6. ~Moving(r)' /\ Sitter(r, i)' = s /\ inQ'[r] = q
    BY <1>1, <2>3 DEF Moving, Sitter
  <2>7. PlayerAt(r, i)'
    BY <2>4, <2>5, <2>6 DEF PlayerAt
  <2>8. Follows(r, i)
    BY <2>1, <2>6 DEF Follows
  <2> QED BY <2>7, <2>8
<1>9. ASSUME NEW q \in Rooms, NEW i \in Seats, Sits(q, i)'
      PROVE  PlayerAt(q, i)' /\ Follows(q, i)
  <2>1. CASE q # r
    <3>1. Sits(q, i) /\ Kept(members[q][i], members'[q][i])
      BY <1>2, <1>9, <2>1 DEF Kept, Sits
    <3> QED BY <1>3, <1>7, <1>9, <2>1, <3>1
  <2>2. CASE q = r /\ Stays(r, i)
    <3>1. Sits(r, i) /\ Sitter(r, i) \notin Gone(r) /\ Kept(members[r][i], members'[r][i])
      BY <1>9, <2>2 DEF Stays, Kept, Sits
    <3> QED BY <1>7, <1>9, <2>2, <3>1
  <2> QED BY <1>2, <1>8, <2>1, <2>2
<1>10. \A q \in Rooms : \A i \in Seats : PlayerAt(q, i)' /\ Follows(q, i)
  BY <1>9 DEF PlayerAt, Follows
<1> QED BY <1>4, <1>10 DEF InputStep, InputInv

(* RoomTick routes the queue and every player takes its oldest input.           *)
LEMMA TickInputs ==
    ASSUME PlaceInv, PlaceInv', InputInv, NEW r \in Rooms, RoomTick(r)
    PROVE  InputStep
<1>1. /\ SameSitters
      /\ \A q \in Rooms : q # r => members'[q] = members[q] /\ inQ'[q] = inQ[q]
      /\ \A i \in Seats : members'[r][i] = Ticking(r, i)
      /\ inQ'[r] = <<>>
  BY TickEffect DEF PlaceInv
<1>2. /\ UNCHANGED <<gen, seq>> /\ game[r].pc = "tick"
      /\ \E pc \in {"queues", "exit"} : game' = [game EXCEPT ![r].pc = pc]
  BY DEF RoomTick, sessVars
<1>3. ~Moving(r)' /\ \A q \in Rooms : q # r => game'[q] = game[q]
  BY <1>2 DEF Moving, PlaceInv, TypeOK
<1>4. \A q \in Rooms : Moving(q) => game[q].nr # r
  BY <1>2, BusyRoom
<1>5. QueueSound'
  <2>1. \A q \in Rooms : inQ'[q] \in {<<>>, inQ[q]}
    BY <1>1
  <2> QED BY <1>2, <2>1, QueuesKept DEF PlaceInv, InputInv
<1>6. ASSUME NEW i \in Seats, Sits(r, i)'
      PROVE  PlayerAt(r, i)' /\ Follows(r, i)
  <2> DEFINE m == members[r][i]
             s == Sitter(r, i)
             n == RoutedAll(members[r], inQ[r])[i]
             top == seq[s]
  <2>1. /\ Sits(r, i) /\ m.used /\ Sitter(r, i)' = s /\ s = m.sess
        /\ members'[r][i] = Consumed(n)
    BY <1>1, <1>6 DEF SameSitters, Sits, Sitter, Ticking
  <2>2. /\ PlayerFine(m, top) /\ Newer(m, inQ[r])
    BY <2>1 DEF InputInv, PlayerAt
  <2>3. /\ members[r] \in [Seats -> MemberSet] /\ \A j \in Seats : Sound(members[r][j])
        /\ inQ[r] \in Seq(Cmd) /\ top \in Nat
    <3>1. members[r] \in [Seats -> MemberSet] /\ inQ[r] \in Seq(Cmd)
      BY DEF PlaceInv, TypeOK
    <3>2. \A j \in Seats : Sound(members[r][j])
      BY <3>1 DEF PlaceInv, TypeOK, Sound
    <3>3. s \in Sess
      BY <3>1 DEF Sitter, MemberSet
    <3>4. seq[s] \in 0 .. MaxSeq
      BY <3>3 DEF PlaceInv, TypeOK
    <3> QED BY <3>1, <3>2, <3>4
  <2>4. \A k \in SentBy(m, inQ[r]) : inQ[r][k].seq <= top
    <3>1. m.gen = gen[s]
      BY <2>1 DEF PlaceInv, Present
    <3>2. \A k \in 1 .. Len(inQ[r]) : Sent(inQ[r][k])
      BY DEF InputInv, QueueSound
    <3> QED BY <2>1, <3>1, <3>2 DEF SentBy, Sent
  <2>5. RingInOrder(m) /\ Own(m) /\ UpToSeq(m, top) /\ m.lastInputSeq <= top
    BY <2>2 DEF PlayerFine
  <2>6. /\ RingInOrder(n) /\ Own(n) /\ UpToSeq(n, top)
        /\ Sound(n) /\ SamePlayer(m, n) /\ n.lastInputSeq = m.lastInputSeq
    <3> DEFINE ms == members[r]
               q == inQ[r]
    <3>1. /\ ms \in [Seats -> MemberSet] /\ \A j \in Seats : Sound(ms[j])
          /\ q \in Seq(Cmd) /\ top \in Nat
          /\ RingInOrder(ms[i]) /\ Own(ms[i]) /\ UpToSeq(ms[i], top) /\ Newer(ms[i], q)
          /\ \A k \in SentBy(ms[i], q) : q[k].seq <= top
      BY <2>2, <2>3, <2>4, <2>5
    <3> HIDE DEF ms, q, top
    <3>2. LET x == RoutedAll(ms, q)[i]
          IN  RingInOrder(x) /\ Own(x) /\ UpToSeq(x, top)
      BY <3>1, RoutedAllOrder
    <3>3. LET x == RoutedAll(ms, q)[i]
          IN  Sound(x) /\ SamePlayer(ms[i], x) /\ x.lastInputSeq = ms[i].lastInputSeq
      BY <3>1, RoutedAllType
    <3> QED BY <3>2, <3>3 DEF ms, q
  <2> HIDE DEF n, top, m
  <2>7. PlayerFine(n, top) /\ n.used
    BY <2>1, <2>5, <2>6 DEF PlayerFine, SamePlayer
  <2>8. PlayerFine(Consumed(n), top) /\ n.lastInputSeq <= Consumed(n).lastInputSeq
    BY <2>3, <2>6, <2>7, ConsumedOrder
  <2>9. PlayerAt(r, i)'
    <3>1. PlayerFine(members'[r][i], seq'[Sitter(r, i)'])
      BY <1>2, <2>1, <2>8 DEF top
    <3>2. Newer(members'[r][i], inQ'[r])
      BY <1>1, NewerEmpty
    <3> QED BY <1>3, <3>1, <3>2 DEF PlayerAt
  <2>10. Follows(r, i)
    <3>1. /\ members[r][i].lastInputSeq <= members'[r][i].lastInputSeq
          /\ members'[r][i].lastInputSeq <= seq[Sitter(r, i)]
      BY <2>1, <2>6, <2>8 DEF m, top, PlayerFine
    <3> QED BY <2>1, <3>1 DEF Follows
  <2> QED BY <2>9, <2>10
<1>7. ASSUME NEW q \in Rooms, q # r, NEW i \in Seats, Sits(q, i)'
      PROVE  PlayerAt(q, i)' /\ Follows(q, i)
  <2>1. Sits(q, i) /\ Kept(members[q][i], members'[q][i])
    BY <1>1, <1>7 DEF Kept, Sits
  <2>2. Moving(q)' => Moving(q) /\ inQ'[game'[q].nr] = inQ[game[q].nr]
    <3>1. Moving(q)' => Moving(q) /\ game'[q].nr = game[q].nr /\ game[q].nr \in Rooms /\ game[q].nr # r
      BY <1>3, <1>4, <1>7 DEF Moving, PlaceInv, TypeOK
    <3> QED BY <1>1, <3>1
  <2>3. PlayerAt(q, i)'
    BY <1>1, <1>2, <1>7, <2>1, <2>2, PlayerKept
  <2> QED BY <2>1, <2>3, KeptFollows
<1>8. \A q \in Rooms : \A i \in Seats : PlayerAt(q, i)' /\ Follows(q, i)
  BY <1>6, <1>7 DEF PlayerAt, Follows
<1> QED BY <1>5, <1>8 DEF InputStep, InputInv

(* A queue to which a session's next command is appended.                       *)
LEMMA Appended ==
    ASSUME NEW q \in Seq(Cmd), NEW c \in Cmd
    PROVE  /\ Len(Append(q, c)) = Len(q) + 1 /\ Len(q) \in Nat
           /\ Append(q, c)[Len(q) + 1] = c
           /\ \A k \in 1 .. Len(q) : Append(q, c)[k] = q[k] /\ q[k] \in Cmd
OBVIOUS

(* The next command of a session is newer than whatever its player has.         *)
LEMMA NewestComesLast ==
    ASSUME NEW q \in Seq(Cmd), NEW c \in Cmd, NEW m, Sound(m), NEW top \in Nat, Newer(m, q),
           c.sess = m.sess /\ c.gen = m.gen =>
               /\ c.seq = top + 1 /\ PlayerFine(m, top)
               /\ \A k \in SentBy(m, q) : q[k].seq <= top
    PROVE  Newer(m, Append(q, c))
<1> DEFINE a == Append(q, c)
<1>1. /\ Len(a) = Len(q) + 1 /\ Len(q) \in Nat /\ a[Len(q) + 1] = c
      /\ \A k \in 1 .. Len(q) : a[k] = q[k] /\ q[k] \in Cmd
  BY Appended
<1> HIDE DEF a
<1>2. \A k \in SentBy(m, a) : \/ k \in SentBy(m, q) /\ a[k] = q[k]
                              \/ k = Len(q) + 1 /\ a[k] = c /\ c.sess = m.sess /\ c.gen = m.gen
  BY <1>1 DEF SentBy
<1>3. \A x \in Cmd : x.seq \in Nat
  BY BoundAssumption DEF Cmd
<1>4. m.ring \in Seq(Cmd) /\ m.lastInputSeq \in Nat
  BY BoundAssumption DEF Sound, MemberSet
<1>5. \A j \in 1 .. Len(m.ring) : m.ring[j].seq \in Nat
  BY <1>3, <1>4
<1>6. ASSUME NEW k \in SentBy(m, a)
      PROVE  /\ a[k].seq > m.lastInputSeq
             /\ \A j \in 1 .. Len(m.ring) : m.ring[j].seq < a[k].seq
             /\ \A j \in SentBy(m, a) : j < k => a[j].seq < a[k].seq
  <2>1. CASE k \in SentBy(m, q) /\ a[k] = q[k]
    <3>1. k \in 1 .. Len(q)
      BY <2>1 DEF SentBy
    <3>2. \A j \in SentBy(m, a) : j < k => j \in SentBy(m, q) /\ a[j] = q[j]
      BY <1>1, <1>2, <3>1
    <3> QED BY <2>1, <3>2 DEF Newer
  <2>2. CASE k = Len(q) + 1 /\ a[k] = c /\ c.sess = m.sess /\ c.gen = m.gen
    <3>1. c.seq = top + 1 /\ m.lastInputSeq <= top /\ (\A j \in 1 .. Len(m.ring) : m.ring[j].seq <= top)
          /\ \A j \in SentBy(m, q) : q[j].seq <= top
      BY <2>2 DEF PlayerFine, UpToSeq
    <3>2. \A j \in 1 .. Len(m.ring) : m.ring[j].seq < c.seq
      BY <1>5, <3>1
    <3>3. ASSUME NEW j \in SentBy(m, a), j < k
          PROVE  a[j].seq < c.seq
      <4>0. j \in 1 .. Len(q)
        BY <1>1, <2>2, <3>3 DEF SentBy
      <4>1. j \in SentBy(m, q) /\ a[j] = q[j]
        BY <1>1, <1>2, <3>3, <4>0
      <4>2. q[j].seq <= top /\ q[j].seq \in Nat
        BY <1>1, <1>3, <3>1, <4>1 DEF SentBy
      <4> QED BY <3>1, <4>1, <4>2
    <3> QED BY <1>4, <2>2, <3>1, <3>2, <3>3
  <2> QED BY <1>2, <2>1, <2>2
<1>7. Newer(m, a)
  BY <1>6 DEF Newer
<1> QED BY <1>7 DEF a

(* PushInput appends a command that is newer than all of its connection's.      *)
LEMMA PushInputs ==
    ASSUME PlaceInv, PlaceInv', InputInv, NEW s \in Sess, NEW d \in Dirs, PushInput(s, d)
    PROVE  InputStep
<1>1. PICK r \in Rooms, c \in Cmd :
         /\ c.sess = s /\ c.gen = gen[s] /\ c.seq = seq[s] + 1
         /\ inQ' = [inQ EXCEPT ![r] = Append(inQ[r], c)]
         /\ seq' = [seq EXCEPT ![s] = seq[s] + 1]
  BY PushEffect
<1>2. UNCHANGED <<gen, members, game>>
  BY DEF PushInput, sessVars
<1>3. /\ inQ \in [Rooms -> Seq(Cmd)] /\ \A t \in Sess : seq[t] \in Nat /\ gen[t] \in Nat
      /\ \A q \in Rooms : \A i \in Seats : Sound(members[q][i]) /\ Sitter(q, i) \in Sess
  <2>1. /\ inQ \in [Rooms -> Seq(Cmd)] /\ seq \in [Sess -> 0 .. MaxSeq] /\ gen \in [Sess -> 0 .. MaxGen]
        /\ members \in [Rooms -> [Seats -> MemberSet]]
        /\ \A q \in Rooms : \A i \in Seats : Len(members[q][i].ring) <= kInputRingDepth
    BY DEF PlaceInv, TypeOK
  <2>2. \A m \in MemberSet : m.sess \in Sess
    BY DEF MemberSet
  <2>3. \A t \in Sess : seq[t] \in Nat /\ gen[t] \in Nat
    BY <2>1, BoundAssumption
  <2> QED BY <2>1, <2>2, <2>3 DEF Sound, Sitter
<1>4. /\ inQ'[r] = Append(inQ[r], c) /\ \A q \in Rooms : q # r => inQ'[q] = inQ[q]
      /\ seq'[s] = seq[s] + 1 /\ \A t \in Sess : t # s => seq'[t] = seq[t]
  <2>1. seq \in [Sess -> 0 .. MaxSeq]
    BY DEF PlaceInv, TypeOK
  <2> QED BY <1>1, <1>3, <2>1
<1>5. QueueSound'
  <2>1. \A x \in Cmd : x.sess \in Sess /\ x.seq \in Nat /\ x.gen \in Nat
    BY BoundAssumption DEF Cmd
  <2>2. ASSUME NEW x \in Cmd, Sent(x)
        PROVE  x.seq > 0 /\ x.gen <= gen'[x.sess] /\ (x.gen = gen'[x.sess] => x.seq <= seq'[x.sess])
    <3>0. \A t \in Sess : seq[t] <= seq'[t] /\ seq[t] \in Nat /\ seq'[t] \in Nat
      <4>1. ASSUME NEW t \in Sess
            PROVE  seq[t] <= seq'[t] /\ seq[t] \in Nat /\ seq'[t] \in Nat
        <5>1. seq'[t] = seq[t] \/ seq'[t] = seq[t] + 1
          BY <1>4
        <5> QED BY <1>3, <5>1
      <4> QED BY <4>1
    <3>1. seq[x.sess] <= seq'[x.sess] /\ seq[x.sess] \in Nat /\ seq'[x.sess] \in Nat /\ x.seq \in Nat
      BY <2>1, <3>0
    <3> QED BY <1>2, <2>2, <3>1 DEF Sent
  <2>3. c.seq > 0 /\ c.gen <= gen'[c.sess] /\ (c.gen = gen'[c.sess] => c.seq <= seq'[c.sess])
    BY <1>1, <1>2, <1>3, <1>4
  <2>4. ASSUME NEW q \in Rooms
        PROVE  InSendOrder(inQ'[q]) /\ \A k \in 1 .. Len(inQ'[q]) : Sent(inQ[q][k])'
    <3>1. CASE q # r
      <4>1. inQ'[q] = inQ[q] /\ InSendOrder(inQ[q]) /\ \A k \in 1 .. Len(inQ[q]) : Sent(inQ[q][k]) /\ inQ[q][k] \in Cmd
        BY <1>3, <1>4, <3>1 DEF InputInv, QueueSound
      <4> QED BY <2>2, <4>1 DEF Sent
    <3>2. CASE q = r
      <4> DEFINE o == inQ[r]
                 a == Append(o, c)
      <4>1. /\ Len(a) = Len(o) + 1 /\ Len(o) \in Nat /\ a[Len(o) + 1] = c
            /\ \A k \in 1 .. Len(o) : a[k] = o[k] /\ o[k] \in Cmd
        <5>1. o \in Seq(Cmd)
          BY <1>3
        <5> HIDE DEF o
        <5> QED BY <5>1, Appended
      <4>2. InSendOrder(o) /\ \A k \in 1 .. Len(o) : Sent(o[k])
        BY DEF InputInv, QueueSound
      <4>3. inQ'[q] = a
        BY <1>4, <3>2
      <4> HIDE DEF o, a
      <4>4. \A k \in 1 .. Len(a) : k \in 1 .. Len(o) \/ (k = Len(o) + 1 /\ a[k] = c)
        BY <4>1
      <4>5. \A k \in 1 .. Len(a) :
               /\ a[k].seq > 0 /\ a[k].gen <= gen'[a[k].sess]
               /\ a[k].gen = gen'[a[k].sess] => a[k].seq <= seq'[a[k].sess]
        BY <2>2, <2>3, <4>1, <4>2, <4>4
      <4>6. ASSUME NEW k \in 1 .. Len(a), NEW j \in 1 .. k - 1,
                   a[j].sess = a[k].sess, a[j].gen = a[k].gen
            PROVE  a[j].seq < a[k].seq
        <5>1. j \in 1 .. Len(o) /\ a[j] = o[j] /\ o[j] \in Cmd
          BY <4>1
        <5>2. CASE k \in 1 .. Len(o)
          BY <4>1, <4>2, <4>6, <5>1, <5>2 DEF InSendOrder
        <5>3. CASE k = Len(o) + 1 /\ a[k] = c
          <6>1. o[j].sess = s /\ o[j].gen = gen[s] /\ Sent(o[j])
            BY <1>1, <4>2, <4>6, <5>1, <5>3
          <6>2. o[j].seq <= seq[s] /\ o[j].seq \in Nat
            BY <2>1, <5>1, <6>1 DEF Sent
          <6> QED BY <1>1, <1>3, <5>1, <5>3, <6>2
        <5> QED BY <4>4, <5>2, <5>3
      <4> QED BY <4>3, <4>5, <4>6 DEF InSendOrder, Sent
    <3> QED BY <3>1, <3>2
  <2> QED BY <2>4 DEF QueueSound
<1>6. ASSUME NEW q \in Rooms, NEW i \in Seats, Sits(q, i), NEW x \in Rooms, Newer(members[q][i], inQ[x])
      PROVE  Newer(members[q][i], inQ'[x])
  <2>1. CASE x # r
    BY <1>4, <1>6, <2>1
  <2>2. CASE x = r
    <3> DEFINE m == members[q][i]
               o == inQ[r]
    <3>1. c.sess = m.sess /\ c.gen = m.gen => c.seq = seq[s] + 1 /\ PlayerFine(m, seq[s])
      BY <1>1, <1>6 DEF InputInv, PlayerAt, Sitter
    <3>2. ASSUME c.sess = m.sess, c.gen = m.gen, NEW k \in SentBy(m, o)
          PROVE  o[k].seq <= seq[s]
      <4>1. o[k].sess = s /\ o[k].gen = gen[s] /\ k \in 1 .. Len(o)
        BY <1>1, <3>2 DEF SentBy
      <4>2. Sent(o[k])
        BY <4>1 DEF InputInv, QueueSound
      <4> QED BY <4>1, <4>2 DEF Sent
    <3>3. Sound(m) /\ o \in Seq(Cmd) /\ Newer(m, o) /\ seq[s] \in Nat
      BY <1>3, <1>6, <2>2
    <3>4. inQ'[x] = Append(o, c)
      BY <1>4, <2>2
    <3> HIDE DEF m, o
    <3>5. Newer(m, Append(o, c))
      BY <3>1, <3>2, <3>3, NewestComesLast
    <3> QED BY <3>4, <3>5 DEF m
  <2> QED BY <2>1, <2>2
<1>7. ASSUME NEW q \in Rooms, NEW i \in Seats, Sits(q, i)'
      PROVE  PlayerAt(q, i)' /\ Follows(q, i)
  <2> DEFINE m == members[q][i]
             t == Sitter(q, i)
  <2>1. Sits(q, i) /\ members'[q][i] = m /\ Sitter(q, i)' = t /\ t \in Sess
    BY <1>2, <1>3, <1>7 DEF Sits, Sitter
  <2>2. /\ PlayerFine(m, seq[t]) /\ Newer(m, inQ[q])
        /\ Moving(q) => Newer(m, inQ[game[q].nr])
    BY <2>1 DEF InputInv, PlayerAt
  <2>3. Newer(m, inQ'[q]) /\ (Moving(q)' => Newer(m, inQ'[game'[q].nr]))
    <3>1. game[q].nr \in Rooms
      BY DEF PlaceInv, TypeOK
    <3> QED BY <1>2, <1>6, <2>1, <2>2, <3>1 DEF Moving
  <2>4. seq[t] <= seq'[t] /\ seq[t] \in Nat /\ seq'[t] \in Nat
    BY <1>3, <1>4, <2>1
  <2>5. PlayerFine(m, seq'[t])
    <3>1. Sound(m)
      BY <1>3
    <3> HIDE DEF m
    <3>2. m.lastInputSeq \in Nat /\ \A k \in 1 .. Len(m.ring) : m.ring[k].seq \in Nat
      <4>1. m.ring \in Seq(Cmd) /\ m.lastInputSeq \in Nat
        BY <3>1, BoundAssumption DEF Sound, MemberSet
      <4>2. \A x \in Cmd : x.seq \in Nat
        BY BoundAssumption DEF Cmd
      <4> QED BY <4>1, <4>2
    <3> QED BY <2>2, <2>4, <3>2 DEF PlayerFine, UpToSeq
  <2>6. PlayerAt(q, i)'
    BY <2>1, <2>3, <2>5 DEF PlayerAt
  <2>7. Follows(q, i)
    BY <2>1, KeptFollows DEF Kept
  <2> QED BY <2>6, <2>7
<1>8. \A q \in Rooms : \A i \in Seats : PlayerAt(q, i)' /\ Follows(q, i)
  BY <1>7 DEF PlayerAt, Follows
<1> QED BY <1>5, <1>8 DEF InputStep, InputInv

(* Whatever interleaves, what waits for a player is its own, newer than what it *)
(* has acknowledged, and in the order in which it was sent (PushInput, RoomTick,*)
(* TransferRoom).                                                               *)
LEMMA NextInputs ==
    ASSUME PlaceInv, PlaceInv', InputInv, Next
    PROVE  InputStep
<1>1. ASSUME NEW r \in Rooms, GameStep(r)
      PROVE  InputStep
  <2>1. CASE ProcessRoomQueues(r)
    BY <2>1, QueuesInputs
  <2>2. CASE RoomTick(r)
    BY <2>2, TickInputs
  <2>3. CASE TransferFails(r)
    <3>1. UNCHANGED <<gen, seq, inQ, members>> /\ game' = [game EXCEPT ![r] = Ticked(r)]
      BY <2>3 DEF TransferFails, sessVars, roomVars
    <3>2. \A q \in Rooms : Moving(q)' => Moving(q) /\ game'[q].nr = game[q].nr
      BY <3>1, FramesType DEF Moving, PlaceInv, TypeOK
    <3> QED BY <3>1, <3>2, IdleInputs
  <2>4. CASE \E n \in Rooms : TransferBegin(r, n)
    BY <2>4, BeginInputs
  <2>5. CASE \E i \in Seats : TransferMember(r, i)
    BY <2>5, MemberInputs
  <2>6. CASE TransferEnd(r)
    BY <2>6, EndInputs
  <2> QED BY <1>1, <2>1, <2>2, <2>3, <2>4, <2>5, <2>6 DEF GameStep
<1>2. ASSUME NEW s \in Sess, SessStep(s)
      PROVE  InputStep
  <2>1. CASE Join(s)
    BY <2>1, JoinInputs
  <2>2. CASE OnSessionLeave(s)
    <3>1. UNCHANGED <<gen, seq, inQ, members, game>>
      BY <2>2 DEF OnSessionLeave, roomVars
    <3> QED BY <3>1, IdleInputs DEF Moving
  <2>3. CASE LoadRoom(s, "push") \/ LoadRoom(s, "ping")
    <3>1. UNCHANGED <<gen, seq, inQ, members, game>>
      BY <2>3 DEF LoadRoom, sessVars, roomVars
    <3> QED BY <3>1, IdleInputs DEF Moving
  <2>4. CASE \E d \in Dirs : PushInput(s, d)
    BY <2>4, PushInputs
  <2>5. CASE GetPingInfo(s)
    <3>1. UNCHANGED <<gen, seq, inQ, members, game>>
      BY <2>5 DEF GetPingInfo, sessVars, roomVars
    <3> QED BY <3>1, IdleInputs DEF Moving
  <2> QED BY <1>2, <2>1, <2>2, <2>3, <2>4, <2>5 DEF SessStep
<1> QED BY <1>1, <1>2 DEF Next

(* The queues of all rooms and what waits for every player, through any number  *)
(* of moves, reconnections and late pushes.                                     *)
THEOREM InputsSound == Spec => []InputInv
<1>1. Init => InputInv
  <2> SUFFICES ASSUME Init PROVE InputInv
    OBVIOUS
  <2>1. \A r \in Rooms : inQ[r] = <<>> /\ \A i \in Seats : ~Sits(r, i)
    BY NoMembersType DEF Init, Sits
  <2> QED BY <2>1 DEF InputInv, QueueSound, InSendOrder, PlayerAt
<1>2. PlaceInv /\ PlaceInv' /\ InputInv /\ [Next]_vars => InputInv'
  <2> SUFFICES ASSUME PlaceInv, PlaceInv', InputInv, [Next]_vars
               PROVE  InputInv'
    OBVIOUS
  <2>1. CASE Next
    BY <2>1, NextInputs DEF InputStep
  <2>2. CASE UNCHANGED vars
    <3>1. UNCHANGED <<gen, seq, inQ, members, game>>
      BY <2>2 DEF vars, sessVars, roomVars
    <3>2. InputStep
      BY <3>1, IdleInputs DEF Moving
    <3> QED BY <3>2 DEF InputStep
  <2> QED BY <2>1, <2>2
<1> QED BY <1>1, <1>2, PlacesSound, PTL DEF Spec

(* Inputs are applied in the order they were sent, and none twice.              *)
THEOREM InputOrderHolds == Spec => []InputOrder
<1>1. InputInv => InputOrder
  BY DEF InputInv, PlayerAt, PlayerFine, InputOrder, Players, Player, Sits
<1> QED BY <1>1, InputsSound, PTL

(* A player is moved only by its own inputs.                                    *)
THEOREM OwnInputsOnlyHolds == Spec => []OwnInputsOnly
<1>1. InputInv => OwnInputsOnly
  BY DEF InputInv, PlayerAt, PlayerFine, Own, OwnInputsOnly, Players, Player, Sits
<1> QED BY <1>1, InputsSound, PTL

(* An acknowledgement never goes back and never runs ahead of what was sent.    *)
THEOREM AckSoundHolds == Spec => AckSound
<1> DEFINE Ack == \A p \in Players, q \in Players' :
                     LET m == Player(p)
                         n == Player(q)'
                     IN  m.sess = n.sess /\ m.gen = n.gen
                         => m.lastInputSeq <= n.lastInputSeq /\ n.lastInputSeq <= seq[n.sess]
<1>1. PlaceInv /\ PlaceInv' /\ InputInv /\ [Next]_vars => [Ack]_vars
  <2> SUFFICES ASSUME PlaceInv, PlaceInv', InputInv, Next
               PROVE  Ack
    OBVIOUS
  <2>1. ASSUME NEW p \in Players, NEW q \in Players', Player(p).sess = Player(q)'.sess
        PROVE  /\ Player(p).lastInputSeq <= Player(q)'.lastInputSeq
               /\ Player(q)'.lastInputSeq <= seq[Player(q)'.sess]
    <3>1. PICK r \in Rooms, i \in Seats : p = <<r, i>> /\ Sits(r, i)
      BY DEF Players, Sits
    <3>2. PICK x \in Rooms, j \in Seats : q = <<x, j>> /\ Sits(x, j)'
      BY DEF Players, Sits
    <3>3. /\ Player(p) = members[r][i] /\ Player(q)' = members'[x][j]
          /\ Sitter(r, i) = Sitter(x, j)'
      BY <2>1, <3>1, <3>2 DEF Player, Sitter
    <3>4. Follows(x, j)
      BY NextInputs DEF InputStep
    <3>5. \A y \in Rooms : Sitter(x, j)' \notin pendingJoin[y]
      BY <3>1, <3>3 DEF PlaceInv, OnePlace
    <3>6. PICK y \in Rooms, k \in Seats :
             /\ Sits(y, k) /\ Sitter(y, k) = Sitter(x, j)'
             /\ members[y][k].lastInputSeq <= members'[x][j].lastInputSeq
             /\ members'[x][j].lastInputSeq <= seq[Sitter(y, k)]
      BY <3>2, <3>4, <3>5 DEF Follows
    <3>7. y = r /\ k = i
      BY <3>1, <3>3, <3>6 DEF PlaceInv, OnePlace
    <3> QED BY <3>3, <3>6, <3>7 DEF Sitter
  <2> QED BY <2>1
<1>2. Spec => [][Ack]_vars
  BY <1>1, PlacesSound, InputsSound, PTL DEF Spec
<1> QED BY <1>2 DEF AckSound

--------------------------------------------------------------------------------
(* Server ticks in PONGs.                                                       *)

(* Session s waits for a seat of room r or has one.                             *)
At(s, r) == s \in pendingJoin[r] \/ \E i \in Seats : Sits(r, i) /\ Sitter(r, i) = s

(* A player's roomIdx names the live room in which it waits or sits.            *)
RoomIdxTrue == \A s \in Sess, r \in Rooms : inRoom[s] /\ roomIdx[s] = r => r \in live /\ At(s, r)

(* Who has not been moved yet sits where it sat when the move began.            *)
StillThere == \A r \in Rooms : Moving(r) => \A i \in Seats : i \notin game[r].moved => Sits(r, i)

Placed == RoomIdxTrue /\ StillThere

(* A step after which nobody is in another place, and the live rooms are live.  *)
LEMMA PlacedKept ==
    ASSUME PlaceInv, Placed, SameSitters, live \subseteq live',
           \A r \in Rooms : Moving(r)' => Moving(r) /\ game'[r].moved = game[r].moved,
           UNCHANGED <<inRoom, roomIdx, pendingJoin>>
    PROVE  Placed'
<1>1. ASSUME NEW s \in Sess, NEW r \in Rooms, At(s, r) PROVE At(s, r)'
  BY <1>1 DEF At, SameSitters
<1>2. \A s \in Sess : roomIdx[s] \in Rooms
  BY DEF PlaceInv, TypeOK
<1>3. RoomIdxTrue'
  BY <1>1, <1>2 DEF Placed, RoomIdxTrue
<1>4. StillThere'
  BY DEF Placed, StillThere, SameSitters
<1> QED BY <1>3, <1>4 DEF Placed

(* Join.                                                                        *)
LEMMA JoinPlaced ==
    ASSUME PlaceInv, Placed, NEW s \in Sess, Join(s)
    PROVE  Placed'
<1>1. PICK r \in Rooms :
         /\ \/ r \in live /\ UNCHANGED <<live, inQ, tickAtomic, members>>
            \/ AllocRoomSlotLocked(r)
         /\ roomIdx' = [roomIdx EXCEPT ![s] = r]
         /\ pendingJoin' = [pendingJoin EXCEPT ![r] = pendingJoin[r] \cup {s}]
  BY DEF Join
<1>2. SameSitters /\ live \subseteq live' /\ r \in live'
  <2>1. CASE r \in live /\ UNCHANGED <<live, inQ, tickAtomic, members>>
    BY <2>1 DEF SameSitters, Sits, Sitter
  <2>2. CASE AllocRoomSlotLocked(r)
    BY <2>2, AllocEffect DEF PlaceInv
  <2> QED BY <1>1, <2>1, <2>2
<1>3. inRoom' = [inRoom EXCEPT ![s] = TRUE] /\ game' = game
  BY DEF Join
<1>4. TypeOK
  BY DEF PlaceInv
<1>5. ASSUME NEW t \in Sess, NEW q \in Rooms, At(t, q) PROVE At(t, q)'
  BY <1>1, <1>2, <1>4, <1>5 DEF At, SameSitters, TypeOK
<1>6. At(s, r)' /\ roomIdx'[s] = r
  BY <1>1, <1>4 DEF At, TypeOK
<1>7. \A t \in Sess : t # s => inRoom'[t] = inRoom[t] /\ roomIdx'[t] = roomIdx[t] /\ roomIdx[t] \in Rooms
  BY <1>1, <1>3, <1>4 DEF TypeOK
<1>8. RoomIdxTrue'
  BY <1>2, <1>5, <1>6, <1>7 DEF Placed, RoomIdxTrue
<1>9. StillThere'
  BY <1>2, <1>3 DEF Placed, StillThere, SameSitters, Moving
<1> QED BY <1>8, <1>9 DEF Placed

(* ProcessRoomQueues: a player in a room is not among those who left.           *)
LEMMA QueuesPlaced ==
    ASSUME PlaceInv, Placed, NEW r \in Rooms, ProcessRoomQueues(r)
    PROVE  Placed'
<1>1. /\ \A q \in Rooms : q # r => pendingJoin'[q] = pendingJoin[q]
      /\ live' \subseteq live /\ live \ live' \subseteq {r}
      /\ r \notin live' => \A i \in Seats : ~members'[r][i].used
      /\ Gone(r) \subseteq leaving
      /\ game[r].pc = "queues" /\ game'[r].pc \in {"queues", "tick"}
      /\ \A q \in Rooms : q # r => game'[q] = game[q]
      /\ UNCHANGED <<inRoom, roomIdx, actorId>>
  BY QueuesSessions DEF PlaceInv
<1>2. /\ \A q \in Rooms : q # r => members'[q] = members[q]
      /\ \A i \in Seats : (\E s \in Sess : Arrives(r, i, s)) \/ Stays(r, i)
  BY QueuesEffect DEF PlaceInv
<1>0. StillThere'
  BY <1>1, <1>2 DEF Placed, StillThere, Moving, Sits
<1>3. SUFFICES ASSUME NEW s \in Sess, NEW q \in Rooms, inRoom[s], roomIdx[s] = q
               PROVE  q \in live' /\ At(s, q)'
  BY <1>0, <1>1 DEF Placed, RoomIdxTrue
<1>4. s \notin Gone(r)
  BY <1>1, <1>3 DEF PlaceInv, Present
<1>5. q \in live /\ At(s, q)
  BY <1>3 DEF Placed, RoomIdxTrue
<1>6. CASE q # r
  <2>1. q \in live'
    BY <1>1, <1>5, <1>6
  <2> QED BY <1>1, <1>2, <1>5, <1>6, <2>1 DEF At, Sits, Sitter
<1>7. CASE q = r
  <2>1. \E i \in Seats : Sits(r, i)' /\ Sitter(r, i)' = s
    <3>1. CASE s \in pendingJoin[r]
      <4>1. actorId[s] \in Seats
        BY DEF PlaceInv, TypeOK
      <4>2. ~Stays(r, actorId[s])
        BY <1>4, <3>1 DEF Stays
      <4>3. PICK t \in Sess : Arrives(r, actorId[s], t)
        BY <1>2, <4>1, <4>2
      <4>4. t = s
        BY <3>1, <4>3 DEF Arrives, PlaceInv, SeatsApart
      <4> QED BY <4>1, <4>3, <4>4 DEF Arrives, Fresh, Sits, Sitter
    <3>2. CASE s \notin pendingJoin[r]
      <4>1. PICK i \in Seats : Sits(r, i) /\ Sitter(r, i) = s
        BY <1>5, <1>7, <3>2 DEF At
      <4>2. ~\E t \in Sess : Arrives(r, i, t)
        BY <4>1 DEF Arrives, PlaceInv, SeatsApart
      <4>3. Stays(r, i)
        BY <1>2, <4>2
      <4> QED BY <1>4, <4>1, <4>3 DEF Stays, Sits, Sitter
    <3> QED BY <3>1, <3>2
  <2>2. r \in live'
    BY <1>1, <2>1 DEF Sits
  <2> QED BY <1>7, <2>1, <2>2 DEF At
<1> QED BY <1>6, <1>7

(* TransferMember: the member's session is told where it sits.                  *)
LEMMA MemberPlaced ==
    ASSUME PlaceInv, Placed, NEW r \in Rooms, NEW i \in Seats, TransferMember(r, i)
    PROVE  Placed'
<1>1. PICK n \in Rooms :
         /\ Moving(r) /\ game[r].nr = n /\ n # r /\ i \notin game[r].moved
         /\ \A q \in Rooms : \A j \in Seats :
               <<q, j>> \notin {<<r, i>>, <<n, i>>} => members'[q][j] = members[q][j]
         /\ members'[n][i] = members[r][i] /\ ~members'[r][i].used
         /\ game'[r].moved = game[r].moved \cup {i}
         /\ \A q \in Rooms : q # r => game'[q] = game[q]
  BY MemberMoves DEF PlaceInv
<1>2. UNCHANGED <<gen, inRoom, live, pendingJoin>>
  BY DEF TransferMember
<1>3. /\ n \in live /\ \A j \in Seats : Sits(n, j) => j \in game[r].moved
      /\ \A q \in Rooms : Moving(q) => q = r
      /\ Sits(r, i)
  BY <1>1 DEF PlaceInv, MoveSound, Placed, StillThere
<1> DEFINE m == members[r][i]
<1>4. roomIdx' = [roomIdx EXCEPT ![m.sess] = IF gen[m.sess] = m.gen THEN n ELSE roomIdx[m.sess]]
  BY <1>1 DEF TransferMember
<1>5. TypeOK /\ m.sess = Sitter(r, i)
  BY DEF PlaceInv, Sitter
<1> HIDE DEF m
<1>0. StillThere'
  <2>1. ASSUME NEW q \in Rooms, Moving(q)', NEW j \in Seats, j \notin game'[q].moved PROVE Sits(q, j)'
    <3>1. q = r
      BY <1>1, <1>3, <2>1 DEF Moving
    <3>2. j # i /\ j \notin game[r].moved
      BY <1>1, <2>1, <3>1
    <3> QED BY <1>1, <3>1, <3>2 DEF Placed, StillThere, Sits
  <2> QED BY <2>1 DEF StillThere
<1>6. SUFFICES ASSUME NEW s \in Sess, NEW q \in Rooms, inRoom[s], roomIdx'[s] = q
               PROVE  q \in live /\ At(s, q)'
  BY <1>0, <1>2 DEF Placed, RoomIdxTrue
<1>8. CASE s = Sitter(r, i)
  <2>1. gen[s] = m.gen
    BY <1>3, <1>8 DEF PlaceInv, Present, m
  <2>2. q = n
    BY <1>4, <1>6, <1>5, <1>8, <2>1 DEF TypeOK
  <2>3. Sits(n, i)' /\ Sitter(n, i)' = s
    BY <1>1, <1>3, <1>8 DEF Sits, Sitter
  <2> QED BY <1>3, <2>2, <2>3 DEF At
<1>9. CASE s # Sitter(r, i)
  <2>1. roomIdx[s] = q
    BY <1>4, <1>5, <1>6, <1>9 DEF TypeOK
  <2>2. q \in live /\ At(s, q)
    BY <1>6, <2>1 DEF Placed, RoomIdxTrue
  <2>3. CASE s \in pendingJoin[q]
    BY <1>2, <2>2, <2>3 DEF At
  <2>4. CASE s \notin pendingJoin[q]
    <3>1. PICK j \in Seats : Sits(q, j) /\ Sitter(q, j) = s
      BY <2>2, <2>4 DEF At
    <3>2. <<q, j>> \notin {<<r, i>>, <<n, i>>}
      BY <1>1, <1>3, <1>9, <3>1
    <3> QED BY <1>1, <2>2, <3>1, <3>2 DEF At, Sits, Sitter
  <2> QED BY <2>3, <2>4
<1> QED BY <1>8, <1>9

(* TransferRoom ends: nobody sits in the old room any more, and the joins are   *)
(* told where they wait.                                                        *)
LEMMA EndPlaced ==
    ASSUME PlaceInv, Placed, NEW r \in Rooms, TransferEnd(r)
    PROVE  Placed'
<1>1. PICK n \in Rooms :
         /\ game[r].nr = n /\ Moving(r) /\ game[r].moved = Seats
         /\ roomIdx' = [s \in Sess |-> IF s \in pendingJoin[r] THEN n ELSE roomIdx[s]]
         /\ pendingJoin' = [pendingJoin EXCEPT ![r] = {}, ![n] = pendingJoin[r]]
         /\ live' = live \ {r}
         /\ game' = [game EXCEPT ![r] = Ticked(r), ![n] = Ticked(n)]
         /\ UNCHANGED <<inRoom, members>>
  BY DEF TransferEnd, Moving, PlaceInv, TypeOK
<1>2. /\ n # r /\ n \in live /\ pendingJoin[n] = {} /\ \A j \in Seats : ~Sits(r, j)
      /\ \A q \in Rooms : Moving(q) => q = r
  BY <1>1 DEF PlaceInv, MoveSound
<1>3. TypeOK
  BY DEF PlaceInv
<1>4. StillThere'
  BY <1>1, <1>2, <1>3, FramesType DEF StillThere, Moving, TypeOK
<1>5. ASSUME NEW s \in Sess, NEW q \in Rooms, inRoom[s], roomIdx'[s] = q
      PROVE  q \in live' /\ At(s, q)'
  <2>1. \A p \in Rooms : roomIdx[s] = p => p \in live /\ At(s, p)
    BY <1>5 DEF Placed, RoomIdxTrue
  <2>2. CASE s \in pendingJoin[r]
    <3>1. q = n /\ s \in pendingJoin'[n]
      BY <1>1, <1>2, <1>3, <1>5, <2>2 DEF TypeOK
    <3> QED BY <1>1, <1>2, <3>1 DEF At
  <2>3. CASE s \notin pendingJoin[r]
    <3>1. roomIdx[s] = q
      BY <1>1, <1>5, <2>3
    <3>2. q \in live /\ At(s, q) /\ q # r
      BY <1>2, <2>1, <2>3, <3>1 DEF At
    <3>3. s \in pendingJoin[q] => s \in pendingJoin'[q]
      BY <1>1, <1>2, <1>3, <3>2 DEF TypeOK
    <3> QED BY <1>1, <3>2, <3>3 DEF At, Sits, Sitter
  <2> QED BY <2>2, <2>3
<1> QED BY <1>1, <1>4, <1>5 DEF Placed, RoomIdxTrue

(* Every step leaves roomIdx true.                                              *)
LEMMA PlacedStep == PlaceInv /\ Placed /\ [Next]_vars => Placed'
<1> SUFFICES ASSUME PlaceInv, Placed, [Next]_vars PROVE Placed'
  OBVIOUS
<1>0. TypeOK
  BY DEF PlaceInv
<1>1. ASSUME UNCHANGED <<inRoom, roomIdx, live, pendingJoin, members>>,
             \A r \in Rooms : Moving(r)' => Moving(r) /\ game'[r].moved = game[r].moved
      PROVE  Placed'
  <2>1. SameSitters
    BY <1>1 DEF SameSitters, Sits, Sitter
  <2> QED BY <1>1, <2>1, PlacedKept
<1>2. ASSUME NEW r \in Rooms, GameStep(r) PROVE Placed'
  <2>1. CASE ProcessRoomQueues(r)
    BY <2>1, QueuesPlaced
  <2>2. CASE RoomTick(r)
    <3>1. SameSitters /\ UNCHANGED <<inRoom, roomIdx, live, pendingJoin>>
      BY <1>0, <2>2, TickEffect DEF RoomTick, sessVars
    <3>2. \A q \in Rooms : Moving(q)' => Moving(q) /\ game'[q].moved = game[q].moved
      BY <1>0, <2>2 DEF RoomTick, Moving, TypeOK
    <3> QED BY <3>1, <3>2, PlacedKept
  <2>3. CASE TransferFails(r)
    <3>1. game' = [game EXCEPT ![r] = Ticked(r)] /\ UNCHANGED <<inRoom, roomIdx, live, pendingJoin, members>>
      BY <2>3 DEF TransferFails, sessVars, roomVars
    <3> QED BY <1>0, <1>1, <3>1, FramesType DEF Moving, TypeOK
  <2>4. ASSUME NEW n \in Rooms, TransferBegin(r, n) PROVE Placed'
    <3>1. /\ game' = [game EXCEPT ![r] = [pc |-> "move", nr |-> n, moved |-> Seats \ Used(r)]]
          /\ AllocRoomSlotLocked(n) /\ UNCHANGED <<inRoom, roomIdx, pendingJoin>>
      BY <2>4 DEF TransferBegin, sessVars
    <3>2. SameSitters /\ live \subseteq live'
      BY <3>1, AllocEffect DEF PlaceInv
    <3>3. RoomIdxTrue'
      <4>1. ASSUME NEW s \in Sess, NEW q \in Rooms, At(s, q) PROVE At(s, q)'
        BY <3>1, <3>2, <4>1 DEF At, SameSitters
      <4> QED BY <1>0, <3>1, <3>2, <4>1 DEF Placed, RoomIdxTrue, TypeOK
    <3>4. StillThere'
      <4>1. ASSUME NEW q \in Rooms, Moving(q)', NEW i \in Seats, i \notin game'[q].moved PROVE Sits(q, i)'
        <5>1. CASE q = r
          BY <1>0, <3>1, <3>2, <4>1, <5>1 DEF Used, Sits, SameSitters, TypeOK
        <5>2. CASE q # r
          BY <1>0, <3>1, <3>2, <4>1, <5>2 DEF Placed, StillThere, Moving, SameSitters, TypeOK
        <5> QED BY <5>1, <5>2
      <4> QED BY <4>1 DEF StillThere
    <3> QED BY <3>3, <3>4 DEF Placed
  <2>5. ASSUME NEW i \in Seats, TransferMember(r, i) PROVE Placed'
    BY <2>5, MemberPlaced
  <2>6. CASE TransferEnd(r)
    BY <2>6, EndPlaced
  <2> QED BY <1>2, <2>1, <2>2, <2>3, <2>4, <2>5, <2>6 DEF GameStep
<1>3. ASSUME NEW s \in Sess, SessStep(s) PROVE Placed'
  <2>1. CASE Join(s)
    BY <2>1, JoinPlaced
  <2>2. CASE OnSessionLeave(s)
    <3>1. /\ inRoom' = [inRoom EXCEPT ![s] = FALSE]
          /\ UNCHANGED <<roomIdx, live, pendingJoin, members, game>>
      BY <2>2 DEF OnSessionLeave, roomVars
    <3> QED BY <1>0, <3>1 DEF Placed, RoomIdxTrue, StillThere, Moving, At, Sits, Sitter, TypeOK
  <2>3. CASE LoadRoom(s, "push") \/ LoadRoom(s, "ping") \/ GetPingInfo(s) \/ \E d \in Dirs : PushInput(s, d)
    <3>1. UNCHANGED <<inRoom, roomIdx, live, pendingJoin, members, game>>
      BY <2>3 DEF LoadRoom, GetPingInfo, PushInput, sessVars, roomVars
    <3> QED BY <1>1, <3>1 DEF Moving
  <2> QED BY <1>3, <2>1, <2>2, <2>3 DEF SessStep
<1>4. CASE UNCHANGED vars
  BY <1>1, <1>4 DEF vars, sessVars, roomVars, Moving
<1> QED BY <1>2, <1>3, <1>4 DEF Next

(* A player's roomIdx names a live room in which it waits or sits, through any  *)
(* number of moves: the room that its inputs and pings go to is its own, but    *)
(* for the time between LoadRoom and the use of what was loaded.                *)
THEOREM RoomIdxHolds == Spec => []RoomIdxTrue
<1>1. Init => Placed
  BY DEF Init, Placed, RoomIdxTrue, StillThere, Moving, Ticked
<1>2. Spec => []Placed
  BY <1>1, PlacedStep, PlacesSound, PTL DEF Spec
<1> QED BY <1>2, PTL DEF Placed

(* The room of player s, and the room that a GetPingInfo in progress has read.  *)
From(s, r)  == inRoom[s] /\ roomIdx[s] = r
Pings(s, p) == op[s].pc = "ping" /\ op[s].room = p
MovesTo(p, r) == game[p].pc = "move" /\ game[p].nr = r

(* Room q's counter is the one that room r's party goes on with: its own, or    *)
(* that of the room from which a party is moving in.                            *)
Clock(q, r) == IF Target(r) THEN MovesTo(q, r) ELSE q = r

(* A GetPingInfo that has read its room meets it as it was: the slot is not     *)
(* handed out again, and it is not one into which a party is moving.  Neither   *)
(* is seen to by the code (RoomManager.cpp: GetPingInfo, TransferRoom).         *)
PingsSteady ==
    \A s \in Sess : op[s].pc = "ping" =>
        op[s].room \notin live' \ live /\ (GetPingInfo(s) => ~Target(op[s].room))

(* The room p that a ping of s has read is dead: its counter has stopped         *)
(* between what s was last told and the counter of s's room r.                   *)
Stopped(s, p, r) ==
    /\ p \notin live /\ lastPong[s] <= tickAtomic[p]
    /\ \A q \in Rooms : Clock(q, r) => tickAtomic[p] <= tickAtomic[q]

(* The inductive invariant of PongMonotone.                                     *)
PongSound ==
    /\ \A s \in Sess, r, q \in Rooms : From(s, r) /\ Clock(q, r) => lastPong[s] <= tickAtomic[q]
    /\ \A s \in Sess, p, r \in Rooms :
          Pings(s, p) /\ From(s, r) => p = r \/ MovesTo(p, r) \/ Stopped(s, p, r)
    /\ \A s \in Sess : inRoom[s] \/ s \in leaving \/ lastPong[s] = 0

(* A step that moves no session and turns no clock back that a session goes by. *)
LEMMA PongQuiet ==
    ASSUME TypeOK, TypeOK', PongSound,
           \A s \in Sess :
              \/ lastPong'[s] = 0
              \/ lastPong'[s] = lastPong[s] /\ (inRoom[s] \/ s \in leaving => inRoom'[s] \/ s \in leaving'),
           \A s \in Sess, r \in Rooms :
              From(s, r)' => \/ From(s, r)
                             \/ lastPong'[s] = 0 /\ op'[s].pc # "ping",
           \A s \in Sess, r, q \in Rooms :
              From(s, r)' /\ From(s, r) /\ Clock(q, r)' => Clock(q, r) /\ tickAtomic[q] <= tickAtomic'[q],
           \A s \in Sess, p, r \in Rooms : Pings(s, p)' /\ From(s, r)' =>
              \/ p = r
              \/ /\ Pings(s, p) /\ From(s, r) /\ (MovesTo(p, r) => MovesTo(p, r)')
                 /\ p \notin live => p \notin live' /\ tickAtomic'[p] = tickAtomic[p]
    PROVE  PongSound'
<1>1. \A s \in Sess : lastPong[s] \in Nat /\ lastPong'[s] \in Nat
  BY DEF TypeOK
<1>2. \A r \in Rooms : tickAtomic[r] \in Nat /\ tickAtomic'[r] \in Nat
  BY DEF TypeOK
<1>3. ASSUME NEW s \in Sess, NEW r \in Rooms, NEW q \in Rooms, From(s, r)', Clock(q, r)'
      PROVE  lastPong'[s] <= tickAtomic'[q]
  <2>1. CASE lastPong'[s] = 0
    BY <1>2, <2>1
  <2>2. CASE lastPong'[s] # 0
    <3>1. From(s, r) /\ Clock(q, r) /\ tickAtomic[q] <= tickAtomic'[q] /\ lastPong'[s] = lastPong[s]
      BY <1>3, <2>2
    <3>2. lastPong[s] <= tickAtomic[q]
      BY <3>1 DEF PongSound
    <3> QED BY <1>1, <1>2, <3>1, <3>2
  <2> QED BY <2>1, <2>2
<1>4. ASSUME NEW s \in Sess, NEW p \in Rooms, NEW r \in Rooms, Pings(s, p)', From(s, r)', p # r,
             ~MovesTo(p, r)'
      PROVE  Stopped(s, p, r)'
  <2>1. /\ Pings(s, p) /\ From(s, r) /\ ~MovesTo(p, r)
        /\ p \notin live => p \notin live' /\ tickAtomic'[p] = tickAtomic[p]
    BY <1>4
  <2>2. Stopped(s, p, r)
    BY <1>4, <2>1 DEF PongSound
  <2>3. p \notin live' /\ tickAtomic'[p] = tickAtomic[p]
    BY <2>1, <2>2 DEF Stopped
  <2>4. lastPong'[s] <= tickAtomic'[p]
    BY <1>1, <1>2, <2>2, <2>3 DEF Stopped
  <2>5. ASSUME NEW q \in Rooms, Clock(q, r)' PROVE tickAtomic'[p] <= tickAtomic'[q]
    <3>1. Clock(q, r) /\ tickAtomic[q] <= tickAtomic'[q]
      BY <1>4, <2>1, <2>5
    <3>2. tickAtomic[p] <= tickAtomic[q]
      BY <2>2, <3>1 DEF Stopped
    <3> QED BY <1>2, <2>3, <3>1, <3>2
  <2> QED BY <2>3, <2>4, <2>5 DEF Stopped
<1>5. \A s \in Sess : inRoom'[s] \/ s \in leaving' \/ lastPong'[s] = 0
  BY DEF PongSound
<1> QED BY <1>3, <1>4, <1>5 DEF PongSound

(* A room slot that is handed out is nobody's room, and no ping's.              *)
LEMMA AllocPongs ==
    ASSUME PlaceInv, Placed, PingsSteady, NEW n \in Rooms, AllocRoomSlotLocked(n)
    PROVE  /\ \A s \in Sess : ~From(s, n) /\ ~Pings(s, n)
           /\ \A q \in Rooms : q # n => tickAtomic'[q] = tickAtomic[q]
           /\ live' = live \cup {n} /\ n \notin live
<1>1. n \notin live /\ live' = live \cup {n}
  BY DEF AllocRoomSlotLocked
<1>2. \A q \in Rooms : q # n => tickAtomic'[q] = tickAtomic[q]
  BY DEF AllocRoomSlotLocked, PlaceInv, TypeOK
<1>3. \A s \in Sess : ~Pings(s, n)
  BY <1>1 DEF PingsSteady, Pings
<1>4. \A s \in Sess : ~From(s, n)
  BY <1>1 DEF From, Placed, RoomIdxTrue
<1> QED BY <1>1, <1>2, <1>3, <1>4

(* Join: a new player has been told nothing yet.                                *)
LEMMA JoinPongs ==
    ASSUME PlaceInv, PlaceInv', Placed, PongSound, PingsSteady, NEW s \in Sess, Join(s)
    PROVE  PongSound'
<1>0. TypeOK /\ TypeOK'
  BY DEF PlaceInv
<1>1. PICK n \in Rooms :
         /\ UNCHANGED <<live, inQ, tickAtomic, members>> \/ AllocRoomSlotLocked(n)
         /\ roomIdx' = [roomIdx EXCEPT ![s] = n]
  BY DEF Join
<1>2. /\ op[s].pc = "idle" /\ ~inRoom[s] /\ s \notin leaving
      /\ inRoom' = [inRoom EXCEPT ![s] = TRUE]
      /\ UNCHANGED <<op, leaving, game, lastPong>>
  BY DEF Join
<1>3. lastPong'[s] = 0
  BY <1>2 DEF PongSound
<1>4. \A t \in Sess, r \in Rooms : t # s => (From(t, r)' <=> From(t, r))
  BY <1>0, <1>1, <1>2 DEF From, TypeOK
<1>5. /\ \A p, r \in Rooms : (MovesTo(p, r)' <=> MovesTo(p, r)) /\ (Clock(p, r)' <=> Clock(p, r))
      /\ \A t \in Sess, p \in Rooms : Pings(t, p)' <=> Pings(t, p)
  BY <1>2 DEF MovesTo, Clock, Target, Pings
<1>6. \A r \in Rooms : tickAtomic[r] \in Nat /\ tickAtomic'[r] \in Nat
  BY <1>0 DEF TypeOK
<1>7. CASE AllocRoomSlotLocked(n)
  <2>1. /\ \A t \in Sess : ~From(t, n) /\ ~Pings(t, n)
        /\ \A q \in Rooms : q # n => tickAtomic'[q] = tickAtomic[q]
        /\ live' = live \cup {n} /\ n \notin live
    BY <1>7, AllocPongs
  <2>2. \A q, r \in Rooms : Clock(q, r) /\ r # n => q # n
    (* Nobody is moving from a slot that was free.                              *)
    <3>1. game[n].pc # "move"
      BY <2>1 DEF PlaceInv, FreeRooms
    <3> QED BY <3>1 DEF Clock, MovesTo
  <2>3. \A t \in Sess, r, q \in Rooms :
           From(t, r) /\ Clock(q, r)' => Clock(q, r) /\ tickAtomic[q] <= tickAtomic'[q]
    BY <1>5, <1>6, <2>1, <2>2
  <2>4. \A t \in Sess, p \in Rooms : Pings(t, p)' =>
           t # s /\ Pings(t, p) /\ (p \notin live => p \notin live' /\ tickAtomic'[p] = tickAtomic[p])
    BY <1>2, <1>5, <2>1 DEF Pings
  <2> QED BY <1>0, <1>2, <1>3, <1>4, <1>5, <2>3, <2>4, PongQuiet
<1>8. CASE UNCHANGED <<live, tickAtomic>>
  <2>1. \A t \in Sess, r, q \in Rooms : Clock(q, r)' => Clock(q, r) /\ tickAtomic[q] <= tickAtomic'[q]
    BY <1>5, <1>6, <1>8
  <2>2. \A t \in Sess, p \in Rooms : Pings(t, p)' => t # s /\ Pings(t, p)
    BY <1>2, <1>5 DEF Pings
  <2> QED BY <1>0, <1>2, <1>3, <1>4, <1>5, <1>8, <2>1, <2>2, PongQuiet
<1> QED BY <1>1, <1>7, <1>8

(* A step that changes no counter backwards, no move and no room.               *)
LEMMA PongStill ==
    ASSUME TypeOK, TypeOK', PongSound,
           \A p \in Rooms : /\ game'[p].pc = "move" <=> game[p].pc = "move"
                            /\ game[p].pc = "move" => game'[p].nr = game[p].nr
                            /\ tickAtomic[p] <= tickAtomic'[p]
                            /\ p \notin live => p \notin live' /\ tickAtomic'[p] = tickAtomic[p],
           \A s \in Sess : /\ inRoom'[s] => inRoom[s] /\ roomIdx'[s] = roomIdx[s]
                           /\ op'[s].pc = "ping" => op'[s] = op[s] \/ op'[s].room = roomIdx[s]
                           /\ \/ lastPong'[s] = 0
                              \/ /\ lastPong'[s] = lastPong[s]
                                 /\ inRoom[s] \/ s \in leaving => inRoom'[s] \/ s \in leaving'
    PROVE  PongSound'
<1>1. \A p, r \in Rooms : (MovesTo(p, r)' <=> MovesTo(p, r)) /\ (Clock(p, r)' <=> Clock(p, r))
  BY DEF MovesTo, Clock, Target
<1>2. \A s \in Sess, r \in Rooms : From(s, r)' => From(s, r)
  BY DEF From
<1>3. \A s \in Sess, p, r \in Rooms : Pings(s, p)' /\ From(s, r)' => p = r \/ Pings(s, p)
  BY DEF Pings, From
<1> QED BY <1>1, <1>2, <1>3, PongQuiet

(* TransferBegin: the new slot's clock is that of the room that moves in.       *)
LEMMA BeginPongs ==
    ASSUME PlaceInv, PlaceInv', Placed, PongSound, PingsSteady, NEW r \in Rooms, NEW n \in Rooms,
           TransferBegin(r, n)
    PROVE  PongSound'
<1>0. TypeOK /\ TypeOK'
  BY DEF PlaceInv
<1>1. /\ ~MgrLockHeld /\ AllocRoomSlotLocked(n)
      /\ game' = [game EXCEPT ![r] = [pc |-> "move", nr |-> n, moved |-> Seats \ Used(r)]]
      /\ UNCHANGED <<inRoom, roomIdx, op, leaving, lastPong>>
  BY DEF TransferBegin, sessVars
<1>2. /\ \A t \in Sess : ~From(t, n) /\ ~Pings(t, n)
      /\ \A q \in Rooms : q # n => tickAtomic'[q] = tickAtomic[q]
      /\ live' = live \cup {n} /\ n \notin live
  BY <1>1, AllocPongs
<1>3. /\ \A p, q \in Rooms : ~MovesTo(p, q)
      /\ \A p, q \in Rooms : MovesTo(p, q)' => p = r /\ q = n
  <2>1. \A p, q \in Rooms : ~MovesTo(p, q)
    BY <1>1 DEF MgrLockHeld, MovesTo
  <2>2. game'[r].nr = n /\ \A p \in Rooms : p # r => game'[p] = game[p]
    BY <1>0, <1>1 DEF TypeOK
  <2> QED BY <2>1, <2>2 DEF MovesTo
<1>4. \A p, q \in Rooms : q # n => (Clock(p, q) <=> p = q) /\ (Clock(p, q)' <=> p = q)
  BY <1>3 DEF Clock, Target, MovesTo
<1>5. \A t \in Sess, q \in Rooms : (From(t, q)' <=> From(t, q)) /\ (Pings(t, q)' <=> Pings(t, q))
  BY <1>1 DEF From, Pings
<1>6. \A q \in Rooms : tickAtomic[q] \in Nat /\ tickAtomic'[q] \in Nat
  BY <1>0 DEF TypeOK
<1>7. \A s \in Sess, p, q \in Rooms :
         From(s, p)' /\ Clock(q, p)' => Clock(q, p) /\ tickAtomic[q] <= tickAtomic'[q]
  BY <1>2, <1>4, <1>5, <1>6
<1>8. \A s \in Sess, p \in Rooms :
         Pings(s, p)' => Pings(s, p) /\ (p \notin live => p \notin live' /\ tickAtomic'[p] = tickAtomic[p])
  BY <1>2, <1>5
<1> QED BY <1>0, <1>1, <1>3, <1>5, <1>7, <1>8, PongQuiet

(* TransferMember: the member's clock is that of the room it leaves, as before. *)
LEMMA MemberPongs ==
    ASSUME PlaceInv, PlaceInv', Placed, PongSound, NEW r \in Rooms, NEW i \in Seats, TransferMember(r, i)
    PROVE  PongSound'
<1>0. TypeOK /\ TypeOK'
  BY DEF PlaceInv
<1>1. PICK n \in Rooms :
         /\ Moving(r) /\ game[r].nr = n /\ n # r /\ i \notin game[r].moved
         /\ game'[r].pc = "move" /\ game'[r].nr = n
         /\ \A q \in Rooms : q # r => game'[q] = game[q]
  BY MemberMoves DEF PlaceInv
<1>2. UNCHANGED <<gen, inRoom, op, leaving, live, tickAtomic, lastPong>>
  BY DEF TransferMember
<1>3. /\ \A p, q \in Rooms : (MovesTo(p, q)' <=> MovesTo(p, q)) /\ (Clock(p, q)' <=> Clock(p, q))
      /\ \A s \in Sess, p \in Rooms : Pings(s, p)' <=> Pings(s, p)
  BY <1>1, <1>2 DEF MovesTo, Clock, Target, Pings, Moving
<1>4. /\ \A p, q \in Rooms : MovesTo(p, q) <=> p = r /\ q = n
      /\ \A q \in Rooms : (Clock(q, n) <=> q = r) /\ (Clock(q, r) <=> q = r)
  <2>1. \A p \in Rooms : Moving(p) => p = r
    BY <1>1 DEF PlaceInv, MoveSound
  <2> QED BY <1>1, <2>1 DEF MovesTo, Clock, Target, Moving
<1>5. Sits(r, i)
  BY <1>1 DEF Placed, StillThere
<1> DEFINE m == members[r][i]
<1>6. /\ roomIdx' = [roomIdx EXCEPT ![m.sess] = IF gen[m.sess] = m.gen THEN n ELSE roomIdx[m.sess]]
      /\ m.sess = Sitter(r, i)
  BY <1>1 DEF TransferMember, Sitter
<1> HIDE DEF m
<1>7. ASSUME NEW s \in Sess, NEW q \in Rooms, From(s, q)', ~From(s, q) PROVE q = n /\ From(s, r)
  <2>1. s = m.sess /\ q = n
    BY <1>0, <1>2, <1>6, <1>7 DEF From, TypeOK
  <2>2. PICK p \in Rooms : roomIdx[s] = p /\ At(s, p)
    BY <1>0, <1>2, <1>7 DEF From, Placed, RoomIdxTrue, TypeOK
  <2>3. p = r
    BY <1>5, <1>6, <2>1, <2>2 DEF At, PlaceInv, OnePlace
  <2> QED BY <1>2, <1>7, <2>1, <2>2, <2>3 DEF From
<1>8. ASSUME NEW s \in Sess, NEW q \in Rooms, NEW x \in Rooms, From(s, q)', Clock(x, q)
      PROVE  lastPong[s] <= tickAtomic[x]
  BY <1>4, <1>7, <1>8 DEF PongSound
<1>9. ASSUME NEW s \in Sess, NEW p \in Rooms, NEW q \in Rooms, Pings(s, p), From(s, q)'
      PROVE  p = q \/ MovesTo(p, q) \/ Stopped(s, p, q)
  <2>1. CASE From(s, q)
    BY <1>9, <2>1 DEF PongSound
  <2>2. CASE ~From(s, q)
    <3>1. q = n /\ From(s, r)
      BY <1>7, <1>9, <2>2
    <3>2. p = r \/ MovesTo(p, r) \/ Stopped(s, p, r)
      BY <1>9, <3>1 DEF PongSound
    <3> QED BY <1>1, <1>4, <3>1, <3>2 DEF Stopped
  <2> QED BY <2>1, <2>2
<1>10. \A s \in Sess, p, q \in Rooms : Stopped(s, p, q)' <=> Stopped(s, p, q)
  BY <1>2, <1>3 DEF Stopped
<1>11. \A s \in Sess, p, q \in Rooms : Pings(s, p)' /\ From(s, q)' => p = q \/ MovesTo(p, q)' \/ Stopped(s, p, q)'
  BY <1>3, <1>9, <1>10
<1>12. \A s \in Sess, q, x \in Rooms : From(s, q)' /\ Clock(x, q)' => lastPong'[s] <= tickAtomic'[x]
  BY <1>2, <1>3, <1>8
<1>13. \A s \in Sess : inRoom'[s] \/ s \in leaving' \/ lastPong'[s] = 0
  BY <1>2 DEF PongSound
<1> QED BY <1>11, <1>12, <1>13 DEF PongSound

(* TransferRoom ends: the counter goes on in the new room, and stops in the old.*)
LEMMA EndPongs ==
    ASSUME PlaceInv, PlaceInv', Placed, PongSound, NEW r \in Rooms, TransferEnd(r)
    PROVE  PongSound'
<1>0. TypeOK /\ TypeOK'
  BY DEF PlaceInv
<1>1. PICK n \in Rooms :
         /\ game[r].nr = n /\ Moving(r) /\ game[r].moved = Seats
         /\ tickAtomic' = [tickAtomic EXCEPT ![n] = tickAtomic[r]]
         /\ roomIdx' = [s \in Sess |-> IF s \in pendingJoin[r] THEN n ELSE roomIdx[s]]
         /\ live' = live \ {r}
         /\ game' = [game EXCEPT ![r] = Ticked(r), ![n] = Ticked(n)]
         /\ UNCHANGED <<inRoom, op, leaving, lastPong>>
  <2>1. game[r].nr \in Rooms
    BY <1>0 DEF TypeOK
  <2> QED BY <2>1 DEF TransferEnd, CarriedTick, Moving
<1>2. /\ n # r /\ n \in live /\ r \in live /\ \A j \in Seats : ~Sits(r, j)
      /\ \A q \in Rooms : Moving(q) => q = r
  BY <1>1 DEF PlaceInv, MoveSound
<1>3. /\ \A p, q \in Rooms : (MovesTo(p, q) <=> p = r /\ q = n) /\ ~MovesTo(p, q)'
      /\ \A q, x \in Rooms : (Clock(x, q) <=> x = IF q = n THEN r ELSE q) /\ (Clock(x, q)' <=> x = q)
      /\ \A s \in Sess, p \in Rooms : Pings(s, p)' <=> Pings(s, p)
  <2>1. \A p, q \in Rooms : (MovesTo(p, q) <=> p = r /\ q = n) /\ ~MovesTo(p, q)'
    <3>1. /\ game'[r].pc = "queues" /\ game'[n].pc = "queues"
          /\ \A q \in Rooms : q \notin {r, n} => game'[q] = game[q]
      BY <1>0, <1>1, <1>2, FramesType DEF TypeOK
    <3> QED BY <1>1, <1>2, <3>1 DEF MovesTo, Moving
  <2>2. \A q \in Rooms : (Target(q) <=> q = n) /\ ~Target(q)'
    BY <2>1 DEF Target, MovesTo
  <2> QED BY <1>1, <2>1, <2>2 DEF Clock, Pings
<1>4. tickAtomic'[n] = tickAtomic[r] /\ \A q \in Rooms : q # n => tickAtomic'[q] = tickAtomic[q]
  BY <1>0, <1>1 DEF TypeOK
<1>5. ASSUME NEW s \in Sess, NEW q \in Rooms, From(s, q)'
      PROVE  q # r /\ (From(s, q) \/ (q = n /\ From(s, r)))
  <2>0. inRoom[s] /\ \A p \in Rooms : roomIdx[s] = p => At(s, p)
    BY <1>1, <1>5 DEF From, Placed, RoomIdxTrue
  <2>1. CASE s \in pendingJoin[r]
    <3>1. q = n
      BY <1>1, <1>5, <2>1 DEF From
    <3>2. PICK p \in Rooms : roomIdx[s] = p /\ At(s, p)
      BY <1>0, <2>0 DEF TypeOK
    <3>3. p = r
      BY <2>1, <3>2 DEF At, PlaceInv, OnePlace
    <3> QED BY <1>2, <2>0, <3>1, <3>2, <3>3 DEF From
  <2>2. CASE s \notin pendingJoin[r]
    <3>1. roomIdx[s] = q
      BY <1>1, <1>5, <2>2 DEF From
    <3> QED BY <1>2, <2>0, <2>2, <3>1 DEF At, From
  <2> QED BY <2>1, <2>2
<1>6. ASSUME NEW s \in Sess, NEW q \in Rooms, From(s, q)' PROVE lastPong'[s] <= tickAtomic'[q]
  BY <1>1, <1>2, <1>3, <1>4, <1>5, <1>6 DEF PongSound
<1>7. ASSUME NEW s \in Sess, NEW p \in Rooms, NEW q \in Rooms, Pings(s, p)', From(s, q)', p # q
      PROVE  Stopped(s, p, q)'
  <2>1. PICK b \in Rooms : From(s, b) /\ (b = q \/ (q = n /\ b = r)) /\ q # r
    BY <1>5, <1>7
  <2>2. Pings(s, p) /\ (p = b \/ MovesTo(p, b) \/ Stopped(s, p, b))
    BY <1>3, <1>7, <2>1 DEF PongSound
  <2>3. CASE p = r
    <3>1. q = n
      BY <1>2, <1>3, <2>1, <2>2, <2>3 DEF Stopped
    <3>2. lastPong[s] <= tickAtomic[r]
      BY <1>2, <1>3, <2>1, <3>1 DEF PongSound
    <3>3. tickAtomic[r] \in Nat
      BY <1>0 DEF TypeOK
    <3> QED BY <1>1, <1>2, <1>3, <1>4, <2>3, <3>1, <3>2, <3>3 DEF Stopped
  <2>4. CASE p # r
    <3>1. Stopped(s, p, b) /\ p # n
      BY <1>2, <1>3, <1>7, <2>1, <2>2, <2>4 DEF Stopped
    <3>2. tickAtomic[p] <= tickAtomic'[q]
      BY <1>2, <1>3, <1>4, <2>1, <3>1 DEF Stopped
    <3> QED BY <1>1, <1>3, <1>4, <3>1, <3>2 DEF Stopped
  <2> QED BY <2>3, <2>4
<1>8. \A s \in Sess : inRoom'[s] \/ s \in leaving' \/ lastPong'[s] = 0
  BY <1>1 DEF PongSound
<1> QED BY <1>3, <1>6, <1>7, <1>8 DEF PongSound

(* GetPingInfo: the tick it tells is not behind what it told before, and not    *)
(* ahead of the player's room.                                                  *)
LEMMA PingPongs ==
    ASSUME PlaceInv, PongSound, PingsSteady, NEW s \in Sess, GetPingInfo(s)
    PROVE  PongSound' /\ lastPong[s] <= lastPong'[s] /\ \A t \in Sess : t # s => lastPong'[t] = lastPong[t]
<1>0. TypeOK
  BY DEF PlaceInv
<1>1. PICK p \in Rooms : p = op[s].room
  BY <1>0 DEF TypeOK
<1>2. /\ Pings(s, p) /\ inRoom[s] /\ ~Target(p) /\ op' = [op EXCEPT ![s] = Idle]
      /\ lastPong' = [lastPong EXCEPT ![s] = tickAtomic[p]]
      /\ UNCHANGED <<inRoom, roomIdx, leaving, live, tickAtomic, game>>
  BY <1>1 DEF GetPingInfo, PingsSteady, Pings, PlaceInv, Present, sessVars, roomVars
<1>3. /\ lastPong'[s] = tickAtomic[p] /\ \A t \in Sess : t # s => lastPong'[t] = lastPong[t]
      /\ op'[s].pc = "idle" /\ \A t \in Sess : t # s => op'[t] = op[t]
  BY <1>0, <1>2, FramesType DEF TypeOK
<1>4. /\ \A q, r \in Rooms : (Clock(q, r)' <=> Clock(q, r)) /\ (MovesTo(q, r)' <=> MovesTo(q, r))
      /\ \A t \in Sess, r \in Rooms : From(t, r)' <=> From(t, r)
  BY <1>2 DEF Clock, Target, MovesTo, From
<1>5. PICK b \in Rooms : From(s, b)
  BY <1>0, <1>2 DEF From, TypeOK
<1>6. p = b \/ MovesTo(p, b) \/ Stopped(s, p, b)
  BY <1>2, <1>5 DEF PongSound
<1>7. \A q \in Rooms : tickAtomic[q] \in Nat
  BY <1>0 DEF TypeOK
<1>8. \A q \in Rooms : Clock(q, b) => tickAtomic[p] <= tickAtomic[q]
  <2>1. CASE p = b
    BY <1>2, <1>7, <2>1 DEF Clock
  <2>2. CASE MovesTo(p, b)
    <3>1. \A q \in Rooms : Clock(q, b) => q = p
      BY <2>2 DEF Clock, MovesTo, PlaceInv, MoveSound, Moving, Target
    <3> QED BY <1>7, <3>1
  <2>3. CASE Stopped(s, p, b)
    BY <2>3 DEF Stopped
  <2> QED BY <1>6, <2>1, <2>2, <2>3
<1>9. lastPong[s] <= tickAtomic[p]
  <2>1. CASE p = b
    BY <1>2, <1>5, <2>1 DEF Clock, PongSound
  <2>2. CASE MovesTo(p, b)
    BY <1>5, <2>2 DEF Clock, MovesTo, Target, PongSound
  <2> QED BY <1>6, <2>1, <2>2 DEF Stopped
<1>10. \A t \in Sess, r, q \in Rooms : From(t, r)' /\ Clock(q, r)' => lastPong'[t] <= tickAtomic'[q]
  <2>1. \A r \in Rooms : From(s, r) => r = b
    BY <1>5 DEF From
  <2>2. \A q \in Rooms : Clock(q, b) => lastPong'[s] <= tickAtomic'[q]
    BY <1>2, <1>3, <1>8
  <2>3. \A t \in Sess, r, q \in Rooms : t # s /\ From(t, r) /\ Clock(q, r) => lastPong'[t] <= tickAtomic'[q]
    BY <1>2, <1>3 DEF PongSound
  <2> QED BY <1>4, <2>1, <2>2, <2>3
<1>11. \A t \in Sess, q, r \in Rooms : Pings(t, q)' /\ From(t, r)' => q = r \/ MovesTo(q, r)' \/ Stopped(t, q, r)'
  <2>1. ASSUME NEW t \in Sess, NEW q \in Rooms, NEW r \in Rooms, Pings(t, q)', From(t, r)'
        PROVE  q = r \/ MovesTo(q, r) \/ Stopped(t, q, r)'
    <3>1. t # s /\ Pings(t, q) /\ From(t, r)
      BY <1>3, <1>4, <2>1 DEF Pings
    <3>2. q = r \/ MovesTo(q, r) \/ Stopped(t, q, r)
      BY <3>1 DEF PongSound
    <3> QED BY <1>2, <1>3, <1>4, <3>1, <3>2 DEF Stopped
  <2> QED BY <1>4, <2>1
<1>12. \A t \in Sess : inRoom'[t] \/ t \in leaving' \/ lastPong'[t] = 0
  BY <1>2, <1>3 DEF PongSound
<1> QED BY <1>3, <1>9, <1>10, <1>11, <1>12 DEF PongSound

(* Every step, and what it tells.                                               *)
LEMMA PongStep ==
    ASSUME PlaceInv, PlaceInv', Placed, PongSound, PingsSteady, Next
    PROVE  /\ PongSound'
           /\ \A s \in Sess : gen'[s] = gen[s] => lastPong[s] <= lastPong'[s]
<1>0. TypeOK /\ TypeOK' /\ \A s \in Sess : lastPong[s] \in Nat
  <2>1. TypeOK /\ TypeOK'
    BY DEF PlaceInv
  <2>2. lastPong \in [Sess -> 0 .. MaxTick]
    BY <2>1 DEF TypeOK
  <2> QED BY <2>1, <2>2
<1>1. ASSUME PongSound', lastPong' = lastPong
      PROVE  PongSound' /\ \A s \in Sess : gen'[s] = gen[s] => lastPong[s] <= lastPong'[s]
  BY <1>0, <1>1
<1>2. \A q \in Rooms : tickAtomic[q] \in Nat
  BY <1>0 DEF TypeOK
<1>3. ASSUME NEW r \in Rooms, ProcessRoomQueues(r)
      PROVE  PongSound' /\ \A s \in Sess : gen'[s] = gen[s] => lastPong[s] <= lastPong'[s]
  <2>1. /\ \A s \in Sess : IF s \in Gone(r) THEN gen'[s] = gen[s] + 1 ELSE gen'[s] = gen[s]
        /\ leaving' = leaving \ Gone(r) /\ live' \subseteq live
        /\ \A q \in Rooms : q # r => game'[q] = game[q]
        /\ game[r].pc = "queues" /\ game'[r].pc \in {"queues", "tick"}
        /\ UNCHANGED <<inRoom, roomIdx, op, tickAtomic>>
    BY <1>3, QueuesSessions DEF PlaceInv
  <2>2. \A s \in Sess : lastPong'[s] = IF s \in Gone(r) THEN 0 ELSE lastPong[s]
    BY <1>3 DEF ProcessRoomQueues, Gone
  <2>3. \A q \in Rooms : game'[q].pc = "move" <=> game[q].pc = "move"
    BY <2>1
  <2>4. PongSound'
    BY <1>0, <1>2, <2>1, <2>2, <2>3, PongStill
  <2>5. \A s \in Sess : gen[s] \in Nat
    BY <1>0 DEF TypeOK
  <2> QED BY <1>0, <2>1, <2>2, <2>4, <2>5
<1>4. ASSUME NEW r \in Rooms, RoomTick(r) PROVE PongSound' /\ lastPong' = lastPong
  <2> DEFINE tick == IF tickAtomic[r] < MaxTick THEN tickAtomic[r] + 1 ELSE MaxTick
  <2>1. /\ game[r].pc = "tick" /\ tickAtomic' = [tickAtomic EXCEPT ![r] = tick]
        /\ UNCHANGED <<inRoom, roomIdx, op, leaving, live, lastPong>>
        /\ \E pc \in {"queues", "exit"} : game' = [game EXCEPT ![r].pc = pc]
    BY <1>4 DEF RoomTick, sessVars
  <2>2. tickAtomic[r] <= tick
    BY <1>0, BoundAssumption DEF TypeOK
  <2> HIDE DEF tick
  <2>3. \A q \in Rooms : /\ game'[q].pc = "move" <=> game[q].pc = "move"
                         /\ game[q].pc = "move" => game'[q].nr = game[q].nr
    BY <1>0, <2>1 DEF TypeOK
  <2>4. r \in live
    BY <2>1, BusyRoom
  <2>5. \A q \in Rooms : tickAtomic[q] <= tickAtomic'[q] /\ (q \notin live => tickAtomic'[q] = tickAtomic[q])
    BY <1>0, <1>2, <2>1, <2>2, <2>4 DEF TypeOK
  <2> QED BY <1>0, <2>1, <2>3, <2>5, PongStill
<1>5. ASSUME NEW r \in Rooms, TransferFails(r) PROVE PongSound' /\ lastPong' = lastPong
  <2>1. /\ game[r].pc = "exit" /\ game' = [game EXCEPT ![r] = Ticked(r)]
        /\ UNCHANGED <<inRoom, roomIdx, op, leaving, live, tickAtomic, lastPong>>
    BY <1>5 DEF TransferFails, sessVars, roomVars
  <2>2. \A q \in Rooms : /\ game'[q].pc = "move" <=> game[q].pc = "move"
                         /\ game[q].pc = "move" => game'[q].nr = game[q].nr
    BY <1>0, <2>1, FramesType DEF TypeOK
  <2> QED BY <1>0, <1>2, <2>1, <2>2, PongStill
<1>6. ASSUME NEW r \in Rooms, NEW n \in Rooms, TransferBegin(r, n) PROVE PongSound' /\ lastPong' = lastPong
  BY <1>6, BeginPongs DEF TransferBegin
<1>7. ASSUME NEW r \in Rooms, NEW i \in Seats, TransferMember(r, i) PROVE PongSound' /\ lastPong' = lastPong
  BY <1>7, MemberPongs DEF TransferMember
<1>8. ASSUME NEW r \in Rooms, TransferEnd(r) PROVE PongSound' /\ lastPong' = lastPong
  BY <1>8, EndPongs DEF TransferEnd
<1>9. ASSUME NEW s \in Sess, Join(s) PROVE PongSound' /\ lastPong' = lastPong
  BY <1>9, JoinPongs DEF Join
<1>10. ASSUME NEW s \in Sess, OnSessionLeave(s) \/ LoadRoom(s, "push") \/ LoadRoom(s, "ping")
                              \/ (\E d \in Dirs : PushInput(s, d))
       PROVE  PongSound' /\ lastPong' = lastPong
  <2>1. UNCHANGED <<roomIdx, live, tickAtomic, game, lastPong>>
    BY <1>10 DEF OnSessionLeave, LoadRoom, PushInput, sessVars, roomVars
  <2>2. \A t \in Sess : /\ inRoom'[t] => inRoom[t]
                        /\ inRoom[t] \/ t \in leaving => inRoom'[t] \/ t \in leaving'
    BY <1>0, <1>10 DEF OnSessionLeave, LoadRoom, PushInput, sessVars, TypeOK
  <2>3. \A t \in Sess : op'[t].pc = "ping" => op'[t] = op[t] \/ op'[t].room = roomIdx[t]
    <3>1. CASE OnSessionLeave(s)
      BY <3>1 DEF OnSessionLeave
    <3>2. CASE LoadRoom(s, "push") \/ LoadRoom(s, "ping")
      <4>1. PICK x \in {"push", "ping"} : op' = [op EXCEPT ![s] = [pc |-> x, room |-> roomIdx[s]]]
        BY <3>2 DEF LoadRoom
      <4> QED BY <1>0, <4>1 DEF TypeOK
    <3>3. CASE \E d \in Dirs : PushInput(s, d)
      <4>1. op' = [op EXCEPT ![s] = Idle]
        BY <3>3 DEF PushInput
      <4> QED BY <1>0, <4>1, FramesType DEF TypeOK
    <3> QED BY <1>10, <3>1, <3>2, <3>3
  <2> QED BY <1>0, <1>2, <2>1, <2>2, <2>3, PongStill
<1>11. ASSUME NEW s \in Sess, GetPingInfo(s)
       PROVE  PongSound' /\ \A t \in Sess : gen'[t] = gen[t] => lastPong[t] <= lastPong'[t]
  <2>1. PongSound' /\ lastPong[s] <= lastPong'[s] /\ \A t \in Sess : t # s => lastPong'[t] = lastPong[t]
    BY <1>11, PingPongs
  <2> QED BY <1>0, <2>1
<1> QED BY <1>1, <1>3, <1>4, <1>5, <1>6, <1>7, <1>8, <1>9, <1>10, <1>11 DEF Next, GameStep, SessStep

(* The ticks that a connection is told never go back, unless a GetPingInfo      *)
(* reads a slot into which its party is still moving, or one that was handed    *)
(* out again since it read roomIdx.  PongRewind needs one of the two, and there *)
(* is no third: not a leave, a join, a slot reused by a stranger, nor a ping    *)
(* that comes late to a room its party has left (RoomManager.cpp:519).          *)
THEOREM PongSteady == Spec /\ [][PingsSteady]_vars => PongMonotone
<1> DEFINE Told == \A s \in Sess : gen'[s] = gen[s] => lastPong[s] <= lastPong'[s]
<1>1. Init => PongSound /\ Placed
  BY DEF Init, PongSound, Placed, RoomIdxTrue, StillThere, Moving, Ticked, From
<1>2. PlaceInv /\ PlaceInv' /\ Placed /\ PongSound /\ [Next]_vars /\ [PingsSteady]_vars
        => PongSound' /\ [Told]_vars
  <2> SUFFICES ASSUME PlaceInv, PlaceInv', Placed, PongSound, [Next]_vars, [PingsSteady]_vars
               PROVE  PongSound' /\ [Told]_vars
    OBVIOUS
  <2>1. CASE UNCHANGED vars
    BY <2>1 DEF vars, sessVars, roomVars, PongSound, Stopped, From, Pings, Clock, Target, MovesTo
  <2>2. CASE Next /\ PingsSteady
    BY <2>2, PongStep
  <2> QED BY <2>1, <2>2
<1> HIDE DEF Told
<1>3. Spec /\ [][PingsSteady]_vars => [][Told]_vars
  BY <1>1, <1>2, PlacedStep, PlacesSound, PTL DEF Spec
<1> QED BY <1>3 DEF PongMonotone, Told

================================================================================
