------------------------------ MODULE WorldProofs ------------------------------
(* Theorems about World: who is present stands on the stage, whatever pushes    *)
(* it, the time of a client's snapshots runs on through room moves, and a room  *)
(* that has come to rest stays so.                                              *)
EXTENDS World, FiniteSetTheorems, TLAPS

(* A non-empty set of numbers has a least one.                                  *)
LEMMA LeastNat ==
    ASSUME NEW S \in SUBSET Nat, S # {}
    PROVE  \E x \in S : \A y \in S : x <= y
<1> DEFINE T == {0 .. x : x \in S}
<1>1. T \subseteq FiniteSubsetsOf(Nat)
  <2>1. SUFFICES ASSUME NEW x \in S
                 PROVE  0 .. x \in FiniteSubsetsOf(Nat)
    OBVIOUS
  <2>2. 0 .. x \in SUBSET Nat /\ x \in Int
    OBVIOUS
  <2>3. IsFiniteSet(0 .. x)
    BY <2>2, FS_Interval
  <2> QED BY <2>2, <2>3 DEF FiniteSubsetsOf
<1>2. \E u \in T : \A v \in T : ~ (<<v, u>> \in StrictSubsetOrdering(Nat))
  <2>1. T # {} OBVIOUS
  <2> HIDE DEF T
  <2> QED BY <1>1, <2>1, WFMin, FS_StrictSubsetOrderingWellFounded
<1>3. PICK x \in S : \A y \in S : ~ (<<0 .. y, 0 .. x>> \in StrictSubsetOrdering(Nat))
  BY <1>2
<1>4. ASSUME NEW y \in S, y < x
      PROVE  FALSE
  <2>1. 0 .. y \subseteq 0 .. x
    BY <1>4
  <2>2. x \in 0 .. x /\ x \notin 0 .. y
    BY <1>4
  <2>3. 0 .. y \in SUBSET Nat /\ 0 .. x \in SUBSET Nat
    OBVIOUS
  <2> DEFINE p == <<0 .. y, 0 .. x>>
  <2>4. p \in (SUBSET Nat) \X (SUBSET Nat) /\ p[1] \subseteq p[2] /\ p[1] # p[2]
    BY <2>1, <2>2, <2>3, Zenon
  <2>5. p \in StrictSubsetOrdering(Nat)
    BY <2>4 DEF StrictSubsetOrdering
  <2> QED BY <1>3, <2>5
<1> QED BY <1>4

(* Induction over the positions of a finite list.                               *)
LEMMA UpTo ==
    ASSUME NEW n \in Nat, NEW S,
           0 \in S, \A k \in 1 .. n : k - 1 \in S => k \in S
    PROVE  \A k \in 0 .. n : k \in S
<1> DEFINE Missing == (0 .. n) \ S
<1>1. ASSUME NEW k \in Missing, \A j \in Missing : k <= j
      PROVE  FALSE
  <2>1. k \in 1 .. n
    BY <1>1
  <2>2. k - 1 \notin Missing
    BY <1>1, <2>1
  <2> QED BY <1>1, <2>1, <2>2
<1>2. Missing = {}
  <2>1. Missing \in SUBSET Nat
    OBVIOUS
  <2> HIDE DEF Missing
  <2> QED BY <1>1, <2>1, LeastNat
<1> QED BY <1>2

--------------------------------------------------------------------------------
(* The two loops of the pushing.                                                *)

(* f is the run of length n of a loop that starts with x and makes the next     *)
(* value with G.                                                                *)
Iterated(S, x, G, n, f) ==
    /\ f \in [0 .. n -> S] /\ f[0] = x
    /\ \A k \in 1 .. n : f[k] = G[<<f[k - 1], k>>]

(* Such a loop has a run of every length.                                       *)
LEMMA Iterates ==
    ASSUME NEW S, NEW n \in Nat, NEW x \in S, NEW G \in [S \X (1 .. n) -> S]
    PROVE  \E f : Iterated(S, x, G, n, f)
<1> DEFINE Run(f, m) == f[0] = x /\ \A k \in 1 .. m : f[k] = G[<<f[k - 1], k>>]
           Good == {m \in 0 .. n : \E f \in [0 .. m -> S] : Run(f, m)}
<1>1. 0 \in Good
  <2> DEFINE g == [k \in 0 .. 0 |-> x]
  <2>1. g \in [0 .. 0 -> S] /\ Run(g, 0)
    OBVIOUS
  <2> HIDE DEF g
  <2>2. 0 \in 0 .. n
    OBVIOUS
  <2> QED BY <2>1, <2>2
<1>2. ASSUME NEW m \in 1 .. n, NEW f \in [0 .. m - 1 -> S], Run(f, m - 1)
      PROVE  \E h \in [0 .. m -> S] : Run(h, m)
  <2> DEFINE g == [k \in 0 .. m |-> IF k = m THEN G[<<f[m - 1], m>>] ELSE f[k]]
  <2>1. m - 1 \in 0 .. m - 1 /\ f[m - 1] \in S
    OBVIOUS
  <2>2. G[<<f[m - 1], m>>] \in S
    BY <2>1
  <2>3. g \in [0 .. m -> S]
    BY <2>2
  <2>4. g[0] = x
    <3>1. 0 \in 0 .. m /\ 0 # m
      OBVIOUS
    <3>2. g[0] = f[0]
      BY <3>1
    <3> QED BY <1>2, <3>2
  <2>5. ASSUME NEW k \in 1 .. m
        PROVE  g[k] = G[<<g[k - 1], k>>]
    <3>1. g[k - 1] = f[k - 1]
      OBVIOUS
    <3>2. CASE k = m
      <4>1. g[m] = G[<<f[m - 1], m>>]
        OBVIOUS
      <4> HIDE DEF g
      <4> QED BY <3>1, <3>2, <4>1
    <3>3. CASE k # m
      <4>1. k \in 1 .. m - 1 /\ g[k] = f[k]
        BY <3>3
      <4> QED BY <1>2, <3>1, <4>1
    <3> QED BY <3>2, <3>3
  <2> QED BY <2>3, <2>4, <2>5
<1>3. \A m \in 1 .. n : m - 1 \in Good => m \in Good
  <2> SUFFICES ASSUME NEW m \in 1 .. n, m - 1 \in Good PROVE m \in Good
    OBVIOUS
  <2>1. m \in 0 .. n
    OBVIOUS
  <2>2. \E f \in [0 .. m - 1 -> S] : Run(f, m - 1)
    OBVIOUS
  <2> HIDE DEF Run
  <2> QED BY <1>2, <2>1, <2>2
<1> HIDE DEF Good
<1>4. \A m \in 0 .. n : m \in Good
  BY <1>1, <1>3, UpTo
<1>5. n \in Good
  BY <1>4
<1> QED BY <1>5 DEF Good, Iterated

(* The same actors as in w are there.                                           *)
Like(w) == {v \in Worlds : \A a \in Actors : v[a].present = w[a].present}

(* Moving two actors along the stage.                                           *)
LEMMA ShiftedX ==
    ASSUME NEW w \in Worlds, NEW i \in Actors, NEW j \in Actors, NEW n \in Int
    PROVE  [w EXCEPT ![i].x = @ - n, ![j].x = @ + n] \in Like(w)
BY DEF Worlds, Like

(* Moving two actors in depth.                                                  *)
LEMMA ShiftedY ==
    ASSUME NEW w \in Worlds, NEW i \in Actors, NEW j \in Actors, NEW n \in Int
    PROVE  [w EXCEPT ![i].y = @ - n, ![j].y = @ + n] \in Like(w)
BY DEF Worlds, Like

(* How far two actors overlap is a whole number.                                *)
LEMMA Overlaps ==
    ASSUME NEW w \in Worlds, NEW i \in Actors, NEW j \in Actors
    PROVE  /\ w[i].x \in Int /\ w[i].y \in Int /\ w[j].x \in Int /\ w[j].y \in Int
           /\ OverlapX(w[i], w[j]) \in Int /\ OverlapY(w[i], w[j]) \in Int
<1>1. w[i].x \in Int /\ w[i].y \in Int /\ w[j].x \in Int /\ w[j].y \in Int
  BY DEF Worlds
<1>2. 2 * BODY_HALF_W * Unit \in Int /\ 2 * BODY_HALF_D * Unit \in Int
  BY StageAssumption
<1> QED BY <1>1, <1>2 DEF OverlapX, OverlapY, Abs

(* A push moves two actors and nobody comes or goes.                            *)
LEMMA PushSound ==
    ASSUME NEW w \in Worlds, NEW i \in Actors, NEW j \in Actors
    PROVE  Pushed(w, i, j) \in Like(w)
<1>1. w \in Like(w)
  BY DEF Like
<1>2. PICK px \in Int : px = Sign(w[j].x - w[i].x) * (OverlapX(w[i], w[j]) \div 2)
  BY Overlaps DEF Sign
<1>3. PICK py \in Int : py = Sign(w[j].y - w[i].y) * (OverlapY(w[i], w[j]) \div 2)
  BY Overlaps DEF Sign
<1>4. \/ Apart(w, i, j) = [w EXCEPT ![i].x = @ - px, ![j].x = @ + px]
      \/ Apart(w, i, j) = [w EXCEPT ![i].y = @ - py, ![j].y = @ + py]
  BY <1>2, <1>3 DEF Apart
<1> QED BY <1>1, <1>4, ShiftedX, ShiftedY DEF Pushed

(* Being like is passed on.                                                     *)
LEMMA Alike ==
    ASSUME NEW w \in Worlds, NEW v \in Like(w), NEW u \in Like(v)
    PROVE  u \in Like(w)
BY DEF Like

(* The run of the inner loop for actor i.                                       *)
InnerRun(w, i, f) ==
    f = [j \in i .. kSnapActors - 1 |-> IF j = i THEN w ELSE Pushed(f[j - 1], i, j)]

(* There is one.                                                                *)
LEMMA InnerExists ==
    ASSUME NEW w \in Worlds, NEW i \in Actors
    PROVE  \E f : InnerRun(w, i, f) 
<1> DEFINE n == kSnapActors - 1 - i
           G == [p \in Like(w) \X (1 .. n) |-> Pushed(p[1], i, i + p[2])]
<1>1. n \in Nat /\ i \in Int /\ kSnapActors \in Int /\ \A k \in 1 .. n : i + k \in Actors
  BY ActorAssumption DEF Actors
<1>2. G \in [Like(w) \X (1 .. n) -> Like(w)]
  <2>1. ASSUME NEW v \in Like(w), NEW k \in 1 .. n
        PROVE  Pushed(v, i, i + k) \in Like(w)
    <3>1. v \in Worlds /\ i + k \in Actors
      BY <1>1 DEF Like
    <3> QED BY <3>1, PushSound, Alike
  <2> HIDE DEF n
  <2> QED BY <2>1
<1>3. w \in Like(w)
  BY DEF Like
<1>4. PICK g : /\ g \in [0 .. n -> Like(w)] /\ g[0] = w
               /\ \A k \in 1 .. n : g[k] = G[<<g[k - 1], k>>]
  <2> HIDE DEF n, G
  <2>1. n \in Nat
    BY <1>1
  <2>2. \E g : Iterated(Like(w), w, G, n, g)
    BY ONLY <2>1, <1>2, <1>3, Iterates, Zenon
  <2> QED BY ONLY <2>2 DEF Iterated
<1>5. \A k \in 1 .. n : g[k] = Pushed(g[k - 1], i, i + k)
  <2> SUFFICES ASSUME NEW k \in 1 .. n PROVE g[k] = Pushed(g[k - 1], i, i + k)
    OBVIOUS
  <2>1. g[k - 1] \in Like(w)
    <3>1. k - 1 \in 0 .. n
      BY <1>1
    <3> HIDE DEF n, G
    <3> QED BY <1>4, <3>1
  <2>2. g[k] = G[<<g[k - 1], k>>]
    BY <1>4
  <2> HIDE DEF n
  <2> QED BY <2>1, <2>2
<1> DEFINE f == [j \in i .. kSnapActors - 1 |-> g[j - i]]
<1>6. ASSUME NEW j \in i .. kSnapActors - 1
      PROVE  f[j] = IF j = i THEN w ELSE Pushed(f[j - 1], i, j)
  <2>1. CASE j = i
    BY <1>1, <1>4, <2>1
  <2>2. CASE j # i
    <3>1. j - i \in 1 .. n /\ j - 1 \in i .. kSnapActors - 1 /\ i + (j - i) = j
          /\ (j - i) - 1 = (j - 1) - i
      BY <1>1, <2>2
    <3>2. f[j] = g[j - i] /\ f[j - 1] = g[(j - 1) - i]
      BY <3>1
    <3> HIDE DEF f, n, G
    <3>3. g[j - i] = Pushed(g[(j - i) - 1], i, i + (j - i))
      BY <1>5, <3>1
    <3> QED BY <2>2, <3>1, <3>2, <3>3
  <2> QED BY <2>1, <2>2
<1>7. f = [j \in i .. kSnapActors - 1 |-> IF j = i THEN w ELSE Pushed(f[j - 1], i, j)]
  BY <1>6
<1> HIDE DEF f
<1> QED BY <1>7 DEF InnerRun

(* All of it is worlds in which the same actors are there.                      *)
LEMMA InnerSound ==
    ASSUME NEW w \in Worlds, NEW i \in Actors, NEW f, InnerRun(w, i, f)
    PROVE  f[kSnapActors - 1] \in Like(w)
<1> DEFINE n == kSnapActors - 1 - i
           S == {k \in 0 .. n : f[i + k] \in Like(w)}
<1>1. n \in Nat /\ i \in Int /\ kSnapActors \in Int
      /\ \A k \in 0 .. n : i + k \in i .. kSnapActors - 1 /\ i + k \in Actors
  BY ActorAssumption DEF Actors
<1>2. \A j \in i .. kSnapActors - 1 : f[j] = IF j = i THEN w ELSE Pushed(f[j - 1], i, j)
  BY DEF InnerRun
<1>3. 0 \in S
  <2>1. i + 0 = i /\ i \in i .. kSnapActors - 1 /\ 0 \in 0 .. n
    BY <1>1
  <2>2. f[i] = w
    BY <1>2, <2>1
  <2> QED BY <2>1, <2>2 DEF Like
<1>4. ASSUME NEW k \in 1 .. n, k - 1 \in S
      PROVE  k \in S
  <2>1. /\ k \in 0 .. n /\ i + k # i /\ i + k \in i .. kSnapActors - 1 /\ i + k \in Actors
        /\ (i + k) - 1 = i + (k - 1)
    BY <1>1
  <2>2. f[(i + k) - 1] \in Like(w)
    BY <1>4, <2>1
  <2>3. f[i + k] = Pushed(f[(i + k) - 1], i, i + k)
    BY <1>2, <2>1
  <2>4. f[i + k] \in Like(w)
    <3> DEFINE v == f[(i + k) - 1]
    <3>1. v \in Worlds /\ v \in Like(w)
      BY <2>2 DEF Like
    <3> HIDE DEF v
    <3>2. Pushed(v, i, i + k) \in Like(w)
      BY <2>1, <3>1, PushSound, Alike
    <3> QED BY <2>3, <3>2 DEF v
  <2> QED BY <2>1, <2>4
<1> HIDE DEF S
<1>5. \A k \in 0 .. n : k \in S
  <2> HIDE DEF n
  <2>1. n \in Nat
    BY <1>1
  <2>2. \A k \in 1 .. n : k - 1 \in S => k \in S
    BY <1>4
  <2> QED BY <1>3, <2>1, <2>2, UpTo
<1>6. n \in 0 .. n /\ i + n = kSnapActors - 1
  BY <1>1
<1> QED BY <1>5, <1>6 DEF S

(* Actor i pushing all after it.                                                *)
LEMMA PushedBySound ==
    ASSUME NEW w \in Worlds, NEW i \in Actors
    PROVE  PushedBy(w, i) \in Like(w)
<1>0. \E f : InnerRun(w, i, f)
  BY InnerExists
<1>1. PICK f : InnerRun(w, i, f) /\ PushedBy(w, i) = IF w[i].present THEN f[kSnapActors - 1] ELSE w
  BY <1>0 DEF PushedBy, InnerRun
<1>2. w \in Like(w)
  BY DEF Like
<1> QED BY <1>1, <1>2, InnerSound

(* The run of the outer loop.                                                   *)
OuterRun(w, f) ==
    f = [n \in 0 .. kSnapActors |-> IF n = 0 THEN w ELSE PushedBy(f[n - 1], n - 1)]

(* There is one.                                                                *)
LEMMA OuterExists ==
    ASSUME NEW w \in Worlds
    PROVE  \E f : OuterRun(w, f)
<1> DEFINE G == [p \in Like(w) \X (1 .. kSnapActors) |-> PushedBy(p[1], p[2] - 1)]
<1>1. kSnapActors \in Nat /\ \A k \in 1 .. kSnapActors : k - 1 \in Actors
  BY ActorAssumption DEF Actors
<1>2. G \in [Like(w) \X (1 .. kSnapActors) -> Like(w)]
  <2>1. ASSUME NEW v \in Like(w), NEW k \in 1 .. kSnapActors
        PROVE  PushedBy(v, k - 1) \in Like(w)
    <3>1. v \in Worlds /\ k - 1 \in Actors
      BY <1>1 DEF Like
    <3> QED BY <3>1, PushedBySound, Alike
  <2> QED BY <2>1
<1>3. w \in Like(w)
  BY DEF Like
<1>4. PICK g : /\ g \in [0 .. kSnapActors -> Like(w)] /\ g[0] = w
               /\ \A k \in 1 .. kSnapActors : g[k] = G[<<g[k - 1], k>>]
  <2> HIDE DEF G
  <2>1. kSnapActors \in Nat
    BY <1>1
  <2>2. \E g : Iterated(Like(w), w, G, kSnapActors, g)
    BY ONLY <2>1, <1>2, <1>3, Iterates, Zenon
  <2> QED BY ONLY <2>2 DEF Iterated
<1>5. ASSUME NEW k \in 0 .. kSnapActors
      PROVE  g[k] = IF k = 0 THEN w ELSE PushedBy(g[k - 1], k - 1)
  <2>1. CASE k = 0
    BY <1>4, <2>1
  <2>2. CASE k # 0
    <3>1. k \in 1 .. kSnapActors /\ k - 1 \in 0 .. kSnapActors
      BY <1>1, <2>2
    <3>2. g[k - 1] \in Like(w)
      BY <1>4, <3>1
    <3>3. g[k] = G[<<g[k - 1], k>>]
      BY <1>4, <3>1
    <3> QED BY <2>2, <3>1, <3>2, <3>3
  <2> QED BY <2>1, <2>2
<1>6. g = [n \in 0 .. kSnapActors |-> IF n = 0 THEN w ELSE PushedBy(g[n - 1], n - 1)]
  BY <1>4, <1>5
<1> QED BY <1>6 DEF OuterRun

(* The pushing moves actors and nobody comes or goes.                           *)
LEMMA SeparatedSound ==
    ASSUME NEW w \in Worlds
    PROVE  Separated(w) \in Like(w)
<1>0. \E f : OuterRun(w, f)
  BY OuterExists
<1>1. PICK f : OuterRun(w, f) /\ Separated(w) = f[kSnapActors]
  BY <1>0 DEF Separated, OuterRun
<1> DEFINE S == {k \in 0 .. kSnapActors : f[k] \in Like(w)}
<1>2. kSnapActors \in Nat /\ \A k \in 1 .. kSnapActors : k \in 0 .. kSnapActors /\ k # 0 /\ k - 1 \in Actors
  BY ActorAssumption DEF Actors
<1>3. \A k \in 0 .. kSnapActors : f[k] = IF k = 0 THEN w ELSE PushedBy(f[k - 1], k - 1)
  BY <1>1 DEF OuterRun
<1>4. 0 \in S
  <2>1. 0 \in 0 .. kSnapActors
    BY <1>2
  <2>2. f[0] = w
    BY <1>3, <2>1
  <2> QED BY <2>1, <2>2 DEF Like
<1>5. ASSUME NEW k \in 1 .. kSnapActors, k - 1 \in S
      PROVE  k \in S
  <2>1. k \in 0 .. kSnapActors /\ k # 0 /\ k - 1 \in Actors
    BY <1>2
  <2>2. f[k] = PushedBy(f[k - 1], k - 1)
    BY <1>3, <2>1
  <2>3. f[k - 1] \in Like(w) /\ f[k - 1] \in Worlds
    BY <1>5 DEF Like
  <2>4. f[k] \in Like(w)
    BY <2>1, <2>2, <2>3, PushedBySound, Alike
  <2> QED BY <2>1, <2>4
<1> HIDE DEF S
<1>6. \A k \in 0 .. kSnapActors : k \in S
  <2>1. kSnapActors \in Nat
    BY <1>2
  <2> QED BY <1>4, <1>5, <2>1, UpTo
<1>7. kSnapActors \in S
  BY <1>2, <1>6
<1> QED BY <1>1, <1>7 DEF S

--------------------------------------------------------------------------------
(* A tick's step.                                                               *)

(* On the stage.                                                                *)
Standing(a) ==
    /\ a.x \in STAGE_MARGIN * Unit .. (WORLD_W - STAGE_MARGIN) * Unit
    /\ a.y \in DEPTH_MIN * Unit .. DEPTH_MAX * Unit

(* A grid of Unit points per pixel keeps the order of pixels.                   *)
LEMMA Scaled ==
    ASSUME NEW a \in Int, NEW b \in Int, a <= b
    PROVE  /\ a * Unit \in Int /\ b * Unit \in Int /\ a * Unit <= b * Unit /\ Unit * a = a * Unit
<1>1. PICK u \in Nat : u = Unit
  BY StageAssumption
<1>2. a * u <= b * u
  <2>1. b - a \in Nat
    OBVIOUS
  <2>2. (b - a) * u \in Nat
    BY <2>1
  <2> QED BY <2>2
<1> QED BY <1>1, <1>2

(* The edges of the stage are in order.                                         *)
LEMMA Edges ==
    /\ STAGE_MARGIN * Unit \in Int /\ (WORLD_W - STAGE_MARGIN) * Unit \in Int
    /\ DEPTH_MIN * Unit \in Int /\ DEPTH_MAX * Unit \in Int
    /\ STAGE_MARGIN * Unit <= (WORLD_W - STAGE_MARGIN) * Unit
    /\ DEPTH_MIN * Unit <= DEPTH_MAX * Unit
<1>1. /\ STAGE_MARGIN \in Int /\ WORLD_W - STAGE_MARGIN \in Int /\ DEPTH_MIN \in Int /\ DEPTH_MAX \in Int
      /\ STAGE_MARGIN <= WORLD_W - STAGE_MARGIN /\ DEPTH_MIN <= DEPTH_MAX
  BY StageAssumption
<1> QED BY <1>1, Scaled

(* Whoever is put somewhere by the spawn tables stands on the stage.            *)
LEMMA SpawnStands ==
    ASSUME NEW p \in Stage
    PROVE  OnGrid(p) \in [present : BOOLEAN, x : Int, y : Int] /\ OnGrid(p).present /\ Standing(OnGrid(p))
<1> DEFINE x == p[1]
           y == p[2]
<1>1. /\ x \in Int /\ y \in Int /\ STAGE_MARGIN \in Int /\ WORLD_W - STAGE_MARGIN \in Int
      /\ DEPTH_MIN \in Int /\ DEPTH_MAX \in Int
      /\ STAGE_MARGIN <= x /\ x <= WORLD_W - STAGE_MARGIN /\ DEPTH_MIN <= y /\ y <= DEPTH_MAX
  BY StageAssumption DEF Stage
<1> HIDE DEF x, y
<1>2. /\ x * Unit \in STAGE_MARGIN * Unit .. (WORLD_W - STAGE_MARGIN) * Unit /\ Unit * x = x * Unit
      /\ y * Unit \in DEPTH_MIN * Unit .. DEPTH_MAX * Unit /\ Unit * y = y * Unit
  BY <1>1, Scaled
<1>3. Unit * x \in Int /\ Unit * y \in Int
  BY <1>1, StageAssumption
<1> QED BY <1>2, <1>3 DEF OnGrid, Standing, x, y

(* OnStage puts an actor on the stage, wherever it was.                         *)
LEMMA ClampedStands ==
    ASSUME NEW a \in [present : BOOLEAN, x : Int, y : Int]
    PROVE  /\ OnStage(a) \in [present : BOOLEAN, x : Int, y : Int]
           /\ OnStage(a).present = a.present /\ Standing(OnStage(a))
<1>1. ASSUME NEW v \in Int, NEW lo \in Int, NEW hi \in Int, lo <= hi
      PROVE  Clamp(v, lo, hi) \in lo .. hi /\ Clamp(v, lo, hi) \in Int
  BY <1>1 DEF Clamp
<1> DEFINE x == Clamp(a.x, STAGE_MARGIN * Unit, (WORLD_W - STAGE_MARGIN) * Unit)
           y == Clamp(a.y, DEPTH_MIN * Unit, DEPTH_MAX * Unit)
<1>2. /\ x \in STAGE_MARGIN * Unit .. (WORLD_W - STAGE_MARGIN) * Unit /\ x \in Int
      /\ y \in DEPTH_MIN * Unit .. DEPTH_MAX * Unit /\ y \in Int
  <2>1. a.x \in Int /\ a.y \in Int
    OBVIOUS
  <2> QED BY <1>1, <2>1, Edges
<1>3. OnStage(a) = [a EXCEPT !.x = x, !.y = y]
  BY DEF OnStage
<1> HIDE DEF x, y
<1> QED BY <1>2, <1>3 DEF Standing

(* A walk moves a player and nobody comes or goes.                              *)
LEMMA WalkSound ==
    ASSUME NEW a \in [present : BOOLEAN, x : Int, y : Int], NEW in \in Directions
    PROVE  /\ Walked(a, in) \in [present : BOOLEAN, x : Int, y : Int]
           /\ Walked(a, in).present = a.present
<1> DEFINE kx == IF in.mx # 0 /\ in.my # 0 THEN DiagX ELSE StepX
           ky == IF in.mx # 0 /\ in.my # 0 THEN DiagY ELSE StepY
<1>0. in.mx \in Int /\ in.my \in Int /\ kx \in Int /\ ky \in Int
  BY StageAssumption DEF Directions
<1>1. PICK dx \in Int : dx = in.mx * kx
  <2> HIDE DEF kx, ky
  <2>1. \A m, n \in Int : m * n \in Int
    OBVIOUS
  <2> QED BY <1>0, <2>1
<1>2. PICK dy \in Int : dy = in.my * ky
  <2> HIDE DEF kx, ky
  <2>1. \A m, n \in Int : m * n \in Int
    OBVIOUS
  <2> QED BY <1>0, <2>1
<1>3. Walked(a, in) = IF ~a.present THEN a ELSE [a EXCEPT !.x = @ + dx, !.y = @ + dy]
  BY <1>1, <1>2 DEF Walked
<1>4. a.x + dx \in Int /\ a.y + dy \in Int
  OBVIOUS
<1>5. CASE a.present
  <2>1. Walked(a, in) = [a EXCEPT !.x = @ + dx, !.y = @ + dy]
    BY <1>3, <1>5
  <2> QED BY ONLY <2>1, <1>4, a \in [present : BOOLEAN, x : Int, y : Int]
<1>6. CASE ~a.present
  BY <1>3, <1>6
<1> QED BY <1>5, <1>6

(* A tick's step leaves who was there, and all of them on the stage.            *)
LEMMA StepSound ==
    ASSUME NEW w \in Worlds, NEW inputs \in [Players -> Directions]
    PROVE  /\ SimStep(w, inputs) \in Like(w)
           /\ \A a \in Actors : Standing(SimStep(w, inputs)[a])
<1> DEFINE walked == [a \in Actors |-> IF a \in Players THEN Walked(w[a], inputs[a]) ELSE w[a]]
           apart  == Separated(walked)
<1>1. walked \in Worlds /\ walked \in Like(w)
  <2>1. ASSUME NEW a \in Actors
        PROVE  /\ walked[a] \in [present : BOOLEAN, x : Int, y : Int]
               /\ walked[a].present = w[a].present
    <3>1. w[a] \in [present : BOOLEAN, x : Int, y : Int]
      BY DEF Worlds
    <3>2. CASE a \in Players
      BY <3>1, <3>2, WalkSound
    <3>3. CASE a \notin Players
      BY <3>1, <3>3
    <3> QED BY <3>2, <3>3
  <2>2. walked \in Worlds
    BY <2>1 DEF Worlds
  <2> HIDE DEF walked
  <2> QED BY <2>1, <2>2 DEF Like
<1>2. apart \in Worlds /\ apart \in Like(w)
  <2> HIDE DEF walked
  <2>1. apart \in Like(walked)
    BY <1>1, SeparatedSound
  <2> HIDE DEF apart
  <2>2. apart \in Like(w)
    BY <1>1, <2>1, Alike
  <2> QED BY <2>2 DEF Like
<1>3. SimStep(w, inputs) = [a \in Actors |-> OnStage(apart[a])]
  BY DEF SimStep
<1> HIDE DEF apart
<1>4. ASSUME NEW a \in Actors
      PROVE  /\ SimStep(w, inputs)[a] \in [present : BOOLEAN, x : Int, y : Int]
             /\ SimStep(w, inputs)[a].present = w[a].present /\ Standing(SimStep(w, inputs)[a])
  <2>1. apart[a] \in [present : BOOLEAN, x : Int, y : Int] /\ apart[a].present = w[a].present
    BY <1>2 DEF Like, Worlds
  <2> QED BY <1>3, <2>1, ClampedStands
<1>5. SimStep(w, inputs) \in Worlds
  BY <1>3, <1>4 DEF Worlds
<1> QED BY <1>4, <1>5 DEF Like

--------------------------------------------------------------------------------
(* The invariant.                                                               *)

Member == [used : BOOLEAN, held : Directions, emptyStreak : 0 .. NeutralAfter + 1]

(* A player has had no snapshot yet, or its last is the room's newest, or that  *)
(* one did not reach it.                                                        *)
SnapKept ==
    \A i \in Players : members[i].used =>
        /\ lastSnap[i] <= Newest(tick)
        /\ lastSnap[i] > 0 /\ Reached(i, Newest(tick)) => lastSnap[i] = Newest(tick)

(* The newest snapshot, when the clock moves on.                                *)
LEMMA NewestMoves ==
    ASSUME NEW t \in Nat
    PROVE  /\ Newest(t) \in 0 .. t
           /\ (t + 1) % 3 = 0 => Newest(t + 1) = t + 1
           /\ (t + 1) % 3 # 0 => Newest(t + 1) = Newest(t)
BY DEF Newest

IInv == TypeOK /\ SnapKept

(* What a player holds after a tick.                                            *)
LEMMA ConsumedSound ==
    ASSUME TypeOK, NEW i \in Players
    PROVE  Consumed(i) \in Member /\ Consumed(i).used = members[i].used
<1> DEFINE m == members[i]
           streak == IF m.emptyStreak > NeutralAfter THEN m.emptyStreak ELSE m.emptyStreak + 1
<1>1. m \in Member /\ plan \in Parties
  BY DEF TypeOK, Member
<1>2. Sent(i) \in Directions /\ Still \in Directions
  BY <1>1, PlanAssumption DEF Sent, Still, Directions, Players
<1>3. streak \in 0 .. NeutralAfter + 1 /\ 0 \in 0 .. NeutralAfter + 1
  BY <1>1, PlanAssumption DEF Member
<1> HIDE DEF streak
<1>4. Neutral(m, streak) \in Directions
  BY <1>1, <1>2 DEF Neutral, Member
<1>5. CASE ~m.used
  <2>1. Consumed(i) = m
    BY <1>5 DEF Consumed
  <2> QED BY <1>1, <2>1
<1>6. CASE m.used /\ Sends(i)
  <2>1. Consumed(i) = [m EXCEPT !.held = Sent(i), !.emptyStreak = 0]
    BY <1>6 DEF Consumed
  <2> HIDE DEF m
  <2>2. [m EXCEPT !.held = Sent(i), !.emptyStreak = 0] \in Member
    BY <1>1, <1>2, <1>3 DEF Member
  <2>3. [m EXCEPT !.held = Sent(i), !.emptyStreak = 0].used = m.used
    BY <1>1 DEF Member
  <2> QED BY <2>1, <2>2, <2>3 DEF m
<1>7. CASE m.used /\ ~Sends(i)
  <2>1. Consumed(i) = [m EXCEPT !.held = Neutral(m, streak), !.emptyStreak = streak]
    BY <1>7 DEF Consumed, streak
  <2> HIDE DEF m
  <2>2. [m EXCEPT !.held = Neutral(m, streak), !.emptyStreak = streak] \in Member
    BY <1>1, <1>3, <1>4 DEF Member
  <2>3. [m EXCEPT !.held = Neutral(m, streak), !.emptyStreak = streak].used = m.used
    BY <1>1 DEF Member
  <2> QED BY <2>1, <2>2, <2>3 DEF m
<1> QED BY <1>1, <1>5, <1>6, <1>7 DEF Member

(* The stage as a room finds it when it is used for the first time.             *)
LEMMA ResetSound ==
    /\ ResetWorld \in Worlds
    /\ \A a \in Actors : /\ ResetWorld[a].present = (a \notin Players)
                         /\ ResetWorld[a].present => Standing(ResetWorld[a])
<1>1. ASSUME NEW a \in Actors
      PROVE  /\ ResetWorld[a] \in [present : BOOLEAN, x : Int, y : Int]
             /\ ResetWorld[a].present = (a \notin Players)
             /\ ResetWorld[a].present => Standing(ResetWorld[a])
  <2>1. CASE a \in Players
    <3>1. ResetWorld[a] = [present |-> FALSE, x |-> 0, y |-> 0]
      BY <2>1 DEF ResetWorld
    <3>2. ResetWorld[a] \in [present : BOOLEAN, x : Int, y : Int] /\ ~ResetWorld[a].present
      BY <3>1
    <3> QED BY <2>1, <3>2
  <2>2. CASE a \notin Players
    <3>1. ResetWorld[a] = OnGrid(kOrcSpawn[a - kRoomMembers])
      BY <2>2 DEF ResetWorld
    <3>2. a - kRoomMembers \in 0 .. kSnapActors - kRoomMembers - 1
      BY <2>2, ActorAssumption DEF Actors, Players
    <3>3. kOrcSpawn[a - kRoomMembers] \in Stage
      BY <3>2, ActorAssumption
    <3> QED BY <2>2, <3>1, <3>3, SpawnStands
  <2> QED BY <2>1, <2>2
<1>2. ResetWorld \in Worlds
  BY <1>1 DEF ResetWorld, Worlds
<1> QED BY <1>1, <1>2

(* Every player has a spawn point, and is an actor.                             *)
LEMMA PlayersStart ==
    Players \subseteq Actors /\ \A i \in Players : kPlayerSpawn[i] \in Stage
BY ActorAssumption DEF Players, Actors

(* A room the party has moved to.                                               *)
LEMMA NewRoomSound ==
    /\ NewRoom \in Worlds
    /\ \A a \in Actors : /\ NewRoom[a].present = (a \in Used \/ a \notin Players)
                         /\ NewRoom[a].present => Standing(NewRoom[a])
<1>1. ASSUME NEW a \in Actors
      PROVE  /\ NewRoom[a] \in [present : BOOLEAN, x : Int, y : Int]
             /\ NewRoom[a].present = (a \in Used \/ a \notin Players)
             /\ NewRoom[a].present => Standing(NewRoom[a])
  <2>1. CASE a \in Used
    <3>1. NewRoom[a] = OnGrid(kPlayerSpawn[a]) /\ kPlayerSpawn[a] \in Stage
      BY <2>1, PlayersStart DEF NewRoom, Used
    <3> QED BY <2>1, <3>1, SpawnStands
  <2>2. CASE a \notin Used
    <3>1. NewRoom[a] = ResetWorld[a]
      BY <2>2 DEF NewRoom
    <3>2. ResetWorld[a] \in [present : BOOLEAN, x : Int, y : Int]
      BY ResetSound DEF Worlds
    <3> QED BY <2>2, <3>1, <3>2, ResetSound
  <2> QED BY <2>1, <2>2
<1>2. NewRoom \in Worlds
  BY <1>1 DEF NewRoom, Worlds
<1> QED BY <1>1, <1>2

(* A player that has just joined.                                               *)
LEMMA FreshSound == Fresh \in Member /\ Fresh.used
BY PlanAssumption DEF Fresh, Member, Still, Directions

(* An empty room at the start.                                                  *)
LEMMA StartSound == Init => IInv
<1> SUFFICES ASSUME Init PROVE IInv
  OBVIOUS
<1>1. members \in [Players -> Member] /\ \A i \in Players : members[i].used = FALSE
  <2>1. Fresh \in Member
    BY FreshSound
  <2>2. [Fresh EXCEPT !.used = FALSE] \in Member /\ [Fresh EXCEPT !.used = FALSE].used = FALSE
    BY <2>1 DEF Member
  <2> QED BY <2>2 DEF Init
<1>2. 0 \in 0 .. MaxTick /\ 0 \in 0 .. MaxMoves
  BY PlanAssumption
<1>3. actors \in Worlds
      /\ \A a \in Actors : /\ actors[a].present = (a \in Used \/ a \notin Players)
                           /\ actors[a].present => Standing(actors[a])
  BY <1>1, ResetSound DEF Init, Used
<1>4. TypeOK
  BY <1>1, <1>2, <1>3 DEF Init, TypeOK, Standing, Member
<1>5. SnapKept
  BY <1>1 DEF SnapKept
<1> QED BY <1>4, <1>5 DEF IInv

(* Joins and leaves.                                                            *)
LEMMA QueuesKeep == IInv /\ ProcessRoomQueues => IInv'
<1> SUFFICES ASSUME IInv, ProcessRoomQueues PROVE IInv'
  OBVIOUS
<1> DEFINE in  == {i \in Players : DueIn(i)}
           out == {i \in Players : DueOut(i)}
<1>1. /\ members' = [i \in Players |-> IF i \in in THEN Fresh
                                       ELSE [members[i] EXCEPT !.used = @ /\ i \notin out]]
      /\ actors' = [a \in Actors |-> IF a \in in THEN OnGrid(kPlayerSpawn[a])
                                     ELSE [actors[a] EXCEPT !.present = @ /\ a \notin out]]
      /\ lastSnap' = [i \in Players |-> IF i \in in THEN 0 ELSE lastSnap[i]]
      /\ lastStir' = tick /\ onward' = tick
      /\ plan' = plan /\ freeFrom' = freeFrom /\ tick' = tick /\ moves' = moves
  BY DEF ProcessRoomQueues
<1>2. in \subseteq Players /\ out \subseteq Players /\ TypeOK /\ SnapKept
  BY DEF IInv
<1> HIDE DEF in, out
<1>3. ASSUME NEW i \in Players
      PROVE  /\ members'[i] \in Member
             /\ members'[i].used = (i \in in \/ (members[i].used /\ i \notin out))
  <2>1. members[i] \in Member
    BY <1>2 DEF TypeOK, Member
  <2>2. CASE i \in in
    <3>1. members'[i] = Fresh
      BY <1>1, <2>2
    <3> QED BY <2>2, <3>1, FreshSound
  <2>3. CASE i \notin in
    <3>1. members'[i] = [members[i] EXCEPT !.used = @ /\ i \notin out]
      BY <1>1, <2>3
    <3>2. PICK b \in BOOLEAN : b = (members[i].used /\ i \notin out)
      OBVIOUS
    <3>3. members'[i] = [members[i] EXCEPT !.used = b]
      BY <3>1, <3>2
    <3>4. members'[i] \in Member /\ members'[i].used = b
      BY ONLY <2>1, <3>3 DEF Member
    <3> QED BY <2>3, <3>2, <3>4
  <2> QED BY <2>2, <2>3
<1>4. members' \in [Players -> Member]
  BY <1>1, <1>3
<1>5. \A i \in Players : (i \in Used)' <=> (i \in in \/ (i \in Used /\ i \notin out))
  BY <1>3 DEF Used
<1>6. ASSUME NEW a \in Actors
      PROVE  /\ actors'[a] \in [present : BOOLEAN, x : Int, y : Int]
             /\ actors'[a].present = ((a \in Used)' \/ a \notin Players)
             /\ actors'[a].present => Standing(actors'[a])
  <2>1. /\ actors[a] \in [present : BOOLEAN, x : Int, y : Int]
        /\ actors[a].present = (a \in Used \/ a \notin Players)
        /\ actors[a].present => Standing(actors[a])
    BY <1>2 DEF TypeOK, Worlds, Standing
  <2>2. CASE a \in in
    <3>1. actors'[a] = OnGrid(kPlayerSpawn[a]) /\ a \in Players
      BY <1>1, <1>2, <2>2
    <3>2. /\ actors'[a] \in [present : BOOLEAN, x : Int, y : Int]
          /\ actors'[a].present /\ Standing(actors'[a])
      BY <3>1, PlayersStart, SpawnStands
    <3> QED BY <1>5, <2>2, <3>1, <3>2
  <2>3. CASE a \notin in
    <3>1. actors'[a] = [actors[a] EXCEPT !.present = @ /\ a \notin out]
      BY <1>1, <2>3
    <3>2. PICK b \in BOOLEAN : b = (actors[a].present /\ a \notin out)
      BY <2>1
    <3>3. actors'[a] = [actors[a] EXCEPT !.present = b]
      BY <3>1, <3>2
    <3>4. /\ actors'[a] \in [present : BOOLEAN, x : Int, y : Int] /\ actors'[a].present = b
          /\ actors'[a].x = actors[a].x /\ actors'[a].y = actors[a].y
      BY ONLY <2>1, <3>3
    <3>5. b = ((a \in Used)' \/ a \notin Players)
      <4>1. CASE a \in Players
        <5>1. b <=> a \in Used /\ a \notin out
          BY <2>1, <3>2, <4>1
        <5> QED BY <1>5, <2>3, <4>1, <5>1
      <4>2. CASE a \notin Players
        BY <1>2, <2>1, <3>2, <4>2
      <4> QED BY <4>1, <4>2
    <3>6. b => Standing(actors'[a])
      BY <2>1, <3>2, <3>4 DEF Standing
    <3> QED BY <3>4, <3>5, <3>6
  <2> QED BY <2>2, <2>3
<1>7. actors' \in Worlds
  <2>1. DOMAIN actors' = Actors /\ actors' = [a \in Actors |-> actors'[a]]
    BY <1>1
  <2> QED BY <1>6, <2>1 DEF Worlds
<1>8. lastSnap' \in [Players -> 0 .. MaxTick]
  <2>1. lastSnap \in [Players -> 0 .. MaxTick] /\ 0 \in 0 .. MaxTick
    BY <1>2, PlanAssumption DEF TypeOK
  <2> QED BY <1>1, <2>1
<1>9. TypeOK'
  <2>1. /\ plan' \in Parties /\ freeFrom' \in FreeFrom /\ moves' \in 0 .. MaxMoves
        /\ {tick', lastStir', onward'} \subseteq 0 .. MaxTick
    BY <1>1, <1>2 DEF TypeOK
  <2> QED BY <1>4, <1>6, <1>7, <1>8, <2>1 DEF TypeOK, Standing, Member
<1>10. SnapKept'
  <2> SUFFICES ASSUME NEW i \in Players, members'[i].used
               PROVE  /\ lastSnap'[i] <= Newest(tick)
                      /\ lastSnap'[i] > 0 /\ Reached(i, Newest(tick)) => lastSnap'[i] = Newest(tick)
    BY <1>1 DEF SnapKept, Reached
  <2>1. CASE i \in in
    <3>1. lastSnap'[i] = 0 /\ tick \in Nat
      BY <1>1, <1>2, <2>1, PlanAssumption DEF TypeOK
    <3>2. Newest(tick) \in 0 .. tick
      BY <3>1, NewestMoves
    <3> QED BY <3>1, <3>2
  <2>2. CASE i \notin in
    <3>1. lastSnap'[i] = lastSnap[i] /\ members[i].used
      BY <1>1, <1>3, <2>2
    <3> QED BY <1>2, <3>1 DEF SnapKept
  <2> QED BY <2>1, <2>2
<1> QED BY <1>9, <1>10 DEF IInv

(* A tick.                                                                      *)
LEMMA TickKeeps == IInv /\ RoomTick => IInv'
<1> SUFFICES ASSUME IInv, RoomTick PROVE IInv'
  OBVIOUS
<1> DEFINE ms     == [i \in Players |-> Consumed(i)]
           inputs == [i \in Players |-> IF ms[i].used THEN ms[i].held ELSE Still]
           world  == SimStep(actors, inputs)
           t      == tick + 1
           leaves == ExitReached(world) /\ t >= freeFrom
<1>1. /\ members' = ms /\ tick' = t /\ tick < MaxTick /\ moves < MaxMoves
      /\ lastSnap' = [i \in Players |-> IF i \in Used /\ t % 3 = 0 /\ Reached(i, t)
                                   THEN t ELSE lastSnap[i]]
      /\ actors' = IF leaves THEN NewRoom ELSE world
      /\ moves' = IF leaves THEN moves + 1 ELSE moves
      /\ lastStir' \in {t, lastStir} /\ onward' \in {t, onward}
      /\ plan' = plan /\ freeFrom' = freeFrom
  BY DEF RoomTick, CarriedTick
<1>2. /\ TypeOK /\ SnapKept /\ actors \in Worlds /\ tick \in 0 .. MaxTick /\ moves \in 0 .. MaxMoves
      /\ MaxTick \in Nat /\ MaxMoves \in Nat
  BY PlanAssumption DEF IInv, TypeOK
<1>3. \A i \in Players : ms[i] \in Member /\ ms[i].used = members[i].used
  BY <1>2, ConsumedSound
<1> HIDE DEF ms
<1>4. inputs \in [Players -> Directions]
  <2>1. Still \in Directions
    BY DEF Still, Directions
  <2> QED BY <1>3, <2>1 DEF Member
<1> HIDE DEF inputs
<1>5. world \in Like(actors) /\ \A a \in Actors : Standing(world[a])
  BY <1>2, <1>4, StepSound
<1> HIDE DEF world, leaves
<1>6. /\ actors' \in Worlds
      /\ \A a \in Actors : /\ actors'[a].present = (a \in Used \/ a \notin Players)
                           /\ actors'[a].present => Standing(actors'[a])
  <2>1. CASE leaves
    BY <1>1, <2>1, NewRoomSound
  <2>2. CASE ~leaves
    <3>1. actors' = world
      BY <1>1, <2>2
    <3>2. \A a \in Actors : actors[a].present = (a \in Used \/ a \notin Players)
      BY <1>2 DEF TypeOK
    <3> QED BY <1>5, <3>1, <3>2 DEF Like
  <2> QED BY <2>1, <2>2
<1>7. members' \in [Players -> Member] /\ \A i \in Players : (i \in Used)' <=> i \in Used
  <2>1. DOMAIN members' = Players /\ members' = [i \in Players |-> members'[i]]
    BY <1>1 DEF ms
  <2> QED BY <1>1, <1>3, <2>1 DEF Used
<1>8. t \in 0 .. MaxTick /\ moves' \in 0 .. MaxMoves
  BY <1>1, <1>2
<1>9. lastSnap' \in [Players -> 0 .. MaxTick]
  <2>1. lastSnap \in [Players -> 0 .. MaxTick]
    BY <1>2 DEF TypeOK
  <2> HIDE DEF t
  <2> QED BY <1>1, <1>8, <2>1
<1>10. TypeOK'
  <2>1. /\ plan' \in Parties /\ freeFrom' \in FreeFrom
        /\ {tick', lastStir', onward'} \subseteq 0 .. MaxTick
    BY <1>1, <1>2, <1>8 DEF TypeOK
  <2>2. \A a \in Actors : actors'[a].present = ((a \in Used)' \/ a \notin Players)
    BY <1>6, <1>7 DEF Used
  <2> QED BY <1>6, <1>7, <1>8, <1>9, <2>1, <2>2 DEF TypeOK, Standing, Member
<1>11. SnapKept'
  <2> SUFFICES ASSUME NEW i \in Players, members'[i].used
               PROVE  /\ lastSnap'[i] <= Newest(t)
                      /\ lastSnap'[i] > 0 /\ Reached(i, Newest(t)) => lastSnap'[i] = Newest(t)
    BY <1>1 DEF SnapKept, Reached
  <2>1. /\ i \in Used /\ lastSnap[i] <= Newest(tick)
        /\ lastSnap[i] > 0 /\ Reached(i, Newest(tick)) => lastSnap[i] = Newest(tick)
    BY <1>1, <1>2, <1>3 DEF SnapKept, Used
  <2>2. /\ lastSnap[i] \in Nat /\ tick \in Nat /\ Newest(tick) \in 0 .. tick
        /\ t % 3 = 0 => Newest(t) = t
        /\ t % 3 # 0 => Newest(t) = Newest(tick)
    BY <1>2, NewestMoves DEF TypeOK
  <2>3. CASE t % 3 = 0 /\ Reached(i, t)
    <3>1. lastSnap'[i] = t
      BY <1>1, <2>1, <2>3
    <3> QED BY <2>2, <2>3, <3>1
  <2>4. CASE t % 3 = 0 /\ ~Reached(i, t)
    <3>1. lastSnap'[i] = lastSnap[i]
      BY <1>1, <2>4
    <3> QED BY <2>1, <2>2, <2>4, <3>1
  <2>5. CASE t % 3 # 0
    <3>1. lastSnap'[i] = lastSnap[i]
      BY <1>1, <2>5
    <3> QED BY <2>1, <2>2, <2>5, <3>1
  <2> QED BY <2>3, <2>4, <2>5
<1> QED BY <1>10, <1>11 DEF IInv

(* The invariant is inductive.                                                  *)
LEMMA StepKeeps == IInv /\ [Next]_vars => IInv'
<1>1. IInv /\ UNCHANGED vars => IInv'
  BY DEF IInv, TypeOK, SnapKept, Reached, Used, vars
<1> QED BY <1>1, QueuesKeep, TickKeeps DEF Next

(* It holds in every reachable state.                                           *)
LEMMA AlwaysInv == Spec => []IInv
BY StartSound, StepKeeps, PTL DEF Spec

--------------------------------------------------------------------------------
(* What follows.                                                                *)

(* However actors walk and whoever pushes whom how far, everybody that is there *)
(* stands on the stage after the tick, so that positions fit a snapshot's 16    *)
(* bits, and nobody appears or vanishes but by joining, leaving and moving on   *)
(* (Sim.cpp:45-82, RoomManager.cpp:226-266).                                    *)
THEOREM WorldTypeCorrect == Spec => []TypeOK
<1>1. IInv => TypeOK
  BY DEF IInv
<1> QED BY <1>1, AlwaysInv, PTL

(* No step takes a snapshot back, and none loses what reached its client.       *)
LEMMA SnapStep ==
    IInv /\ [Next]_vars =>
        [\A i \in Used : members'[i].used =>
             /\ lastSnap[i] <= lastSnap'[i]
             /\ lastSnap'[i] > 0 /\ Reached(i, Newest(tick'))
                  => lastSnap'[i] = Newest(tick')]_vars
<1> SUFFICES ASSUME IInv, Next, NEW i \in Used, members'[i].used
             PROVE  /\ lastSnap[i] <= lastSnap'[i]
                    /\ lastSnap'[i] > 0 /\ Reached(i, Newest(tick'))
                         => lastSnap'[i] = Newest(tick')
  OBVIOUS
<1>1. /\ i \in Players /\ members[i].used /\ tick \in Nat
      /\ lastSnap[i] <= Newest(tick) /\ lastSnap[i] \in Nat
  BY PlanAssumption DEF IInv, TypeOK, SnapKept, Used
<1>2. IInv' /\ plan' = plan
  BY StepKeeps DEF Next, ProcessRoomQueues, RoomTick
<1>3. lastSnap'[i] > 0 /\ Reached(i, Newest(tick')) => lastSnap'[i] = Newest(tick')
  BY <1>1, <1>2 DEF IInv, SnapKept, Reached
<1>4. lastSnap[i] <= lastSnap'[i]
  <2>1. CASE ProcessRoomQueues
    <3>1. ~DueIn(i)
      BY <1>1 DEF DueIn
    <3>2. lastSnap'[i] = lastSnap[i]
      BY <1>1, <2>1, <3>1 DEF ProcessRoomQueues
    <3> QED BY <1>1, <3>2
  <2>2. CASE RoomTick
    <3>1. lastSnap'[i] = IF i \in Used /\ (tick + 1) % 3 = 0 /\ Reached(i, tick + 1)
                         THEN tick + 1 ELSE lastSnap[i]
      BY <1>1, <2>2 DEF RoomTick
    <3>2. Newest(tick) \in 0 .. tick
      BY <1>1, NewestMoves
    <3> QED BY <1>1, <3>1, <3>2
  <2> QED BY <2>1, <2>2 DEF Next
<1> QED BY <1>3, <1>4

(* The tick in a client's snapshots runs on through any number of room moves;   *)
(* and a client is behind its room only while the newest snapshot is one that   *)
(* found its send ring full or its session gone: whatever was dropped before,   *)
(* the first that fits brings it up to date (RoomManager.cpp:431-449, 519).     *)
THEOREM SnapshotsRunOn == Spec => SnapMonotone
BY AlwaysInv, SnapStep, PTL DEF Spec, SnapMonotone

--------------------------------------------------------------------------------
(* One push.                                                                    *)

(* Bodies at p and q on a line, which reach h each way, are apart after each    *)
(* has given way by n.                                                          *)
Parted(p, q, h, n) ==
    /\ n \in Int /\ Abs(n) <= h
    /\ 2 * h - Abs((q + n) - (p - n)) \in {0, 1}
    /\ q >= p <=> q + n >= p - n

(* They are if n is half of what they overlap by.                               *)
LEMMA PushedOnLine ==
    ASSUME NEW p \in Int, NEW q \in Int, NEW h \in Nat,
           NEW o, o = 2 * h - Abs(q - p), o > 0, NEW n, n = Sign(q - p) * (o \div 2)
    PROVE  Parted(p, q, h, n)
<1>1. o \in Nat /\ o <= 2 * h
  BY DEF Abs
<1>2. PICK k : k = o \div 2
  OBVIOUS
<1>3. k \in Nat /\ k <= h /\ o - 2 * k \in {0, 1}
  BY ONLY <1>1, <1>2, h \in Nat
<1>4. CASE q >= p
  <2>1. n = k /\ o = 2 * h - (q - p)
    BY <1>2, <1>3, <1>4 DEF Sign, Abs
  <2>2. Abs(n) = k /\ Abs((q + n) - (p - n)) = (q - p) + 2 * k
    BY <1>3, <1>4, <2>1 DEF Abs
  <2> QED BY <1>3, <1>4, <2>1, <2>2 DEF Parted
<1>5. CASE ~(q >= p)
  <2>1. n = -k /\ o = 2 * h - (p - q)
    BY <1>2, <1>3, <1>5 DEF Sign, Abs
  <2>2. Abs(n) = k /\ Abs((q + n) - (p - n)) = (p - q) + 2 * k
    BY <1>3, <1>5, <2>1 DEF Abs
  <2> QED BY <1>3, <1>5, <2>1, <2>2 DEF Parted
<1> QED BY <1>4, <1>5

(* A push takes two bodies apart, up to one point of the grid, along one axis:  *)
(* neither gives way by more than half a body, neither is thrown past the       *)
(* other, and nobody else moves (Sim.cpp:58-73).                                *)
THEOREM PushTakesApart ==
    ASSUME NEW w \in Worlds, NEW i \in Actors, NEW j \in Actors, i # j, Touch(w[i], w[j])
    PROVE  LET v == Pushed(w, i, j)
           IN  /\ \A a \in Actors \ {i, j} : v[a] = w[a]
               /\ \/ /\ OverlapX(v[i], v[j]) \in {0, 1}
                     /\ Abs(v[i].x - w[i].x) <= BODY_HALF_W * Unit
                     /\ v[i].x + v[j].x = w[i].x + w[j].x
                     /\ w[j].x >= w[i].x <=> v[j].x >= v[i].x
                     /\ v[i].y = w[i].y /\ v[j].y = w[j].y
                  \/ /\ OverlapY(v[i], v[j]) \in {0, 1}
                     /\ Abs(v[i].y - w[i].y) <= BODY_HALF_D * Unit
                     /\ v[i].y + v[j].y = w[i].y + w[j].y
                     /\ w[j].y >= w[i].y <=> v[j].y >= v[i].y
                     /\ v[i].x = w[i].x /\ v[j].x = w[j].x
<1> DEFINE v  == Pushed(w, i, j)
           px == Sign(w[j].x - w[i].x) * (OverlapX(w[i], w[j]) \div 2)
           py == Sign(w[j].y - w[i].y) * (OverlapY(w[i], w[j]) \div 2)
           hx == BODY_HALF_W * Unit
           hy == BODY_HALF_D * Unit
<1>1. /\ w[i].x \in Int /\ w[i].y \in Int /\ w[j].x \in Int /\ w[j].y \in Int
      /\ w[i] \in [present : BOOLEAN, x : Int, y : Int]
      /\ w[j] \in [present : BOOLEAN, x : Int, y : Int]
  BY Overlaps DEF Worlds
<1>2. hx \in Nat /\ hy \in Nat
  BY StageAssumption
<1>3. /\ \A a, b : OverlapX(a, b) = 2 * hx - Abs(b.x - a.x)
      /\ \A a, b : OverlapY(a, b) = 2 * hy - Abs(b.y - a.y)
  <2>1. 2 * BODY_HALF_W * Unit = 2 * hx /\ 2 * BODY_HALF_D * Unit = 2 * hy
    BY StageAssumption
  <2> HIDE DEF hx, hy
  <2> QED BY <2>1 DEF OverlapX, OverlapY
<1>4. CASE PushX(w[i], w[j])
  <2>1. v = [w EXCEPT ![i].x = @ - px, ![j].x = @ + px]
    BY <1>4 DEF Pushed, Apart
  <2>2. /\ px \in Int /\ Abs(px) <= hx
        /\ 2 * hx - Abs((w[j].x + px) - (w[i].x - px)) \in {0, 1}
        /\ w[j].x >= w[i].x <=> w[j].x + px >= w[i].x - px
    <3> DEFINE o == OverlapX(w[i], w[j])
               p == w[i].x
               q == w[j].x
    <3>1. o = 2 * hx - Abs(q - p) /\ o > 0
      BY <1>3 DEF Touch
    <3>2. px = Sign(q - p) * (o \div 2)
      OBVIOUS
    <3>3. p \in Int /\ q \in Int /\ hx \in Nat
      BY <1>1, <1>2
    <3> HIDE DEF o, p, q, hx, px
    <3>4. Parted(p, q, hx, px)
      BY ONLY <3>1, <3>2, <3>3, PushedOnLine, Zenon
    <3> QED BY ONLY <3>4 DEF Parted, p, q
  <2> HIDE DEF px, v, hx
  <2>3. /\ v[i].x = w[i].x - px /\ v[j].x = w[j].x + px /\ v[i].y = w[i].y /\ v[j].y = w[j].y
        /\ \A a \in Actors \ {i, j} : v[a] = w[a]
    BY <1>1, <2>1, <2>2 DEF Worlds
  <2>4. OverlapX(v[i], v[j]) \in {0, 1}
    BY <1>3, <2>2, <2>3
  <2>5. Abs(v[i].x - w[i].x) <= hx /\ v[i].x + v[j].x = w[i].x + w[j].x
    BY <1>1, <2>2, <2>3 DEF Abs
  <2>6. w[j].x >= w[i].x <=> v[j].x >= v[i].x
    BY <2>2, <2>3
  <2> QED BY <2>3, <2>4, <2>5, <2>6 DEF v, hx
<1>5. CASE ~PushX(w[i], w[j])
  <2>1. v = [w EXCEPT ![i].y = @ - py, ![j].y = @ + py]
    BY <1>5 DEF Pushed, Apart
  <2>2. /\ py \in Int /\ Abs(py) <= hy
        /\ 2 * hy - Abs((w[j].y + py) - (w[i].y - py)) \in {0, 1}
        /\ w[j].y >= w[i].y <=> w[j].y + py >= w[i].y - py
    <3> DEFINE o == OverlapY(w[i], w[j])
               p == w[i].y
               q == w[j].y
    <3>1. o = 2 * hy - Abs(q - p) /\ o > 0
      BY <1>3 DEF Touch
    <3>2. py = Sign(q - p) * (o \div 2)
      OBVIOUS
    <3>3. p \in Int /\ q \in Int /\ hy \in Nat
      BY <1>1, <1>2
    <3> HIDE DEF o, p, q, hy, py
    <3>4. Parted(p, q, hy, py)
      BY ONLY <3>1, <3>2, <3>3, PushedOnLine, Zenon
    <3> QED BY ONLY <3>4 DEF Parted, p, q
  <2> HIDE DEF py, v, hy
  <2>3. /\ v[i].y = w[i].y - py /\ v[j].y = w[j].y + py /\ v[i].x = w[i].x /\ v[j].x = w[j].x
        /\ \A a \in Actors \ {i, j} : v[a] = w[a]
    BY <1>1, <2>1, <2>2 DEF Worlds
  <2>4. OverlapY(v[i], v[j]) \in {0, 1}
    BY <1>3, <2>2, <2>3
  <2>5. Abs(v[i].y - w[i].y) <= hy /\ v[i].y + v[j].y = w[i].y + w[j].y
    BY <1>1, <2>2, <2>3 DEF Abs
  <2>6. w[j].y >= w[i].y <=> v[j].y >= v[i].y
    BY <2>2, <2>3
  <2> QED BY <2>3, <2>4, <2>5, <2>6 DEF v, hy
<1> QED BY <1>4, <1>5

--------------------------------------------------------------------------------
(* A room that has come to rest.                                                *)

(* Bodies that touch do so by a single point of the grid, which no push can     *)
(* halve.                                                                       *)
AtRest(w) ==
    \A a, b \in Actors : a # b /\ Touch(w[a], w[b])
        => OverlapX(w[a], w[b]) = 1 \/ OverlapY(w[a], w[b]) = 1

(* Nobody at rest is pushed.                                                    *)
LEMMA RestPushed ==
    ASSUME NEW w \in Worlds, AtRest(w), NEW i \in Actors, NEW j \in Actors, i # j
    PROVE  Pushed(w, i, j) = w
<1>1. CASE ~Touch(w[i], w[j])
  BY <1>1 DEF Pushed
<1>2. CASE Touch(w[i], w[j])
  <2> DEFINE px == Sign(w[j].x - w[i].x) * (OverlapX(w[i], w[j]) \div 2)
             py == Sign(w[j].y - w[i].y) * (OverlapY(w[i], w[j]) \div 2)
  <2>1. /\ OverlapX(w[i], w[j]) \in Int /\ OverlapX(w[i], w[j]) > 0
        /\ OverlapY(w[i], w[j]) \in Int /\ OverlapY(w[i], w[j]) > 0
        /\ OverlapX(w[i], w[j]) = 1 \/ OverlapY(w[i], w[j]) = 1
    BY <1>2, Overlaps DEF AtRest, Touch
  <2>2. OverlapX(w[i], w[j]) = 1 => px = 0
    BY DEF Sign
  <2>3. OverlapY(w[i], w[j]) = 1 => py = 0
    BY DEF Sign
  <2>4. Pushed(w, i, j) = IF PushX(w[i], w[j])
                            THEN [w EXCEPT ![i].x = @ - px, ![j].x = @ + px]
                            ELSE [w EXCEPT ![i].y = @ - py, ![j].y = @ + py]
    BY <1>2 DEF Pushed, Apart
  <2> HIDE DEF px, py
  <2>5. CASE PushX(w[i], w[j])
    <3>1. px = 0
      BY <2>1, <2>2, <2>5 DEF PushX
    <3>2. Pushed(w, i, j) = [w EXCEPT ![i].x = @ - px, ![j].x = @ + px]
      BY <2>4, <2>5
    <3>3. [w EXCEPT ![i].x = @ - px, ![j].x = @ + px] = w
      BY ONLY w \in Worlds, i \in Actors, j \in Actors, <3>1 DEF Worlds
    <3> QED BY <3>2, <3>3
  <2>6. CASE ~PushX(w[i], w[j])
    <3>1. py = 0
      BY <2>1, <2>3, <2>6 DEF PushX
    <3>2. Pushed(w, i, j) = [w EXCEPT ![i].y = @ - py, ![j].y = @ + py]
      BY <2>4, <2>6
    <3>3. [w EXCEPT ![i].y = @ - py, ![j].y = @ + py] = w
      BY ONLY w \in Worlds, i \in Actors, j \in Actors, <3>1 DEF Worlds
    <3> QED BY <3>2, <3>3
  <2> QED BY <2>5, <2>6
<1> QED BY <1>1, <1>2

(* Nor by a whole run of the inner loop.                                        *)
LEMMA RestPushedBy ==
    ASSUME NEW w \in Worlds, AtRest(w), NEW i \in Actors
    PROVE  PushedBy(w, i) = w
<1>0. \E f : InnerRun(w, i, f)
  BY InnerExists
<1>1. PICK f : InnerRun(w, i, f) /\ PushedBy(w, i) = IF w[i].present THEN f[kSnapActors - 1] ELSE w
  BY <1>0 DEF PushedBy, InnerRun
<1> DEFINE n == kSnapActors - 1 - i
           S == {k \in 0 .. n : f[i + k] = w}
<1>2. n \in Nat /\ i \in Int /\ kSnapActors \in Int
      /\ \A k \in 0 .. n : i + k \in i .. kSnapActors - 1 /\ i + k \in Actors
  BY ActorAssumption DEF Actors
<1>3. \A j \in i .. kSnapActors - 1 : f[j] = IF j = i THEN w ELSE Pushed(f[j - 1], i, j)
  BY <1>1 DEF InnerRun
<1>4. 0 \in S
  <2>1. i + 0 = i /\ i \in i .. kSnapActors - 1 /\ 0 \in 0 .. n
    BY <1>2
  <2> QED BY <1>3, <2>1
<1>5. ASSUME NEW k \in 1 .. n, k - 1 \in S
      PROVE  k \in S
  <2>1. /\ k \in 0 .. n /\ i + k # i /\ i + k \in i .. kSnapActors - 1 /\ i + k \in Actors
        /\ (i + k) - 1 = i + (k - 1)
    BY <1>2
  <2>2. f[(i + k) - 1] = w
    BY <1>5, <2>1
  <2>3. f[i + k] = Pushed(w, i, i + k)
    BY <1>3, <2>1, <2>2
  <2>4. f[i + k] = w
    BY <2>1, <2>3, RestPushed
  <2> QED BY <2>1, <2>4
<1> HIDE DEF S
<1>6. \A k \in 0 .. n : k \in S
  <2> HIDE DEF n
  <2>1. n \in Nat
    BY <1>2
  <2> QED BY <1>4, <1>5, <2>1, UpTo
<1>7. n \in 0 .. n /\ i + n = kSnapActors - 1
  BY <1>2
<1>8. f[kSnapActors - 1] = w
  BY <1>6, <1>7 DEF S
<1> QED BY <1>1, <1>8

(* Nor by both loops.                                                           *)
LEMMA RestSeparated ==
    ASSUME NEW w \in Worlds, AtRest(w)
    PROVE  Separated(w) = w
<1>0. \E f : OuterRun(w, f)
  BY OuterExists
<1>1. PICK f : OuterRun(w, f) /\ Separated(w) = f[kSnapActors]
  BY <1>0 DEF Separated, OuterRun
<1> DEFINE S == {k \in 0 .. kSnapActors : f[k] = w}
<1>2. /\ kSnapActors \in Nat /\ 0 \in 0 .. kSnapActors /\ kSnapActors \in 0 .. kSnapActors
      /\ \A k \in 1 .. kSnapActors : k \in 0 .. kSnapActors /\ k # 0 /\ k - 1 \in Actors
  BY ActorAssumption DEF Actors
<1>3. \A k \in 0 .. kSnapActors : f[k] = IF k = 0 THEN w ELSE PushedBy(f[k - 1], k - 1)
  BY <1>1 DEF OuterRun
<1>4. 0 \in S
  BY <1>2, <1>3
<1>5. ASSUME NEW k \in 1 .. kSnapActors, k - 1 \in S
      PROVE  k \in S
  <2>1. k \in 0 .. kSnapActors /\ k # 0 /\ k - 1 \in Actors
    BY <1>2
  <2>2. f[k - 1] = w
    BY <1>5
  <2>3. f[k] = PushedBy(w, k - 1)
    BY <1>3, <2>1, <2>2
  <2>4. f[k] = w
    BY <2>1, <2>3, RestPushedBy
  <2> QED BY <2>1, <2>4
<1> HIDE DEF S
<1>6. \A k \in 0 .. kSnapActors : k \in S
  BY <1>2, <1>4, <1>5, UpTo
<1>7. kSnapActors \in S
  BY <1>2, <1>6
<1> QED BY <1>1, <1>7 DEF S

(* Where an input takes an actor that nobody pushes.                            *)
WalkedAll(w, inputs) ==
    [a \in Actors |-> IF a \in Players THEN Walked(w[a], inputs[a]) ELSE w[a]]

(* A tick takes everybody where its own input takes it, up to the edges of the  *)
(* stage, unless two bodies overlap by more than a point when all have walked:  *)
(* the order in which the loops look at pairs makes no difference then          *)
(* (Sim.cpp:45-82).                                                             *)
THEOREM WalksFreely ==
    ASSUME NEW w \in Worlds, NEW inputs \in [Players -> Directions],
           AtRest(WalkedAll(w, inputs))
    PROVE  SimStep(w, inputs) = [a \in Actors |-> OnStage(WalkedAll(w, inputs)[a])]
<1> DEFINE walked == WalkedAll(w, inputs)
<1>1. SimStep(w, inputs) = [a \in Actors |-> OnStage(Separated(walked)[a])]
  BY DEF SimStep, WalkedAll
<1>2. walked \in Worlds
  <2>1. ASSUME NEW a \in Actors
        PROVE  walked[a] \in [present : BOOLEAN, x : Int, y : Int]
    <3>1. w[a] \in [present : BOOLEAN, x : Int, y : Int]
      BY DEF Worlds
    <3>2. CASE a \in Players
      <4>1. walked[a] = Walked(w[a], inputs[a])
        BY <3>2 DEF WalkedAll
      <4> QED BY <3>1, <3>2, <4>1, WalkSound
    <3>3. CASE a \notin Players
      BY <3>1, <3>3 DEF WalkedAll
    <3> QED BY <3>2, <3>3
  <2>2. walked = [a \in Actors |-> walked[a]]
    BY DEF WalkedAll
  <2> HIDE DEF walked
  <2> QED BY <2>1, <2>2 DEF Worlds
<1> HIDE DEF walked
<1>3. Separated(walked) = walked
  BY <1>2, RestSeparated DEF walked
<1> QED BY <1>1, <1>3 DEF walked

(* Who stands on the stage is not clamped.                                      *)
LEMMA StandsStill ==
    ASSUME NEW a \in [present : BOOLEAN, x : Int, y : Int], Standing(a)
    PROVE  OnStage(a) = a
<1>1. /\ Clamp(a.x, STAGE_MARGIN * Unit, (WORLD_W - STAGE_MARGIN) * Unit) = a.x
      /\ Clamp(a.y, DEPTH_MIN * Unit, DEPTH_MAX * Unit) = a.y
  <2>1. ASSUME NEW v \in Int, NEW lo \in Int, NEW hi \in Int, v \in lo .. hi
        PROVE  Clamp(v, lo, hi) = v
    BY <2>1 DEF Clamp
  <2> QED BY <2>1, Edges DEF Standing
<1>2. OnStage(a) = [a EXCEPT !.x = a.x, !.y = a.y]
  BY <1>1 DEF OnStage
<1> QED BY <1>2

(* Who holds no direction stays where it is.                                    *)
LEMMA StillWalks ==
    ASSUME NEW a \in [present : BOOLEAN, x : Int, y : Int]
    PROVE  Walked(a, Still) = a
<1>1. PICK sx \in Int : sx = StepX
  BY StageAssumption
<1>2. PICK sy \in Int : sy = StepY
  BY StageAssumption
<1>3. 0 * sx = 0 /\ 0 * sy = 0
  OBVIOUS
<1>4. Walked(a, Still) = IF ~a.present THEN a ELSE [a EXCEPT !.x = @ + 0 * sx, !.y = @ + 0 * sy]
  BY <1>1, <1>2 DEF Walked, Still
<1>5. a.x + 0 * sx = a.x /\ a.y + 0 * sy = a.y
  <2>1. a.x \in Int /\ a.y \in Int
    OBVIOUS
  <2> QED BY <1>3, <2>1
<1>6. [a EXCEPT !.x = @ + 0 * sx, !.y = @ + 0 * sy] = [a EXCEPT !.x = a.x, !.y = a.y]
  BY <1>5
<1>7. [a EXCEPT !.x = a.x, !.y = a.y] = a
  OBVIOUS
<1> QED BY <1>4, <1>6, <1>7

(* How long ago a member's last input was is what its streak says, and who has  *)
(* sent none for long enough holds no direction.                                *)
RunDown ==
    /\ lastStir <= tick
    /\ \A i \in Players : members[i].used =>
         /\ members[i].emptyStreak > NeutralAfter => members[i].held = Still
         /\ members[i].emptyStreak > NeutralAfter \/ members[i].emptyStreak >= tick - lastStir

(* What a member that sends nothing holds after a tick.                         *)
LEMMA ConsumedNothing ==
    ASSUME IInv, NEW i \in Players, members[i].used, ~Sends(i)
    PROVE  /\ Consumed(i).emptyStreak = IF members[i].emptyStreak > NeutralAfter
                                          THEN members[i].emptyStreak
                                          ELSE members[i].emptyStreak + 1
           /\ Consumed(i).held = IF Consumed(i).emptyStreak > NeutralAfter
                                   THEN Still ELSE members[i].held
<1> DEFINE m == members[i]
           streak == IF m.emptyStreak > NeutralAfter THEN m.emptyStreak ELSE m.emptyStreak + 1
<1>1. m \in Member
  BY DEF IInv, TypeOK, Member
<1>2. Consumed(i) = [m EXCEPT !.held = Neutral(m, streak), !.emptyStreak = streak]
  BY DEF Consumed
<1> HIDE DEF m, streak
<1>3. Consumed(i).held = Neutral(m, streak) /\ Consumed(i).emptyStreak = streak
  BY <1>1, <1>2 DEF Member
<1> QED BY <1>3 DEF Neutral, m, streak

(* Nobody has been in the room yet.                                             *)
LEMMA RunDownStart == Init => RunDown
BY PlanAssumption DEF Init, RunDown, Fresh

(* Joins and leaves stir the room.                                              *)
LEMMA RunDownQueues == IInv /\ RunDown /\ ProcessRoomQueues => RunDown'
<1> SUFFICES ASSUME IInv, RunDown, ProcessRoomQueues PROVE RunDown'
  OBVIOUS
<1>1. lastStir' = tick /\ tick' = tick /\ tick \in Nat /\ NeutralAfter \in Nat
  BY PlanAssumption DEF ProcessRoomQueues, IInv, TypeOK
<1>2. ASSUME NEW i \in Players, members'[i].used
      PROVE  /\ members'[i].emptyStreak > NeutralAfter => members'[i].held = Still
             /\ members'[i].emptyStreak > NeutralAfter \/ members'[i].emptyStreak >= tick' - lastStir'
  <2> DEFINE stays == [members[i] EXCEPT !.used = @ /\ ~DueOut(i)]
  <2>1. members[i] \in Member
    BY DEF IInv, TypeOK, Member
  <2>2. members'[i] = IF DueIn(i) THEN Fresh ELSE stays
    BY DEF ProcessRoomQueues
  <2>3. CASE DueIn(i)
    <3>1. members'[i].emptyStreak = 0 /\ members'[i].held = Still
      BY <2>2, <2>3 DEF Fresh
    <3> QED BY <1>1, <3>1
  <2>4. CASE ~DueIn(i)
    <3>1. members'[i] = stays
      BY <2>2, <2>4
    <3>2. PICK b : b = (members[i].used /\ ~DueOut(i))
      OBVIOUS
    <3>3. stays = [members[i] EXCEPT !.used = b]
      BY <3>2
    <3>4. members'[i].used = b /\ members'[i].held = members[i].held
          /\ members'[i].emptyStreak = members[i].emptyStreak
      BY ONLY <2>1, <3>1, <3>3 DEF Member
    <3>5. members[i].used
      BY <1>2, <3>2, <3>4
    <3>6. members[i].emptyStreak >= 0
      BY <2>1 DEF Member
    <3> QED BY <1>1, <3>4, <3>5, <3>6 DEF RunDown
  <2> QED BY <2>3, <2>4
<1> QED BY <1>1, <1>2 DEF RunDown

(* One more tick without an input.                                              *)
LEMMA StreakGrows ==
    ASSUME NEW n \in Nat, NEW now \in Nat, NEW stir \in Nat, NEW old \in Nat, NEW new,
           NEW next, NEW last, stir <= now, next = now + 1, last \in {now + 1, stir},
           old > n \/ old >= now - stir, new = IF old > n THEN old ELSE old + 1
    PROVE  new > n \/ new >= next - last
<1>1. CASE last = now + 1
  BY <1>1
<1>2. CASE last = stir
  BY <1>2
<1> QED BY <1>1, <1>2

(* A tick counts for whoever sends nothing.                                     *)
LEMMA RunDownTick == IInv /\ RunDown /\ RoomTick => RunDown'
<1> SUFFICES ASSUME IInv, RunDown, RoomTick PROVE RunDown'
  OBVIOUS
<1>1. /\ tick' = tick + 1 /\ lastStir' \in {tick + 1, lastStir}
      /\ (\E i \in Used : Sends(i)) => lastStir' = tick + 1
      /\ \A i \in Players : members'[i] = Consumed(i)
  BY DEF RoomTick, CarriedTick
<1>2. tick \in Nat /\ lastStir \in Nat /\ lastStir <= tick /\ NeutralAfter \in Nat /\ TypeOK
  BY PlanAssumption DEF IInv, TypeOK, RunDown
<1>3. ASSUME NEW i \in Players, members'[i].used
      PROVE  /\ members'[i].emptyStreak > NeutralAfter => members'[i].held = Still
             /\ members'[i].emptyStreak > NeutralAfter \/ members'[i].emptyStreak >= tick' - lastStir'
  <2>1. members[i] \in Member /\ members[i].used
    BY <1>1, <1>2, <1>3, ConsumedSound DEF TypeOK, Member
  <2>2. CASE Sends(i)
    <3>1. members'[i] = [members[i] EXCEPT !.held = Sent(i), !.emptyStreak = 0]
      BY <1>1, <2>1, <2>2 DEF Consumed
    <3>2. members'[i].emptyStreak = 0
      BY <2>1, <3>1 DEF Member
    <3>3. lastStir' = tick + 1
      BY <1>1, <2>1, <2>2 DEF Used
    <3> QED BY <1>1, <1>2, <3>2, <3>3
  <2>3. CASE ~Sends(i)
    <3>1. PICK old : old = members[i].emptyStreak
      OBVIOUS
    <3>2. PICK new : new = members'[i].emptyStreak
      OBVIOUS
    <3>3. PICK next : next = tick'
      OBVIOUS
    <3>4. PICK last : last = lastStir'
      OBVIOUS
    <3>5. new = IF old > NeutralAfter THEN old ELSE old + 1
      BY <1>1, <2>1, <2>3, <3>1, <3>2, ConsumedNothing
    <3>6. new > NeutralAfter => members'[i].held = Still
      BY <1>1, <2>1, <2>3, <3>2, ConsumedNothing
    <3>7. old \in Nat /\ (old > NeutralAfter \/ old >= tick - lastStir)
      BY <1>2, <2>1, <3>1 DEF RunDown, Member
    <3>8. next = tick + 1 /\ last \in {tick + 1, lastStir}
      BY <1>1, <3>3, <3>4
    <3>9. new > NeutralAfter \/ new >= next - last
      BY ONLY <1>2, <3>5, <3>7, <3>8, StreakGrows
    <3> QED BY <3>2, <3>3, <3>4, <3>6, <3>9
  <2> QED BY <2>2, <2>3
<1> QED BY <1>1, <1>2, <1>3 DEF RunDown

(* It is inductive.                                                             *)
LEMMA RunDownStep == IInv /\ RunDown /\ [Next]_vars => RunDown'
<1>1. IInv /\ RunDown /\ UNCHANGED vars => RunDown'
  BY DEF RunDown, vars
<1> QED BY <1>1, RunDownQueues, RunDownTick DEF Next

(* It holds in every reachable state.                                           *)
LEMMA AlwaysRunDown == Spec => []RunDown
BY AlwaysInv, RunDownStart, RunDownStep, PTL DEF Spec

(* Nobody walks on for ever after its connection has gone quiet: when a room    *)
(* has had no input for longer than a held one counts, nobody in it holds a     *)
(* direction, whoever joined, left or moved on before (RoomManager.cpp:377).    *)
THEOREM InputsRunOut ==
    Spec => [](tick - lastStir > NeutralAfter => \A i \in Used : members[i].held = Still)
<1>1. IInv /\ RunDown => (tick - lastStir > NeutralAfter => \A i \in Used : members[i].held = Still)
  <2> SUFFICES ASSUME IInv, RunDown, tick - lastStir > NeutralAfter, NEW i \in Used
               PROVE  members[i].held = Still
    OBVIOUS
  <2>1. i \in Players /\ members[i].used
    BY DEF Used
  <2>2. /\ tick \in Int /\ lastStir \in Int /\ NeutralAfter \in Nat
        /\ members[i].emptyStreak \in Nat
    BY <2>1, PlanAssumption DEF IInv, TypeOK
  <2> QED BY <2>1, <2>2 DEF RunDown
<1> QED BY <1>1, AlwaysInv, AlwaysRunDown, PTL

(* A tick of a quiet room at rest moves nobody that is there.                   *)
LEMMA RestStep ==
    ASSUME IInv, RunDown, Next, tick' > tick, lastStir' = lastStir,
           tick - lastStir >= NeutralAfter, AtRest(actors)
    PROVE  (\A a \in Actors : actors[a].present => actors'[a] = actors[a]) /\ AtRest(actors)'
<1> DEFINE ms     == [i \in Players |-> Consumed(i)]
           inputs == [i \in Players |-> IF ms[i].used THEN ms[i].held ELSE Still]
           world  == SimStep(actors, inputs)
           t      == tick + 1
           leaves == ExitReached(world) /\ t >= freeFrom
<1>1. RoomTick
  <2>1. CASE ProcessRoomQueues
    <3>1. tick' = tick /\ tick \in Nat
      BY <2>1, PlanAssumption DEF ProcessRoomQueues, IInv, TypeOK
    <3> QED BY <3>1
  <2> QED BY <2>1 DEF Next
<1>2. /\ lastStir' = IF leaves \/ \E i \in Used : Sends(i) THEN t ELSE lastStir
      /\ actors' = IF leaves THEN NewRoom ELSE world
  BY <1>1 DEF RoomTick
<1>3. /\ TypeOK /\ actors \in Worlds /\ tick \in Nat /\ lastStir \in Nat /\ lastStir <= tick
      /\ NeutralAfter \in Nat
  BY PlanAssumption DEF IInv, TypeOK, RunDown
<1>4. actors' = world /\ \A i \in Used : ~Sends(i)
  <2>1. lastStir # t
    BY <1>3
  <2> HIDE DEF world, leaves, t
  <2> QED BY <1>2, <2>1
<1>5. inputs = [i \in Players |-> Still]
  <2>1. ASSUME NEW i \in Players, ms[i].used
        PROVE  ms[i].held = Still
    <3>1. members[i].used /\ ~Sends(i)
      BY <1>3, <1>4, <2>1, ConsumedSound DEF Used
    <3>2. members[i].emptyStreak \in Nat
      BY <1>3 DEF TypeOK
    <3>3. members[i].emptyStreak > NeutralAfter \/ members[i].emptyStreak >= tick - lastStir
      BY <3>1 DEF RunDown
    <3>4. Consumed(i).emptyStreak > NeutralAfter
      BY <1>3, <3>1, <3>2, <3>3, ConsumedNothing
    <3> QED BY <3>1, <3>4, ConsumedNothing
  <2> HIDE DEF ms
  <2> QED BY <2>1
<1> HIDE DEF inputs
<1>6. inputs \in [Players -> Directions]
  BY <1>5 DEF Still, Directions
<1>7. WalkedAll(actors, inputs) = actors
  <2>1. ASSUME NEW a \in Actors
        PROVE  (IF a \in Players THEN Walked(actors[a], inputs[a]) ELSE actors[a]) = actors[a]
    <3>1. CASE a \in Players
      <4>1. actors[a] \in [present : BOOLEAN, x : Int, y : Int] /\ inputs[a] = Still
        BY <1>3, <1>5, <3>1 DEF Worlds
      <4>2. Walked(actors[a], inputs[a]) = actors[a]
        BY <4>1, StillWalks
      <4> QED BY <4>2
    <3>2. CASE a \notin Players
      BY <3>2
    <3> QED BY <3>1, <3>2
  <2>2. actors = [a \in Actors |-> actors[a]]
    BY <1>3 DEF Worlds
  <2> QED BY <2>1, <2>2 DEF WalkedAll
<1>8. world = [a \in Actors |-> OnStage(actors[a])]
  <2>1. AtRest(WalkedAll(actors, inputs))
    BY <1>7
  <2>2. world = [a \in Actors |-> OnStage(WalkedAll(actors, inputs)[a])]
    BY <1>3, <1>6, <2>1, WalksFreely
  <2> QED BY <1>7, <2>2
<1> HIDE DEF world
<1>9. ASSUME NEW a \in Actors
      PROVE  actors'[a].present = actors[a].present /\ (actors[a].present => actors'[a] = actors[a])
  <2>1. actors[a] \in [present : BOOLEAN, x : Int, y : Int] /\ actors'[a] = OnStage(actors[a])
    BY <1>3, <1>4, <1>8 DEF Worlds
  <2>2. OnStage(actors[a]).present = actors[a].present
    BY <2>1, ClampedStands
  <2>3. actors[a].present => OnStage(actors[a]) = actors[a]
    <3>1. actors[a].present => Standing(actors[a])
      BY <1>3 DEF TypeOK, Standing
    <3> QED BY <2>1, <3>1, StandsStill
  <2> QED BY <2>1, <2>2, <2>3
<1>10. AtRest(actors)'
  <2> SUFFICES ASSUME NEW a \in Actors, NEW b \in Actors, a # b, Touch(actors'[a], actors'[b])
               PROVE  OverlapX(actors'[a], actors'[b]) = 1 \/ OverlapY(actors'[a], actors'[b]) = 1
    BY DEF AtRest
  <2>1. actors'[a].present /\ actors'[b].present
    BY DEF Touch
  <2>2. actors'[a] = actors[a] /\ actors'[b] = actors[b]
    BY <1>9, <2>1
  <2> QED BY <2>2 DEF AtRest
<1> QED BY <1>9, <1>10

(* The half of Settles that needs no count of pushes: once the inputs have run  *)
(* out and bodies have come apart, no tick moves anybody that is there and they *)
(* stay apart until somebody stirs the room (Sim.cpp:45-82,                     *)
(* RoomManager.cpp:377).  How many ticks a crowd takes to get there is checked  *)
(* by the run.                                                                  *)
THEOREM RestLasts ==
    Spec => [][tick' > tick /\ lastStir' = lastStir /\ tick - lastStir >= NeutralAfter
               /\ AtRest(actors)
               => /\ \A a \in Actors : actors[a].present => actors'[a] = actors[a]
                  /\ AtRest(actors)']_vars
<1>1. IInv /\ RunDown /\ [Next]_vars =>
        [tick' > tick /\ lastStir' = lastStir /\ tick - lastStir >= NeutralAfter /\ AtRest(actors)
         => /\ \A a \in Actors : actors[a].present => actors'[a] = actors[a]
            /\ AtRest(actors)']_vars
  BY RestStep
<1> QED BY <1>1, AlwaysInv, AlwaysRunDown, PTL DEF Spec

================================================================================
