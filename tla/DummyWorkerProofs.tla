--------------------------- MODULE DummyWorkerProofs ---------------------------
(* Theorems about DummyWorker, for any clients and command lines and any sizes  *)
(* of the buffers.                                                              *)
EXTENDS DummyWorker, SequenceTheorems, FiniteSetTheorems, WellFoundedInduction, TLAPS

(* A non-empty set of numbers has a least one: the finite sets 0 .. x are well  *)
(* founded under strict inclusion.                                              *)
LEMMA LeastNat ==
    ASSUME NEW S \in SUBSET Nat, S # {}
    PROVE  \E x \in S : \A y \in S : x <= y
<1> DEFINE T == {0 .. x : x \in S}
<1>1. T \subseteq FiniteSubsetsOf(Nat)
  <2>1. SUFFICES ASSUME NEW x \in S
                 PROVE  0 .. x \in FiniteSubsetsOf(Nat)
    OBVIOUS
  <2>2. 0 .. x \in SUBSET Nat /\ x \in Int
    OBVIOUS
  <2>3. IsFiniteSet(0 .. x)
    BY <2>2, FS_Interval
  <2> QED BY <2>2, <2>3 DEF FiniteSubsetsOf
<1>2. \E u \in T : \A v \in T : ~ (<<v, u>> \in StrictSubsetOrdering(Nat))
  <2>1. T # {} OBVIOUS
  <2> HIDE DEF T
  <2> QED BY <1>1, <2>1, WFMin, FS_StrictSubsetOrderingWellFounded
<1>3. PICK x \in S : \A y \in S : ~ (<<0 .. y, 0 .. x>> \in StrictSubsetOrdering(Nat))
  BY <1>2
<1>4. ASSUME NEW y \in S, y < x
      PROVE  FALSE
  <2>1. 0 .. y \subseteq 0 .. x
    BY <1>4
  <2>2. x \in 0 .. x /\ x \notin 0 .. y
    BY <1>4
  <2>3. 0 .. y \in SUBSET Nat /\ 0 .. x \in SUBSET Nat
    OBVIOUS
  <2> DEFINE p == <<0 .. y, 0 .. x>>
  <2>4. p \in (SUBSET Nat) \X (SUBSET Nat) /\ p[1] \subseteq p[2] /\ p[1] # p[2]
    BY <2>1, <2>2, <2>3, Zenon
  <2>5. p \in StrictSubsetOrdering(Nat)
    BY <2>4 DEF StrictSubsetOrdering
  <2> QED BY <1>3, <2>5
<1> QED BY <1>4

(* Induction over the positions of a finite list.                               *)
LEMMA UpTo ==
    ASSUME NEW n \in Nat, NEW S,
           0 \in S, \A k \in 1 .. n : k - 1 \in S => k \in S
    PROVE  \A k \in 0 .. n : k \in S
<1> DEFINE Missing == (0 .. n) \ S
<1>1. ASSUME NEW k \in Missing, \A j \in Missing : k <= j
      PROVE  FALSE
  <2>1. k \in 1 .. n
    BY <1>1
  <2>2. k - 1 \notin Missing
    BY <1>1, <2>1
  <2> QED BY <1>1, <2>1, <2>2
<1>2. Missing = {}
  <2>1. Missing \in SUBSET Nat
    OBVIOUS
  <2> HIDE DEF Missing
  <2> QED BY <1>1, <2>1, LeastNat
<1> QED BY <1>2

--------------------------------------------------------------------------------
(* What is on its way.                                                          *)

(* Two lists, one behind the other.                                             *)
LEMMA Joined ==
    ASSUME NEW p \in Seq(Halves), NEW q \in Seq(Halves)
    PROVE  /\ p \o q \in Seq(Halves) /\ Len(p \o q) = Len(p) + Len(q)
           /\ \A k \in 1 .. Len(p) + Len(q) :
                 (p \o q)[k] = IF k <= Len(p) THEN p[k] ELSE q[k - Len(p)]
OBVIOUS

(* A list of halves is what is in front of a place and what is behind it.       *)
LEMMA Split ==
    ASSUME NEW q \in Seq(Halves), NEW k \in 0 .. Len(q)
    PROVE  /\ SubSeq(q, 1, k) \in Seq(Halves) /\ SubSeq(q, k + 1, Len(q)) \in Seq(Halves)
           /\ Len(SubSeq(q, 1, k)) = k /\ Len(SubSeq(q, k + 1, Len(q))) = Len(q) - k
           /\ SubSeq(q, 1, k) \o SubSeq(q, k + 1, Len(q)) = q
<1> Len(q) \in Nat
  OBVIOUS
<1>1. \A i \in 1 .. Len(q) : q[i] \in Halves
  OBVIOUS
<1>2. SubSeq(q, 1, k) \in Seq(Halves) /\ Len(SubSeq(q, 1, k)) = k
  <2>1. \A i \in 1 .. k : q[i] \in Halves
    BY <1>1
  <2>2. Len(SubSeq(q, 1, k)) = IF 1 <= k THEN k - 1 + 1 ELSE 0
    BY <2>1, SubSeqProperties
  <2> QED BY <2>1, <2>2, SubSeqProperties
<1>3. SubSeq(q, k + 1, Len(q)) \in Seq(Halves) /\ Len(SubSeq(q, k + 1, Len(q))) = Len(q) - k
  <2>1. \A i \in k + 1 .. Len(q) : q[i] \in Halves
    BY <1>1
  <2>2. Len(SubSeq(q, k + 1, Len(q))) = IF k + 1 <= Len(q) THEN Len(q) - (k + 1) + 1 ELSE 0
    BY <2>1, SubSeqProperties
  <2> QED BY <2>1, <2>2, SubSeqProperties
<1>4. SubSeq(q, 1, k) \o SubSeq(q, k + 1, Len(q)) = SubSeq(q, 1, Len(q))
  <2>1. 1 \in 1 .. Len(q) + 1 /\ k \in 1 - 1 .. Len(q) /\ Len(q) \in k .. Len(q)
    OBVIOUS
  <2> QED BY <2>1, ConcatAdjacentSubSeq
<1>5. SubSeq(q, 1, Len(q)) = q
  BY SubSeqFull
<1> QED BY <1>2, <1>3, <1>4, <1>5

(* The list from a place on.                                                    *)
LEMMA Rest ==
    ASSUME NEW q \in Seq(Halves), NEW j \in 0 .. Len(q)
    PROVE  /\ SubSeq(q, j + 1, Len(q)) \in Seq(Halves)
           /\ Len(SubSeq(q, j + 1, Len(q))) = Len(q) - j
           /\ \A k \in 1 .. Len(q) - j : SubSeq(q, j + 1, Len(q))[k] = q[j + k]
<1> DEFINE a == j + 1
           b == Len(q)
<1>1. a \in Int /\ b \in Int /\ \A i \in a .. b : q[i] \in Halves
  OBVIOUS
<1>2. b - a + 1 = Len(q) - j /\ (~(a <= b) => Len(q) - j = 0)
      /\ \A k \in 1 .. Len(q) - j : a + k - 1 = j + k
  OBVIOUS
<1> HIDE DEF a, b
<1>3. /\ SubSeq(q, a, b) \in Seq(Halves)
      /\ Len(SubSeq(q, a, b)) = IF a <= b THEN b - a + 1 ELSE 0
      /\ \A k \in 1 .. b - a + 1 : SubSeq(q, a, b)[k] = q[a + k - 1]
  BY <1>1, SubSeqProperties
<1> QED BY <1>2, <1>3 DEF a, b

(* It does not matter which two of three lists are joined first.                *)
LEMMA Follow ==
    ASSUME NEW a \in Seq(Halves), NEW b \in Seq(Halves), NEW c \in Seq(Halves)
    PROVE  a \o (b \o c) = (a \o b) \o c
OBVIOUS

(* Nothing behind a list.                                                       *)
LEMMA NothingMore ==
    ASSUME NEW a \in Seq(Halves)
    PROVE  a \o <<>> = a
OBVIOUS

(* It does not matter which of four lists are joined first.                     *)
Regroups(a, b, c, d) == (a \o (b \o c)) \o d = (a \o b) \o (c \o d)

(* Which is so for lists of halves.                                             *)
LEMMA Regroup ==
    ASSUME NEW a \in Seq(Halves), NEW b \in Seq(Halves), NEW c \in Seq(Halves), NEW d \in Seq(Halves)
    PROVE  Regroups(a, b, c, d)
<1>1. a \o b \in Seq(Halves)
  BY Joined, Zenon
<1>2. a \o (b \o c) = (a \o b) \o c
  BY Follow, Zenon
<1>3. (a \o b) \o (c \o d) = ((a \o b) \o c) \o d
  BY <1>1, Follow, Zenon
<1> QED BY <1>2, <1>3, Zenon DEF Regroups

(* A message is a list of two halves.                                           *)
LEMMA MsgType ==
    ASSUME NEW kind \in {"ECHO", "JOIN", "INPUT", "JOIN_OK", "JOIN_FAIL"}, NEW n \in 0 .. MaxEcho
    PROVE  /\ Msg(kind, n) \in Seq(Halves) /\ Len(Msg(kind, n)) = 2
           /\ Msg(kind, n)[1] = Half(kind, n, 1) /\ Msg(kind, n)[2] = Half(kind, n, 2)
BY DEF Msg, Half, Halves

(* A list is known by what is in it: n messages and one more.                   *)
LEMMA OneMore ==
    ASSUME NEW n \in Nat, NEW f \in Seq(Halves), NEW m \in Seq(Halves), NEW g \in Seq(Halves),
           Len(f) = 2 * n, Len(m) = 2, Len(g) = 2 * n + 2,
           \A k \in 1 .. 2 * n : g[k] = f[k], g[2 * n + 1] = m[1], g[2 * n + 2] = m[2]
    PROVE  f \o m = g
<1>1. f \o m \in Seq(Halves) /\ Len(f \o m) = 2 * n + 2
  <2>1. f \o m \in Seq(Halves) /\ Len(f \o m) = Len(f) + Len(m)
    BY Joined, Zenon
  <2> QED BY <2>1
<1>2. ASSUME NEW k \in 1 .. 2 * n + 2 PROVE (f \o m)[k] = g[k]
  <2>1. (f \o m)[k] = IF k <= Len(f) THEN f[k] ELSE m[k - Len(f)]
    <3>1. k \in 1 .. Len(f) + Len(m)
      OBVIOUS
    <3> QED BY <3>1, Joined
  <2>2. k \in 1 .. 2 * n \/ k = 2 * n + 1 \/ k = 2 * n + 2
    OBVIOUS
  <2>3. CASE k \in 1 .. 2 * n
    BY <2>1, <2>3
  <2>4. CASE k = 2 * n + 1
    <3>1. ~(k <= Len(f)) /\ k - Len(f) = 1
      BY <2>4
    <3> QED BY <2>1, <2>4, <3>1
  <2>5. CASE k = 2 * n + 2
    <3>1. ~(k <= Len(f)) /\ k - Len(f) = 2
      BY <2>5
    <3> QED BY <2>1, <2>5, <3>1
  <2> QED BY <2>2, <2>3, <2>4, <2>5
<1> QED BY <1>1, <1>2, SeqEqual

(* What lies in the list of the echoes from first to last.                      *)
LEMMA EchoesType ==
    ASSUME NEW first \in 1 .. MaxEcho + 1, NEW last \in 0 .. MaxEcho, first <= last + 1,
           NEW n, n = last - first + 1
    PROVE  /\ Echoes(first, last) \in Seq(Halves) /\ Len(Echoes(first, last)) = 2 * n
           /\ n \in Nat
           /\ \A k \in 1 .. 2 * n :
                 Echoes(first, last)[k] = Half("ECHO", first + (k - 1) \div 2, 1 + ((k - 1) % 2))
           /\ \A j \in 1 .. n :
                 /\ Echoes(first, last)[2 * j - 1] = Half("ECHO", first + j - 1, 1)
                 /\ Echoes(first, last)[2 * j] = Half("ECHO", first + j - 1, 2)
<1> MaxEcho \in Nat
  BY SizeAssumption
<1> DEFINE e(k) == Half("ECHO", first + (k - 1) \div 2, 1 + ((k - 1) % 2))
           f == [k \in 1 .. 2 * n |-> e(k)]
<1>1. n \in Nat /\ last = first + n - 1
  OBVIOUS
<1>2. f = Echoes(first, last)
  BY <1>1 DEF Echoes
<1>3. \A k \in 1 .. 2 * n : e(k) \in Halves
  <2> SUFFICES ASSUME NEW k \in 1 .. 2 * n PROVE e(k) \in Halves
    OBVIOUS
  <2>1. (k - 1) \div 2 \in 0 .. n - 1
    BY <1>1
  <2>2. (k - 1) % 2 \in {0, 1}
    BY <1>1
  <2> QED BY <1>1, <2>1, <2>2 DEF Half, Halves
<1>4. f \in Seq(Halves) /\ Len(f) = 2 * n /\ \A k \in 1 .. 2 * n : f[k] = e(k)
  BY <1>1, <1>3
<1>5. ASSUME NEW j \in 1 .. n
      PROVE  f[2 * j - 1] = Half("ECHO", first + j - 1, 1) /\ f[2 * j] = Half("ECHO", first + j - 1, 2)
  <2>1. 2 * j - 1 \in 1 .. 2 * n /\ 2 * j \in 1 .. 2 * n
    BY <1>1
  <2>2. f[2 * j - 1] = e(2 * j - 1) /\ f[2 * j] = e(2 * j)
    BY <1>4, <2>1
  <2>3. (2 * j - 1 - 1) \div 2 = j - 1 /\ (2 * j - 1 - 1) % 2 = 0
    OBVIOUS
  <2>4. (2 * j - 1) \div 2 = j - 1 /\ (2 * j - 1) % 2 = 1
    OBVIOUS
  <2>5. first + (j - 1) = first + j - 1
    OBVIOUS
  <2> QED BY <2>2, <2>3, <2>4, <2>5
<1> QED BY <1>1, <1>2, <1>4, <1>5

(* One more echo behind the others.                                             *)
LEMMA EchoAdded ==
    ASSUME NEW first \in 1 .. MaxEcho + 1, NEW last \in 0 .. MaxEcho - 1, first <= last + 1
    PROVE  Echoes(first, last) \o Msg("ECHO", last + 1) = Echoes(first, last + 1)
<1> MaxEcho \in Nat
  BY SizeAssumption
<1> DEFINE n == last - first + 1
           f == Echoes(first, last)
           g == Echoes(first, last + 1)
           m == Msg("ECHO", last + 1)
<1>1. n \in Nat /\ n + 1 = (last + 1) - first + 1 /\ first + (n + 1) - 1 = last + 1
  OBVIOUS
<1>2. f \in Seq(Halves) /\ Len(f) = 2 * n
      /\ \A k \in 1 .. 2 * n : f[k] = Half("ECHO", first + (k - 1) \div 2, 1 + ((k - 1) % 2))
  BY EchoesType
<1>3. /\ g \in Seq(Halves) /\ Len(g) = 2 * (n + 1)
      /\ \A k \in 1 .. 2 * (n + 1) : g[k] = Half("ECHO", first + (k - 1) \div 2, 1 + ((k - 1) % 2))
      /\ \A j \in 1 .. n + 1 : /\ g[2 * j - 1] = Half("ECHO", first + j - 1, 1)
                               /\ g[2 * j] = Half("ECHO", first + j - 1, 2)
  <2>1. last + 1 \in 0 .. MaxEcho /\ first <= last + 1 + 1
    OBVIOUS
  <2> HIDE DEF n
  <2> QED BY <1>1, <2>1, EchoesType
<1>4. m \in Seq(Halves) /\ Len(m) = 2
      /\ m[1] = Half("ECHO", last + 1, 1) /\ m[2] = Half("ECHO", last + 1, 2)
  BY MsgType
<1>5. \A k \in 1 .. 2 * n : g[k] = f[k]
  <2> SUFFICES ASSUME NEW k \in 1 .. 2 * n PROVE g[k] = f[k]
    OBVIOUS
  <2>1. k \in 1 .. 2 * (n + 1)
    BY <1>1
  <2> QED BY <1>2, <1>3, <2>1
<1>6. g[2 * n + 1] = m[1] /\ g[2 * n + 2] = m[2]
  <2>1. n + 1 \in 1 .. n + 1 /\ 2 * (n + 1) - 1 = 2 * n + 1 /\ 2 * (n + 1) = 2 * n + 2
    BY <1>1
  <2>2. g[2 * (n + 1) - 1] = Half("ECHO", first + (n + 1) - 1, 1)
        /\ g[2 * (n + 1)] = Half("ECHO", first + (n + 1) - 1, 2)
    BY <1>3, <2>1
  <2> QED BY <1>1, <1>4, <2>1, <2>2
<1>7. Len(g) = 2 * n + 2
  BY <1>1, <1>3
<1> HIDE DEF f, g, m, n
<1>8. f \o m = g
  BY <1>1, <1>2, <1>3, <1>4, <1>5, <1>6, <1>7, OneMore
<1> QED BY <1>8 DEF f, g, m

(* The first j echoes gone.                                                     *)
LEMMA EchoesGone ==
    ASSUME NEW first \in 1 .. MaxEcho + 1, NEW last \in 0 .. MaxEcho, first <= last + 1,
           NEW j \in 0 .. last - first + 1
    PROVE  SubSeq(Echoes(first, last), 2 * j + 1, Len(Echoes(first, last))) = Echoes(first + j, last)
<1> MaxEcho \in Nat
  BY SizeAssumption
<1> DEFINE n == last - first + 1
           f == Echoes(first, last)
           g == Echoes(first + j, last)
           h == SubSeq(f, 2 * j + 1, 2 * n)
<1>1. n \in Nat /\ j \in 0 .. n /\ n - j = last - (first + j) + 1 /\ n - j \in Nat
  OBVIOUS
<1>2. f \in Seq(Halves) /\ Len(f) = 2 * n
      /\ \A k \in 1 .. 2 * n : f[k] = Half("ECHO", first + (k - 1) \div 2, 1 + ((k - 1) % 2))
  BY EchoesType
<1>3. /\ g \in Seq(Halves) /\ Len(g) = 2 * (n - j)
      /\ \A k \in 1 .. 2 * (n - j) :
            g[k] = Half("ECHO", first + j + (k - 1) \div 2, 1 + ((k - 1) % 2))
  <2>1. first + j \in 1 .. MaxEcho + 1 /\ first + j <= last + 1
    OBVIOUS
  <2> HIDE DEF n
  <2> QED BY <1>1, <2>1, EchoesType
<1>4. h \in Seq(Halves) /\ Len(h) = 2 * (n - j) /\ \A k \in 1 .. 2 * (n - j) : h[k] = f[k + 2 * j]
  <2>1. \A k \in 2 * j + 1 .. 2 * n : f[k] \in Halves
    BY <1>1, <1>2
  <2> DEFINE a == 2 * j + 1
             b == 2 * n
  <2>2. a \in Int /\ b \in Int /\ (\A k \in a .. b : f[k] \in Halves) /\ h = SubSeq(f, a, b)
    BY <1>1, <2>1
  <2>3. b - a + 1 = 2 * (n - j) /\ (~(a <= b) => 2 * (n - j) = 0)
        /\ \A k \in 1 .. b - a + 1 : a + k - 1 = k + 2 * j
    BY <1>1
  <2> HIDE DEF f, n, a, b, h
  <2>4. /\ SubSeq(f, a, b) \in Seq(Halves)
        /\ Len(SubSeq(f, a, b)) = IF a <= b THEN b - a + 1 ELSE 0
        /\ \A k \in 1 .. b - a + 1 : SubSeq(f, a, b)[k] = f[a + k - 1]
    BY <2>2, SubSeqProperties
  <2>5. \A k \in 1 .. b - a + 1 : h[k] = f[k + 2 * j]
    BY <2>2, <2>3, <2>4
  <2> QED BY <2>2, <2>3, <2>4, <2>5
<1>5. ASSUME NEW k \in 1 .. 2 * (n - j)
      PROVE  h[k] = g[k]
  <2>1. k + 2 * j \in 1 .. 2 * n
    BY <1>1
  <2>2. (k + 2 * j - 1) \div 2 = j + (k - 1) \div 2 /\ (k + 2 * j - 1) % 2 = (k - 1) % 2
    BY <1>1
  <2>3. first + (k + 2 * j - 1) \div 2 = first + j + (k - 1) \div 2
    BY <1>1, <2>2
  <2>4. f[k + 2 * j] = Half("ECHO", first + (k + 2 * j - 1) \div 2, 1 + ((k + 2 * j - 1) % 2))
    BY <1>2, <2>1
  <2>5. h[k] = f[k + 2 * j]
    BY <1>4
  <2>6. g[k] = Half("ECHO", first + j + (k - 1) \div 2, 1 + ((k - 1) % 2))
    BY <1>3
  <2> QED BY <2>2, <2>3, <2>4, <2>5, <2>6
<1>6. h = g
  <2> HIDE DEF h, g, f, n
  <2>1. Len(h) = Len(g) /\ \A k \in 1 .. Len(h) : h[k] = g[k]
    BY <1>3, <1>4, <1>5
  <2> QED BY <1>3, <1>4, <2>1, SeqEqual
<1> QED BY <1>2, <1>6

--------------------------------------------------------------------------------
(* What is true of every client between two steps.                              *)

(* What the server answers in a game: whole messages.                           *)
Replies(q) ==
    /\ Len(q) % 2 = 0
    /\ \A k \in 1 .. Len(q) : q[k].kind \in {"JOIN_OK", "JOIN_FAIL"}
    /\ \A k \in 1 .. Len(q) \div 2 : q[2 * k] = [q[2 * k - 1] EXCEPT !.part = 2]

(* What a client sends in a game.                                               *)
Requests(q) == \A k \in 1 .. Len(q) : q[k].kind \in {"JOIN", "INPUT"}

(* A client counts exactly while it is Active, and waits for no more than it    *)
(* has sent.                                                                    *)
Counted(x) == x.act = (IF x.state = "Active" THEN 1 ELSE 0) /\ x.pending <= x.echoSeq

(* Who is connected has a socket; a client that was cut while it sent its JOIN  *)
(* is Joining without one.                                                      *)
Linked(x) ==
    /\ x.state \in {"Connecting", "Active"} => x.fd
    /\ x.state \in {"Idle", "Dead"} => ~x.fd
    /\ ~x.fd => x.link = "none" /\ x.out = <<>> /\ x.in = <<>>

(* EPOLLOUT is registered if want says so.                                      *)
Registered(x) == x.fd /\ x.want => "OUT" \in x.reg

(* Want says so while bytes are held back, and none are before the connection   *)
(* is there.                                                                    *)
Waiting(x) == /\ x.fd /\ x.pend # <<>> => x.want
              /\ x.state = "Connecting" => x.pend = <<>>

(* What holds of a client whatever is on its way.                               *)
Calm(x) ==
    /\ x \in Client /\ Fits(x) /\ Counted(x) /\ Linked(x) /\ Registered(x) /\ ~x.alarm
    /\ opt.mode = "game" => ~x.attacker

(* On a socket are exactly the echoes that are not answered.                    *)
InEcho(x) ==
    opt.mode = "echo" =>
        /\ x.state # "Joining"
        /\ x.fd => /\ Pipe(x) = Echoes(x.expectRecv, x.echoSeq)
                   /\ x.pending = x.echoSeq + 1 - x.expectRecv

(* On a socket are requests on the way out and whole replies on the way back.   *)
InGame(x) ==
    opt.mode = "game" => (x.fd => Replies(x.recv \o x.in) /\ Requests(x.out \o x.pend))

Sound(x) == Calm(x) /\ InEcho(x) /\ InGame(x) /\ Waiting(x)

--------------------------------------------------------------------------------
(* The operators on a client.                                                   *)

(* The sizes as numbers.                                                        *)
LEMMA Sizes ==
    /\ kPendMax \in Nat /\ kPendMax >= 2 /\ SndCap \in Nat /\ SndCap > 0
    /\ RingCap \in Nat /\ RingCap >= 2 /\ MaxEcho \in Nat /\ MaxConns \in Nat /\ MaxConns >= 1
BY SizeAssumption

(* The buffers of a client.                                                     *)
LEMMA Buffers ==
    ASSUME NEW x \in Client
    PROVE  /\ x.pend \in Seq(Halves) /\ x.recv \in Seq(Halves)
           /\ x.out \in Seq(Halves) /\ x.in \in Seq(Halves)
           /\ Len(x.pend) \in Nat /\ Len(x.recv) \in Nat /\ Len(x.out) \in Nat /\ Len(x.in) \in Nat
           /\ x.recv \o x.in \in Seq(Halves) /\ x.out \o x.pend \in Seq(Halves)
           /\ (x.recv \o x.in) \o x.out \in Seq(Halves) /\ Pipe(x) \in Seq(Halves)
<1>1. /\ x.pend \in Seq(Halves) /\ x.recv \in Seq(Halves)
      /\ x.out \in Seq(Halves) /\ x.in \in Seq(Halves)
  BY DEF Client
<1>2. Len(x.pend) \in Nat /\ Len(x.recv) \in Nat /\ Len(x.out) \in Nat /\ Len(x.in) \in Nat
  BY <1>1
<1>3. x.recv \o x.in \in Seq(Halves) /\ x.out \o x.pend \in Seq(Halves)
  BY <1>1, Joined
<1>4. (x.recv \o x.in) \o x.out \in Seq(Halves)
  BY <1>1, <1>3, Joined
<1>5. Pipe(x) \in Seq(Halves)
  BY <1>1, <1>4, Joined DEF Pipe
<1> QED BY <1>1, <1>2, <1>3, <1>4, <1>5

(* A client without a socket.                                                   *)
LEMMA CutType ==
    ASSUME NEW x \in Client, NEW b \in BOOLEAN, NEW e \in Seq(Halves), NEW u \in {0, 1},
           NEW y, y = [x EXCEPT !.state = "Dead", !.fd = FALSE, !.act = u, !.reconnectAt = b,
                                !.link = "none", !.reg = {}, !.out = e, !.in = e]
    PROVE  y \in Client
BY ZenonT(30) DEF Client

(* A client whose connection is there.                                          *)
LEMMA OpenedType ==
    ASSUME NEW x \in Client, NEW y, y = [x EXCEPT !.state = "Active", !.act = 1]
    PROVE  y \in Client
BY ZenonT(30) DEF Client

(* A client that has taken one echo off its counters.                           *)
LEMMA CountedType ==
    ASSUME NEW x \in Client, NEW p \in 0 .. MaxEcho, NEW f \in 1 .. MaxEcho + 1,
           NEW y, y = [x EXCEPT !.pending = p, !.alarm = FALSE, !.expectRecv = f]
    PROVE  y \in Client
BY ZenonT(30) DEF Client

(* A client that counts from one again.                                         *)
LEMMA FreshType ==
    ASSUME NEW x \in Client, NEW e \in Seq(Halves), 0 \in 0 .. MaxEcho, 1 \in 1 .. MaxEcho + 1
    PROVE  [x EXCEPT !.echoSeq = 0, !.expectRecv = 1, !.pending = 0,
                     !.recv = e, !.pend = e] \in Client
BY DEF Client

(* A client with a new socket.                                                  *)
LEMMA SynType ==
    ASSUME NEW x \in Client, NEW a \in BOOLEAN, NEW b \in BOOLEAN
    PROVE  [x EXCEPT !.state = "Connecting", !.fd = TRUE, !.attacker = a,
                     !.reconnectAt = FALSE, !.churnAt = b,
                     !.link = "syn", !.reg = {"IN", "OUT"}] \in Client
BY DEF Client

(* What Kill leaves of a client.                                                *)
LEMMA KillEffect ==
    ASSUME NEW x \in Client, Counted(x), Linked(x), opt \in Options, NEW y, y = Kill(x)
    PROVE  /\ y \in Client /\ Counted(y) /\ Linked(y) /\ Registered(y)
           /\ y.state = "Dead" /\ y.fd = FALSE /\ y.out = <<>> /\ y.in = <<>>
           /\ y.pend = x.pend /\ y.recv = x.recv /\ y.want = x.want
           /\ y.alarm = x.alarm /\ y.attacker = x.attacker
<1>1. CASE x.state = "Dead"
  <2>1. y = x /\ x.fd = FALSE
    BY <1>1 DEF Kill, Linked, Client
  <2> QED BY <1>1, <2>1 DEF Linked, Registered
<1>2. CASE x.state # "Dead"
  <2>1. Uncounted(x) = 0
    BY DEF Uncounted, Counted
  <2>2. RevivedByChurn(x) \in BOOLEAN
    BY OptionAssumption DEF RevivedByChurn, Client
  <2>3. y = [x EXCEPT !.state = "Dead", !.fd = FALSE, !.act = 0,
                      !.reconnectAt = RevivedByChurn(x),
                      !.link = "none", !.reg = {}, !.out = <<>>, !.in = <<>>]
    BY <1>2, <2>1 DEF Kill
  <2>4. y \in Client
    <3>1. <<>> \in Seq(Halves) /\ Uncounted(x) \in {0, 1}
      BY <2>1
    <3>2. y = [x EXCEPT !.state = "Dead", !.fd = FALSE, !.act = Uncounted(x),
                        !.reconnectAt = RevivedByChurn(x),
                        !.link = "none", !.reg = {}, !.out = <<>>, !.in = <<>>]
      BY <1>2 DEF Kill
    <3> QED BY <2>2, <3>1, <3>2, CutType, Zenon
  <2>5. /\ y.state = "Dead" /\ y.fd = FALSE /\ y.act = 0 /\ y.link = "none"
        /\ y.out = <<>> /\ y.in = <<>> /\ y.pend = x.pend /\ y.recv = x.recv
        /\ y.alarm = x.alarm /\ y.attacker = x.attacker /\ y.want = x.want
        /\ y.pending = x.pending /\ y.echoSeq = x.echoSeq
    BY <2>3 DEF Client
  <2> QED BY <2>4, <2>5 DEF Counted, Linked, Registered
<1> QED BY <1>1, <1>2

(* A client that is cut has nothing on its way and is not counted; there is     *)
(* nothing else to say of it.                                                   *)
LEMMA KillSound ==
    ASSUME NEW x, Calm(x), opt \in Options
    PROVE  Sound(Kill(x)) /\ Kill(x).state = "Dead" /\ ~Kill(x).fd
<1> DEFINE y == Kill(x)
<1>1. x \in Client /\ Counted(x) /\ Linked(x)
  BY DEF Calm
<1>2. /\ y \in Client /\ Counted(y) /\ Linked(y) /\ Registered(y)
      /\ y.state = "Dead" /\ y.fd = FALSE /\ y.out = <<>> /\ y.in = <<>>
      /\ y.pend = x.pend /\ y.recv = x.recv
      /\ y.alarm = x.alarm /\ y.attacker = x.attacker
  BY <1>1, KillEffect
<1> HIDE DEF y
<1>3. Fits(y)
  BY <1>2, Sizes DEF Fits, Calm
<1> QED BY <1>2, <1>3 DEF Calm, Sound, InEcho, InGame, Waiting, y

(* Nothing is on its way: no echo is unanswered, no reply is cut in two.        *)
LEMMA EmptyPipe ==
    ASSUME NEW x, x.recv = <<>>, x.in = <<>>, x.out = <<>>, x.pend = <<>>
    PROVE  Pipe(x) = Echoes(1, 0) /\ Replies(x.recv \o x.in) /\ Requests(x.out \o x.pend)
<1>1. <<>> \in Seq(Halves) /\ Len(<<>>) = 0
  OBVIOUS
<1>2. <<>> \o <<>> = <<>>
  OBVIOUS
<1>3. Pipe(x) = <<>>
  BY <1>2 DEF Pipe
<1>4. Echoes(1, 0) = <<>>
  <2>1. 1 \in 1 .. MaxEcho + 1 /\ 0 \in 0 .. MaxEcho /\ 1 <= 0 + 1 /\ 0 = 0 - 1 + 1
    BY Sizes
  <2>2. Echoes(1, 0) \in Seq(Halves) /\ Len(Echoes(1, 0)) = 2 * 0
    BY <2>1, EchoesType
  <2> HIDE DEF Echoes
  <2> QED BY <2>2
<1>5. Replies(<<>>) /\ Requests(<<>>)
  BY DEF Replies, Requests
<1> QED BY <1>2, <1>3, <1>4, <1>5

(* A new connection starts with nothing on its way.                             *)
LEMMA ConnectingSound ==
    ASSUME NEW x, NEW c \in Clients, Calm(x), ~x.fd, x.state \in {"Idle", "Dead"}, opt \in Options
    PROVE  Sound(Connecting(c, x)) /\ Connecting(c, x).fd /\ Connecting(c, x).state = "Connecting"
<1> DEFINE a == opt.mode = "echo" /\ opt.attack /\ c \in Attackers
           y == Connecting(c, x)
<1>1. a \in BOOLEAN /\ opt.churn \in BOOLEAN
  BY OptionAssumption
<1>2. x \in Client /\ <<>> \in Seq(Halves)
  BY DEF Calm
<1>3. FreshEcho(x) \in Client
  <2>1. 0 \in 0 .. MaxEcho /\ 1 \in 1 .. MaxEcho + 1
    BY Sizes
  <2> QED BY <1>2, <2>1, FreshType, Zenon DEF FreshEcho
<1>4. /\ FreshEcho(x).state = x.state /\ FreshEcho(x).act = x.act /\ FreshEcho(x).alarm = x.alarm
      /\ FreshEcho(x).echoSeq = 0 /\ FreshEcho(x).expectRecv = 1 /\ FreshEcho(x).pending = 0
      /\ FreshEcho(x).recv = <<>> /\ FreshEcho(x).pend = <<>>
      /\ FreshEcho(x).out = x.out /\ FreshEcho(x).in = x.in
  BY <1>2 DEF FreshEcho, Client
<1>5. y \in Client
  <2> HIDE DEF a
  <2>1. y = [FreshEcho(x) EXCEPT
                !.state = "Connecting", !.fd = TRUE, !.attacker = a,
                !.reconnectAt = FALSE, !.churnAt = opt.churn,
                !.link = "syn", !.reg = {"IN", "OUT"}]
    BY DEF Connecting, a
  <2> HIDE DEF y
  <2> QED BY <1>1, <1>3, <2>1, SynType, Zenon
<1>6. /\ y.state = "Connecting" /\ y.fd = TRUE /\ y.attacker = a
      /\ y.link = "syn" /\ y.reg = {"IN", "OUT"}
      /\ y.act = x.act /\ y.alarm = x.alarm /\ y.out = x.out /\ y.in = x.in
      /\ y.echoSeq = 0 /\ y.expectRecv = 1 /\ y.pending = 0 /\ y.recv = <<>> /\ y.pend = <<>>
  <2> HIDE DEF a
  <2>1. y = [FreshEcho(x) EXCEPT
                !.state = "Connecting", !.fd = TRUE, !.attacker = a,
                !.reconnectAt = FALSE, !.churnAt = opt.churn,
                !.link = "syn", !.reg = {"IN", "OUT"}]
    BY DEF Connecting, a
  <2> HIDE DEF y
  <2> QED BY <1>3, <1>4, <2>1 DEF Client
<1> HIDE DEF y
<1>7. y.out = <<>> /\ y.in = <<>> /\ y.act = 0
  BY <1>6 DEF Calm, Linked, Counted
<1>8. Calm(y)
  <2>1. Fits(y)
    BY <1>6, <1>7, Sizes DEF Fits
  <2>2. Counted(y) /\ Linked(y) /\ Registered(y)
    BY <1>6, <1>7 DEF Counted, Linked, Registered
  <2>3. opt.mode = "game" => ~y.attacker
    BY <1>6
  <2> QED BY <1>5, <1>6, <2>1, <2>2, <2>3 DEF Calm
<1>9. InEcho(y) /\ InGame(y)
  <2>1. Pipe(y) = Echoes(1, 0) /\ Replies(y.recv \o y.in) /\ Requests(y.out \o y.pend)
    BY <1>6, <1>7, EmptyPipe
  <2> QED BY <1>6, <2>1 DEF InEcho, InGame
<1>10. Sound(y)
  BY <1>6, <1>8, <1>9 DEF Sound, Waiting
<1> QED BY <1>6, <1>10 DEF y

(* An attempt that fails leaves the client without a socket.                    *)
LEMMA NotConnectingSound ==
    ASSUME NEW x, Calm(x), ~x.fd, x.state \in {"Idle", "Dead"}
    PROVE  Sound(NotConnecting(x)) /\ NotConnecting(x).state = "Dead" /\ ~NotConnecting(x).fd
<1> DEFINE y == NotConnecting(x)
<1>1. y \in Client
  BY DEF NotConnecting, Calm, Client
<1>2. /\ y.state = "Dead" /\ y.fd = FALSE /\ y.attacker = x.attacker /\ y.want = x.want
      /\ y.link = x.link /\ y.act = x.act /\ y.alarm = x.alarm
      /\ y.out = x.out /\ y.in = x.in /\ y.recv = x.recv /\ y.pend = x.pend
      /\ y.pending = x.pending /\ y.echoSeq = x.echoSeq
  BY DEF NotConnecting, Calm, Client
<1> HIDE DEF y
<1>3. Calm(y)
  BY <1>1, <1>2 DEF Calm, Fits, Counted, Linked, Registered
<1>4. Sound(y)
  BY <1>2, <1>3 DEF Sound, InEcho, InGame, Waiting
<1> QED BY <1>2, <1>4 DEF y

--------------------------------------------------------------------------------
(* Sending.                                                                     *)

(* All of a client that writing does not touch.                                 *)
Alike(x, y) ==
    /\ y.state = x.state /\ y.fd = x.fd /\ y.attacker = x.attacker
    /\ y.recv = x.recv /\ y.in = x.in /\ y.link = x.link
    /\ y.echoSeq = x.echoSeq /\ y.expectRecv = x.expectRecv /\ y.pending = x.pending
    /\ y.act = x.act /\ y.alarm = x.alarm

(* What is true of a client when bytes it could not write may still wait for    *)
(* EPOLLOUT to be asked for.                                                    *)
Steady(x) == Calm(x) /\ InEcho(x) /\ InGame(x)

(* Only the interest has changed.                                               *)
LEMMA AlikeSteady ==
    ASSUME NEW x, NEW y \in Client, Steady(x), Alike(x, y), y.out = x.out, y.pend = x.pend,
           Registered(y)
    PROVE  Steady(y)
<1>1. Calm(y)
  BY DEF Steady, Calm, Alike, Fits, Counted, Linked
<1>2. Pipe(y) = Pipe(x)
  BY DEF Pipe, Alike
<1> QED BY <1>1, <1>2 DEF Steady, Alike, InEcho, InGame

(* EPOLLOUT is asked for, or no longer.                                         *)
LEMMA UpdateWriteEffect ==
    ASSUME NEW x \in Client, NEW w \in BOOLEAN, Registered(x),
           NEW y, y = UpdateWrite(x, w)
    PROVE  /\ y \in Client /\ Alike(x, y) /\ y.out = x.out /\ y.pend = x.pend
           /\ Registered(y) /\ (y.fd => y.want = w)
<1> DEFINE z == [x EXCEPT !.reg = Interest(~x.attacker, w), !.want = w]
<1>1. CASE x.want = w \/ ~x.fd
  <2>1. y = x
    BY <1>1 DEF UpdateWrite
  <2> QED BY <1>1, <2>1 DEF Alike
<1>2. CASE ~(x.want = w \/ ~x.fd)
  <2>1. y = z
    BY <1>2 DEF UpdateWrite
  <2>2. Interest(~x.attacker, w) \in SUBSET {"IN", "OUT"}
        /\ (w => "OUT" \in Interest(~x.attacker, w))
    BY DEF Interest
  <2>3. z \in Client
    BY <2>2 DEF Client
  <2>4. /\ z.reg = Interest(~x.attacker, w) /\ z.want = w /\ Alike(x, z)
        /\ z.out = x.out /\ z.pend = x.pend
    BY DEF Alike, Client
  <2> HIDE DEF z
  <2> QED BY <2>1, <2>2, <2>3, <2>4 DEF Registered
<1> QED BY <1>1, <1>2

(* With EPOLLOUT asked for exactly if bytes are held back, a client is sound.   *)
LEMMA UpdateWriteSound ==
    ASSUME NEW x, Steady(x), x.state # "Connecting"
    PROVE  LET y == UpdateWrite(x, x.pend # <<>>) IN Sound(y) /\ Alike(x, y) /\ y.pend = x.pend
<1> DEFINE w == x.pend # <<>>
           y == UpdateWrite(x, w)
<1>1. x \in Client /\ Registered(x) /\ w \in BOOLEAN
  BY DEF Steady, Calm
<1>2. /\ y \in Client /\ Alike(x, y) /\ y.out = x.out /\ y.pend = x.pend
      /\ Registered(y) /\ (y.fd => y.want = w)
  <2> HIDE DEF w
  <2> QED BY <1>1, UpdateWriteEffect
<1> HIDE DEF y
<1>3. Steady(y)
  BY <1>2, AlikeSteady
<1>4. Waiting(y)
  BY <1>2 DEF Waiting, Alike
<1> QED BY <1>2, <1>3, <1>4 DEF Steady, Sound, y

(* After a write, when EPOLLOUT is still asked for if it was and it is needed.  *)
LEMMA ArmedSound ==
    ASSUME NEW x, Steady(x), x.state # "Connecting"
    PROVE  Sound(Armed(x)) /\ Alike(x, Armed(x)) /\ Armed(x).pend = x.pend
                           /\ Armed(x).out = x.out
<1>1. CASE x.pend # <<>>
  <2>1. Armed(x) = UpdateWrite(x, x.pend # <<>>)
    BY <1>1 DEF Armed
  <2>2. UpdateWrite(x, TRUE).out = x.out
    BY UpdateWriteEffect DEF Steady, Calm
  <2> QED BY <1>1, <2>1, <2>2, UpdateWriteSound
<1>2. CASE x.pend = <<>>
  <2>1. Armed(x) = x
    BY <1>2 DEF Armed
  <2> QED BY <1>2, <2>1 DEF Steady, Sound, Waiting, Alike
<1> QED BY <1>1, <1>2

(* The kernel's part of a list.                                                 *)
LEMMA TakenBounds ==
    ASSUME NEW x \in Client, Fits(x), NEW data \in Seq(Halves)
    PROVE  /\ Taken(x, data) \in 0 .. Len(data)
           /\ Len(x.out) + Taken(x, data) <= SndCap
<1>1. Len(x.out) \in Nat /\ Len(x.out) <= SndCap /\ Len(data) \in Nat /\ SndCap \in Nat
  BY Buffers, Sizes DEF Fits
<1> DEFINE a == Len(x.out)
           b == Len(data)
<1>2. a \in Nat /\ a <= SndCap /\ b \in Nat /\ SndCap \in Nat
  BY <1>1
<1>3. Taken(x, data) = Smaller(b, SndCap - a)
  BY DEF Taken
<1> HIDE DEF a, b
<1>4. Smaller(b, SndCap - a) \in 0 .. b /\ a + Smaller(b, SndCap - a) <= SndCap
  BY <1>2 DEF Smaller
<1> QED BY <1>3, <1>4 DEF a, b

(* Data has been put behind everything that is on its way.                      *)
Sent(x, y, data) ==
    /\ y \in Client /\ Fits(y) /\ Alike(x, y) /\ y.reg = x.reg
    /\ Pipe(y) = Pipe(x) \o data
    /\ y.out \o y.pend = (x.out \o x.pend) \o data
    /\ y.want => x.want

(* A message is written, or held back, or the client is cut.                    *)
LEMMA SendBytesEffect ==
    ASSUME NEW x \in Client, Fits(x), NEW data \in Seq(Halves), Len(data) = 2,
           NEW y \in SendBytes(x, data)
    PROVE  y = Kill(x) \/ (Sent(x, y, data) /\ (x.pend # <<>> => y.want = x.want /\ y.pend # <<>>))
<1> DEFINE k == Taken(x, data)
           front == SubSeq(data, 1, k)
           back == SubSeq(data, k + 1, Len(data))
<1>1. CASE x.pend # <<>> /\ y # Kill(x)
  <2>1. y = [x EXCEPT !.pend = x.pend \o data] /\ Len(x.pend) + Len(data) <= kPendMax
    <3>1. y = IF Len(x.pend) + Len(data) > kPendMax THEN Kill(x) ELSE Behind(x, data)
      BY <1>1 DEF SendBytes
    <3>2. ~(Len(x.pend) + Len(data) > kPendMax) /\ y = Behind(x, data)
      BY <1>1, <3>1
    <3>3. Len(x.pend) \in Nat /\ Len(data) \in Nat /\ kPendMax \in Nat
      BY Buffers, Sizes
    <3>4. Len(x.pend) + Len(data) <= kPendMax
      BY <3>2, <3>3
    <3> QED BY <3>2, <3>4 DEF Behind
  <2>2. x.pend \o data \in Seq(Halves) /\ Len(x.pend \o data) = Len(x.pend) + Len(data)
    BY Buffers, Joined, Zenon
  <2>3. /\ y \in Client /\ Alike(x, y) /\ y.reg = x.reg /\ y.out = x.out /\ y.want = x.want
        /\ y.pend = x.pend \o data
    <3> DEFINE p == x.pend \o data
    <3>1. p \in Seq(Halves) /\ y = [x EXCEPT !.pend = p]
      BY <2>1, <2>2
    <3> HIDE DEF p
    <3>2. /\ y \in Client /\ Alike(x, y) /\ y.reg = x.reg /\ y.out = x.out /\ y.want = x.want
          /\ y.pend = p
      BY <3>1 DEF Client, Alike
    <3> QED BY <3>2 DEF p
  <2>4. Fits(y)
    BY <2>1, <2>2, <2>3 DEF Fits, Alike
  <2>5. ((x.recv \o x.in) \o x.out) \o (x.pend \o data) = Pipe(x) \o data
    <3>1. (x.recv \o x.in) \o x.out \in Seq(Halves) /\ x.pend \in Seq(Halves)
      BY Buffers
    <3> QED BY <3>1, Follow, Zenon DEF Pipe
  <2>6. x.out \o (x.pend \o data) = (x.out \o x.pend) \o data
    <3>1. x.out \in Seq(Halves) /\ x.pend \in Seq(Halves)
      BY Buffers
    <3> QED BY <3>1, Follow, Zenon
  <2>7. Pipe(y) = Pipe(x) \o data
    BY <2>3, <2>5 DEF Pipe, Alike
  <2>8. y.pend # <<>>
    <3>1. Len(y.pend) > 0
      BY <2>2, <2>3, Buffers
    <3> QED BY <3>1
  <2> QED BY <2>3, <2>4, <2>6, <2>7, <2>8 DEF Sent
<1>2. CASE x.pend = <<>> /\ y # Kill(x)
  <2>1. y = [x EXCEPT !.out = x.out \o front, !.pend = back, !.want = (x.want /\ k = Len(data))]
    BY <1>2 DEF SendBytes, MayFail
  <2>2. k \in 0 .. Len(data) /\ Len(x.out) + k <= SndCap
    BY TakenBounds
  <2>3. /\ front \in Seq(Halves) /\ back \in Seq(Halves) /\ Len(front) = k
        /\ Len(back) = Len(data) - k /\ front \o back = data
    <3> HIDE DEF k
    <3> QED BY <2>2, Split, Zenon
  <2> HIDE DEF front, back, k
  <2>4. x.out \o front \in Seq(Halves) /\ Len(x.out \o front) = Len(x.out) + Len(front)
    BY <2>3, Buffers, Joined, Zenon
  <2>5. /\ y \in Client /\ Alike(x, y) /\ y.reg = x.reg
        /\ y.out = x.out \o front /\ y.pend = back /\ (y.want => x.want)
    <3> DEFINE o == x.out \o front
               w == x.want /\ k = Len(data)
    <3>1. o \in Seq(Halves) /\ w \in BOOLEAN /\ (w => x.want)
          /\ y = [x EXCEPT !.out = o, !.pend = back, !.want = w]
      BY <2>1, <2>4 DEF Client
    <3> HIDE DEF o, w
    <3>2. /\ y \in Client /\ Alike(x, y) /\ y.reg = x.reg
          /\ y.out = o /\ y.pend = back /\ y.want = w
      <4>1. back \in Seq(Halves) /\ x \in Client
        BY <2>3
      <4>2. o \in Seq(Halves) /\ w \in BOOLEAN
        BY <3>1
      <4>3. y = [x EXCEPT !.out = o, !.pend = back, !.want = w]
        BY <3>1
      <4> QED BY ONLY <4>1, <4>2, <4>3 DEF Client, Alike
    <3> QED BY <3>1, <3>2 DEF o
  <2>6. Fits(y)
    <3>1. Len(x.recv) <= 1 /\ Len(x.in) <= RingCap
      BY DEF Fits
    <3>2. Len(y.out) = Len(x.out) + k /\ Len(y.pend) = Len(data) - k
          /\ y.recv = x.recv /\ y.in = x.in
      BY <2>3, <2>4, <2>5 DEF Alike
    <3> DEFINE a == Len(data)
               b == Len(y.pend)
    <3>3. a = 2 /\ kPendMax \in Nat /\ kPendMax >= 2 /\ k \in 0 .. a /\ b = a - k
      BY <2>2, <3>2, Sizes
    <3> HIDE DEF a, b
    <3>4. b <= kPendMax
      BY ONLY <3>3
    <3> QED BY <2>2, <3>1, <3>2, <3>4 DEF Fits, b
  <2>7. x.out \o x.pend = x.out /\ Pipe(x) = (x.recv \o x.in) \o x.out
    BY <1>2, Buffers, NothingMore DEF Pipe
  <2>8. ((x.recv \o x.in) \o (x.out \o front)) \o back = ((x.recv \o x.in) \o x.out) \o data
    <3>1. x.recv \o x.in \in Seq(Halves) /\ x.out \in Seq(Halves)
      BY Buffers
    <3>2. ((x.recv \o x.in) \o (x.out \o front)) \o back
            = ((x.recv \o x.in) \o x.out) \o (front \o back)
      <4> DEFINE r == x.recv \o x.in
                 o == x.out
      <4>1. r \in Seq(Halves) /\ o \in Seq(Halves) /\ front \in Seq(Halves) /\ back \in Seq(Halves)
        BY <2>3, <3>1
      <4> HIDE DEF r, o
      <4>2. Regroups(r, o, front, back)
        BY ONLY <4>1, Regroup, Zenon
      <4>3. (r \o (o \o front)) \o back = (r \o o) \o (front \o back)
        BY ONLY <4>2, Zenon DEF Regroups
      <4> QED BY <4>3, Zenon DEF r, o
    <3> QED BY <2>3, <3>2
  <2>9. (x.out \o front) \o back = x.out \o data
    <3>1. x.out \in Seq(Halves)
      BY Buffers
    <3>2. x.out \o (front \o back) = (x.out \o front) \o back
      BY <2>3, <3>1, Follow, Zenon
    <3> QED BY <2>3, <3>2
  <2>10. Pipe(y) = Pipe(x) \o data
    BY <2>5, <2>7, <2>8 DEF Pipe, Alike
  <2> QED BY <1>2, <2>5, <2>6, <2>7, <2>9, <2>10 DEF Sent
<1> QED BY <1>1, <1>2

(* As much of what is held back as the kernel takes is written.                 *)
LEMMA FlushPendEffect ==
    ASSUME NEW x \in Client, Fits(x), NEW y \in FlushPend(x)
    PROVE  \/ y = x \/ y = Kill(x)
           \/ /\ y \in Client /\ Fits(y) /\ Alike(x, y) /\ y.reg = x.reg /\ y.want = x.want
              /\ Pipe(y) = Pipe(x) /\ y.out \o y.pend = x.out \o x.pend /\ x.pend # <<>>
<1> DEFINE k == Taken(x, x.pend)
           front == SubSeq(x.pend, 1, k)
           back == SubSeq(x.pend, k + 1, Len(x.pend))
<1>1. ASSUME x.pend # <<>>, y # Kill(x)
      PROVE  /\ y \in Client /\ Fits(y) /\ Alike(x, y) /\ y.reg = x.reg /\ y.want = x.want
             /\ Pipe(y) = Pipe(x) /\ y.out \o y.pend = x.out \o x.pend
  <2>1. y = [x EXCEPT !.out = x.out \o front, !.pend = back]
    BY <1>1 DEF FlushPend, MayFail, Client
  <2>2. x.pend \in Seq(Halves) /\ k \in 0 .. Len(x.pend) /\ Len(x.out) + k <= SndCap
    BY Buffers, TakenBounds
  <2>3. /\ front \in Seq(Halves) /\ back \in Seq(Halves) /\ Len(front) = k
        /\ Len(back) = Len(x.pend) - k /\ front \o back = x.pend
    <3> HIDE DEF k
    <3> QED BY <2>2, Split, Zenon
  <2> HIDE DEF front, back, k
  <2>4. x.out \o front \in Seq(Halves) /\ Len(x.out \o front) = Len(x.out) + Len(front)
    BY <2>3, Buffers, Joined, Zenon
  <2>5. /\ y \in Client /\ Alike(x, y) /\ y.reg = x.reg
        /\ y.out = x.out \o front /\ y.pend = back /\ y.want = x.want
    <3> DEFINE o == x.out \o front
    <3>1. o \in Seq(Halves) /\ back \in Seq(Halves) /\ y = [x EXCEPT !.out = o, !.pend = back]
      BY <2>1, <2>3, <2>4
    <3> HIDE DEF o
    <3>2. /\ y \in Client /\ Alike(x, y) /\ y.reg = x.reg
          /\ y.out = o /\ y.pend = back /\ y.want = x.want
      BY ONLY <3>1, x \in Client DEF Client, Alike
    <3> QED BY <3>2 DEF o
  <2>6. Fits(y)
    <3>1. Len(x.pend) <= kPendMax /\ Len(x.recv) <= 1 /\ Len(x.in) <= RingCap
      BY DEF Fits
    <3>2. Len(y.out) = Len(x.out) + k /\ Len(y.pend) = Len(x.pend) - k
          /\ y.recv = x.recv /\ y.in = x.in
      BY <2>3, <2>4, <2>5 DEF Alike
    <3>3. Len(x.pend) \in Nat /\ kPendMax \in Nat /\ k \in 0 .. Len(x.pend)
      BY <2>2, Sizes, Buffers
    <3> DEFINE a == Len(x.pend)
               b == Len(y.pend)
    <3>4. a \in Nat /\ kPendMax \in Nat /\ k \in 0 .. a /\ b = a - k /\ a <= kPendMax
      BY <3>1, <3>2, <3>3
    <3> HIDE DEF a, b
    <3>5. b <= kPendMax
      BY ONLY <3>4
    <3> QED BY <2>2, <3>1, <3>2, <3>5 DEF Fits, b
  <2> DEFINE r == x.recv \o x.in
             o == x.out
  <2>7. r \in Seq(Halves) /\ o \in Seq(Halves) /\ front \in Seq(Halves) /\ back \in Seq(Halves)
    BY <2>3, Buffers
  <2>8. /\ (r \o (o \o front)) \o back = (r \o o) \o (front \o back)
        /\ (o \o front) \o back = o \o (front \o back)
    <3> HIDE DEF r, o
    <3>1. Regroups(r, o, front, back)
      BY ONLY <2>7, Regroup, Zenon
    <3>2. o \o (front \o back) = (o \o front) \o back
      BY ONLY <2>7, Follow, Zenon
    <3> QED BY ONLY <3>1, <3>2, Zenon DEF Regroups
  <2> QED BY <2>3, <2>5, <2>6, <2>8 DEF Pipe, Alike
<1>2. x.pend = <<>> => y = x
  BY DEF FlushPend
<1> QED BY <1>1, <1>2

(* Flushing leaves a client sound, or cuts it.                                  *)
LEMMA FlushPendSound ==
    ASSUME NEW x, Sound(x), x.fd, NEW y \in FlushPend(x), opt \in Options
    PROVE  Sound(y) /\ (y.state = "Dead" \/ y.state = x.state)
<1>1. x \in Client /\ Fits(x)
  BY DEF Sound, Calm
<1>2. CASE y = x
  BY <1>2
<1>3. CASE y = Kill(x)
  BY <1>3, KillSound DEF Sound
<1>4. CASE /\ y \in Client /\ Fits(y) /\ Alike(x, y) /\ y.reg = x.reg /\ y.want = x.want
           /\ Pipe(y) = Pipe(x) /\ y.out \o y.pend = x.out \o x.pend /\ x.pend # <<>>
  <2>1. Calm(y)
    BY <1>4 DEF Sound, Calm, Alike, Counted, Linked, Registered
  <2>2. InEcho(y) /\ InGame(y)
    BY <1>4 DEF Sound, Alike, InEcho, InGame
  <2>3. Waiting(y)
    BY <1>4 DEF Sound, Alike, Waiting
  <2> QED BY <1>4, <2>1, <2>2, <2>3 DEF Sound, Alike
<1> QED BY <1>1, <1>2, <1>3, <1>4, FlushPendEffect

(* After a write EPOLLOUT is asked for, if bytes are held back.                 *)
LEMMA ArmedEffect ==
    ASSUME NEW x \in Client, Registered(x), NEW y, y = Armed(x)
    PROVE  /\ y \in Client /\ Alike(x, y) /\ y.out = x.out /\ y.pend = x.pend
           /\ Registered(y) /\ (y.fd /\ y.pend # <<>> => y.want)
<1>1. CASE x.pend # <<>>
  <2>1. y = UpdateWrite(x, TRUE)
    BY <1>1 DEF Armed
  <2> QED BY <2>1, UpdateWriteEffect
<1>2. CASE x.pend = <<>>
  <2>1. y = x
    BY <1>2 DEF Armed
  <2> QED BY <1>2, <2>1 DEF Alike
<1> QED BY <1>1, <1>2

(* Exactly one echo more is on its way, and counted, or the client is cut.      *)
LEMMA SendEchoSound ==
    ASSUME NEW x, Sound(x), x.state = "Active", x.echoSeq < MaxEcho, opt.mode = "echo",
           opt \in Options, NEW z \in SendEcho(x)
    PROVE  Sound(z) /\ z.state # "Idle"
<1> DEFINE n == x.echoSeq + 1
           u == [x EXCEPT !.echoSeq = n]
           data == Msg("ECHO", n)
<1>1. x \in Client /\ x.echoSeq \in 0 .. MaxEcho - 1 /\ n \in 0 .. MaxEcho
  BY Sizes DEF Sound, Calm, Client
<1>2. /\ u \in Client /\ u.echoSeq = n /\ u.out = x.out /\ u.pend = x.pend
      /\ u.want = x.want /\ u.reg = x.reg
      /\ u.state = x.state /\ u.fd = x.fd /\ u.attacker = x.attacker /\ u.recv = x.recv
      /\ u.in = x.in /\ u.link = x.link /\ u.expectRecv = x.expectRecv /\ u.pending = x.pending
      /\ u.act = x.act /\ u.alarm = x.alarm
  BY <1>1 DEF Client
<1>3. data \in Seq(Halves) /\ Len(data) = 2
  BY <1>1, MsgType
<1>4. PICK y \in SendBytes(u, data) :
         z = IF y.state = "Dead" THEN y ELSE [Armed(y) EXCEPT !.pending = @ + 1]
  BY DEF SendEcho
<1> HIDE DEF u, data
<1>5. Calm(u)
  <2>1. Fits(u) /\ Linked(u) /\ Registered(u)
    BY <1>2 DEF Sound, Calm, Fits, Linked, Registered
  <2>2. Counted(u)
    <3>1. x.pending \in Int /\ x.echoSeq \in Int
      BY <1>1, Sizes DEF Client
    <3> QED BY <1>2, <3>1 DEF Sound, Calm, Counted
  <2> QED BY <1>2, <2>1, <2>2 DEF Sound, Calm
<1>6. CASE y = Kill(u)
  BY <1>4, <1>5, <1>6, KillSound
<1>7. CASE Sent(u, y, data)
  <2>1. y \in Client /\ Fits(y) /\ Alike(u, y) /\ y.reg = u.reg /\ (y.want => u.want)
    BY <1>7 DEF Sent
  <2>2. y.state = "Active" /\ Registered(y)
    BY <1>2, <1>5, <2>1 DEF Alike, Calm, Registered
  <2> DEFINE v == Armed(y)
  <2>3. /\ v \in Client /\ Alike(y, v) /\ v.out = y.out /\ v.pend = y.pend
        /\ Registered(v) /\ (v.fd /\ v.pend # <<>> => v.want)
    BY <2>1, <2>2, ArmedEffect
  <2>4. z = [v EXCEPT !.pending = v.pending + 1]
    BY <1>4, <2>2, <2>3 DEF Client
  <2> HIDE DEF v
  <2>5. v.pending = x.pending /\ x.pending \in Nat /\ x.pending <= x.echoSeq
    BY <1>1, <1>2, <2>1, <2>3, Sizes DEF Alike, Client, Sound, Calm, Counted
  <2>6. /\ z \in Client /\ z.pending = x.pending + 1 /\ z.echoSeq = n
        /\ z.state = "Active" /\ z.fd = x.fd /\ z.attacker = x.attacker /\ z.link = x.link
        /\ z.act = x.act /\ z.alarm = x.alarm /\ z.expectRecv = x.expectRecv
        /\ z.recv = y.recv /\ z.in = y.in /\ z.out = y.out /\ z.pend = y.pend
        /\ z.want = v.want /\ z.reg = v.reg /\ z.fd = v.fd
    <3>1. v.pending + 1 \in 0 .. MaxEcho
      BY <1>1, <2>5, Sizes
    <3>2. /\ z \in Client /\ z.pending = v.pending + 1 /\ Alike(v, [z EXCEPT !.pending = v.pending])
          /\ z.want = v.want /\ z.reg = v.reg /\ z.out = v.out /\ z.pend = v.pend
          /\ z.state = v.state /\ z.fd = v.fd /\ z.attacker = v.attacker /\ z.link = v.link
          /\ z.act = v.act /\ z.alarm = v.alarm /\ z.expectRecv = v.expectRecv
          /\ z.echoSeq = v.echoSeq /\ z.recv = v.recv /\ z.in = v.in
      BY <2>3, <2>4, <3>1 DEF Client, Alike
    <3> QED BY <1>2, <2>1, <2>2, <2>3, <2>5, <3>2 DEF Alike
  <2>7. Fits(z) /\ Linked(z) /\ Registered(z) /\ Waiting(z)
    BY <1>2, <1>5, <2>1, <2>2, <2>3, <2>6 DEF Fits, Linked, Registered, Waiting, Calm
  <2>8. Counted(z)
    BY <1>1, <2>5, <2>6 DEF Counted, Sound, Calm
  <2>9. Calm(z)
    BY <2>6, <2>7, <2>8 DEF Sound, Calm
  <2>10. Pipe(z) = Pipe(x) \o data
    <3>1. Pipe(y) = Pipe(u) \o data /\ Pipe(u) = Pipe(x) /\ Pipe(z) = Pipe(y)
      BY <1>2, <1>7, <2>6 DEF Sent, Pipe
    <3> QED BY <3>1
  <2>11. InEcho(z)
    <3>1. x.fd
      BY DEF Sound, Calm, Linked
    <3>2. Pipe(x) = Echoes(x.expectRecv, x.echoSeq) /\ x.pending = x.echoSeq + 1 - x.expectRecv
      BY <3>1 DEF Sound, InEcho
    <3>3. x.expectRecv \in 1 .. MaxEcho + 1 /\ x.expectRecv <= x.echoSeq + 1
      <4>1. x.expectRecv \in 1 .. MaxEcho + 1
        BY <1>1 DEF Client
      <4> QED BY <1>1, <2>5, <3>2, <4>1, Sizes
    <3>4. Echoes(x.expectRecv, x.echoSeq) \o Msg("ECHO", x.echoSeq + 1)
            = Echoes(x.expectRecv, x.echoSeq + 1)
      BY <1>1, <3>3, EchoAdded
    <3>5. Pipe(z) = Echoes(z.expectRecv, z.echoSeq)
      BY <2>6, <2>10, <3>2, <3>4 DEF data
    <3>6. z.pending = z.echoSeq + 1 - z.expectRecv
      BY <1>1, <2>5, <2>6, <3>2, <3>3, Sizes
    <3> QED BY <2>6, <3>5, <3>6 DEF InEcho
  <2>12. InGame(z)
    BY DEF InGame
  <2> QED BY <2>6, <2>7, <2>9, <2>11, <2>12 DEF Sound
<1> QED BY <1>2, <1>3, <1>5, <1>6, <1>7, SendBytesEffect DEF Calm

(* More requests on the way out are requests.                                   *)
LEMMA RequestsAdded ==
    ASSUME NEW q \in Seq(Halves), Requests(q), NEW kind \in {"JOIN", "INPUT"}
    PROVE  Requests(q \o Msg(kind, 0))
<1> DEFINE m == Msg(kind, 0)
<1>1. m \in Seq(Halves) /\ Len(m) = 2 /\ m[1].kind = kind /\ m[2].kind = kind
  <2>1. 0 \in 0 .. MaxEcho
    BY Sizes
  <2>2. m \in Seq(Halves) /\ Len(m) = 2 /\ m[1] = Half(kind, 0, 1) /\ m[2] = Half(kind, 0, 2)
    BY <2>1, MsgType
  <2> QED BY <2>2 DEF Half
<1> HIDE DEF m
<1>2. /\ Len(q \o m) = Len(q) + Len(m)
      /\ \A k \in 1 .. Len(q) + Len(m) : (q \o m)[k] = IF k <= Len(q) THEN q[k] ELSE m[k - Len(q)]
  BY <1>1, Joined, Zenon
<1>3. ASSUME NEW k \in 1 .. Len(q \o m)
      PROVE  (q \o m)[k].kind \in {"JOIN", "INPUT"}
  <2>1. Len(q) \in Nat /\ k \in 1 .. Len(q) + 2
    BY <1>1, <1>2
  <2>2. (q \o m)[k] = IF k <= Len(q) THEN q[k] ELSE m[k - Len(q)]
    BY <1>1, <1>2, <2>1
  <2>3. CASE k <= Len(q)
    BY <2>1, <2>2, <2>3 DEF Requests
  <2>4. CASE ~(k <= Len(q))
    <3>1. k - Len(q) \in {1, 2}
      BY <2>1, <2>4
    <3> QED BY <1>1, <2>2, <2>4, <3>1
  <2> QED BY <2>3, <2>4
<1> QED BY <1>3 DEF Requests, m

(* A message of a game that is sent.                                            *)
LEMMA SendGameSteady ==
    ASSUME NEW x, Sound(x), x.fd, opt.mode = "game", opt \in Options,
           NEW kind \in {"JOIN", "INPUT"}, NEW y \in SendBytes(x, Msg(kind, 0))
    PROVE  \/ Sound(y) /\ y.state = "Dead" /\ ~y.fd
           \/ Steady(y) /\ y.state = x.state /\ y.fd
<1> DEFINE data == Msg(kind, 0)
<1>1. data \in Seq(Halves) /\ Len(data) = 2 /\ x \in Client /\ Fits(x) /\ y \in SendBytes(x, data)
  BY Sizes, MsgType DEF Sound, Calm
<1> HIDE DEF data
<1>2. CASE y = Kill(x)
  BY <1>2, KillSound DEF Sound
<1>3. CASE Sent(x, y, data)
  <2>1. /\ y \in Client /\ Fits(y) /\ Alike(x, y) /\ y.reg = x.reg /\ (y.want => x.want)
        /\ y.out \o y.pend = (x.out \o x.pend) \o data
    BY <1>3 DEF Sent
  <2>2. Calm(y)
    BY <2>1 DEF Sound, Calm, Alike, Counted, Linked, Registered
  <2>3. Requests(y.out \o y.pend)
    <3>1. x.out \o x.pend \in Seq(Halves) /\ Requests(x.out \o x.pend)
      BY <1>1, Buffers DEF Sound, InGame
    <3>2. Requests((x.out \o x.pend) \o data)
      BY <3>1, RequestsAdded DEF data
    <3> QED BY <2>1, <3>2
  <2>4. InGame(y)
    BY <2>1, <2>3 DEF Sound, InGame, Alike
  <2>5. InEcho(y)
    BY DEF InEcho
  <2> QED BY <2>1, <2>2, <2>4, <2>5 DEF Steady, Alike
<1> QED BY <1>1, <1>2, <1>3, SendBytesEffect

(* The connection is there: the client is Active, or it asks to join.           *)
LEMMA ConnectedEcho ==
    ASSUME NEW x, Sound(x), x.state = "Connecting", opt.mode = "echo", opt \in Options
    PROVE  LET y == [x EXCEPT !.state = "Active", !.act = @ + 1]
               z == IF y.attacker THEN [y EXCEPT !.reg = {}, !.want = FALSE, !.nextRecv = opt.slow]
                                  ELSE UpdateWrite(y, y.pend # <<>>)
           IN  Sound(z) /\ z.state = "Active"
<1> DEFINE y == [x EXCEPT !.state = "Active", !.act = @ + 1]
           z == [y EXCEPT !.reg = {}, !.want = FALSE, !.nextRecv = opt.slow]
<1>1. x \in Client /\ x.act = 0 /\ x.fd /\ x.pend = <<>>
  BY DEF Sound, Calm, Counted, Linked, Waiting
<1>2. /\ y \in Client /\ y.state = "Active" /\ y.act = 1 /\ y.fd = x.fd /\ y.attacker = x.attacker
      /\ y.want = x.want /\ y.reg = x.reg
      /\ y.recv = x.recv /\ y.in = x.in /\ y.out = x.out /\ y.pend = x.pend /\ y.link = x.link
      /\ y.echoSeq = x.echoSeq /\ y.expectRecv = x.expectRecv /\ y.pending = x.pending
      /\ y.alarm = x.alarm
  <2>1. x.act + 1 = 1
    BY <1>1
  <2>2. y = [x EXCEPT !.state = "Active", !.act = 1]
    BY <2>1
  <2> HIDE DEF y
  <2>3. x \in Client
    BY <1>1
  <2>4. y \in Client
    BY ONLY <2>2, <2>3, OpenedType
  <2>5. /\ y.state = "Active" /\ y.act = 1 /\ y.fd = x.fd /\ y.attacker = x.attacker
        /\ y.want = x.want /\ y.reg = x.reg
        /\ y.recv = x.recv /\ y.in = x.in /\ y.out = x.out /\ y.pend = x.pend /\ y.link = x.link
        /\ y.echoSeq = x.echoSeq /\ y.expectRecv = x.expectRecv /\ y.pending = x.pending
        /\ y.alarm = x.alarm
    BY ONLY <2>2, <2>3 DEF Client
  <2> QED BY <2>4, <2>5
<1> HIDE DEF y
<1>3. Calm(y)
  BY <1>1, <1>2 DEF Sound, Calm, Fits, Counted, Linked, Registered
<1>4. InEcho(y) /\ InGame(y)
  BY <1>1, <1>2 DEF Sound, InEcho, InGame, Pipe
<1>5. CASE y.attacker
  <2>1. opt.slow \in BOOLEAN
    BY OptionAssumption
  <2>2. /\ z \in Client /\ Alike(y, z) /\ z.out = y.out /\ z.pend = y.pend
        /\ z.want = FALSE
    BY <1>2, <2>1 DEF Client, Alike
  <2> HIDE DEF z
  <2>3. Steady(z)
    BY <1>3, <1>4, <2>2, AlikeSteady DEF Steady, Registered
  <2>4. Sound(z) /\ z.state = "Active"
    BY <1>1, <1>2, <2>2, <2>3 DEF Steady, Sound, Waiting, Alike
  <2> QED BY <1>5, <2>4 DEF z, y
<1>6. CASE ~y.attacker
  <2>1. Sound(UpdateWrite(y, y.pend # <<>>)) /\ UpdateWrite(y, y.pend # <<>>).state = "Active"
    BY <1>2, <1>3, <1>4, UpdateWriteSound DEF Steady, Alike
  <2> QED BY <1>6, <2>1 DEF y
<1> QED BY <1>5, <1>6

(* Joining, with the request on its way, or cut.                                *)
LEMMA ConnectedGame ==
    ASSUME NEW x, Sound(x), x.state = "Connecting", opt.mode = "game", opt \in Options,
           NEW y \in SendBytes(x, Msg("JOIN", 0))
    PROVE  LET z == UpdateWrite([y EXCEPT !.state = "Joining"], y.pend # <<>>)
           IN  Sound(z) /\ z.state = "Joining"
<1> DEFINE z == [y EXCEPT !.state = "Joining"]
<1>1. x.fd
  BY DEF Sound, Calm, Linked
<1>2. Calm(y) /\ InGame(y) /\ y.state \in {"Dead", "Connecting"} /\ (y.state = "Dead" => ~y.fd)
  BY <1>1, SendGameSteady DEF Sound, Steady
<1>3. /\ z \in Client /\ z.state = "Joining" /\ z.act = y.act /\ z.fd = y.fd /\ z.attacker = y.attacker
      /\ z.want = y.want /\ z.reg = y.reg
      /\ z.recv = y.recv /\ z.in = y.in /\ z.out = y.out /\ z.pend = y.pend /\ z.link = y.link
      /\ z.echoSeq = y.echoSeq /\ z.pending = y.pending /\ z.alarm = y.alarm
  BY <1>2 DEF Calm, Client
<1> HIDE DEF z
<1>4. Calm(z)
  BY <1>2, <1>3 DEF Calm, Fits, Counted, Linked, Registered
<1>5. InEcho(z) /\ InGame(z)
  BY <1>2, <1>3 DEF InEcho, InGame
<1>6. Sound(UpdateWrite(z, z.pend # <<>>)) /\ UpdateWrite(z, z.pend # <<>>).state = "Joining"
  BY <1>3, <1>4, <1>5, UpdateWriteSound DEF Steady, Alike
<1> QED BY <1>3, <1>6 DEF z

--------------------------------------------------------------------------------
(* Receiving.                                                                   *)

(* The loop over the first n messages of r as a function of the number that     *)
(* were handled.                                                                *)
Handled(x, r, n, f) ==
    f = [k \in 0 .. n |-> IF k = 0 THEN x ELSE Frame(f[k - 1], r[2 * k - 1], r[2 * k])]

(* There is such a function for every number of messages.                       *)
LEMMA HandledExists ==
    ASSUME NEW x, NEW r, NEW n \in Nat
    PROVE  \E f : Handled(x, r, n, f)
<1> DEFINE Good == {m \in 0 .. n : \E f : Handled(x, r, m, f)}
<1>1. \E f : Handled(x, r, 0, f)
  <2> DEFINE g == [k \in 0 .. 0 |-> x]
  <2>1. g = [k \in 0 .. 0 |-> IF k = 0 THEN x ELSE Frame(g[k - 1], r[2 * k - 1], r[2 * k])]
    OBVIOUS
  <2> HIDE DEF g
  <2>2. Handled(x, r, 0, g)
    BY <2>1 DEF Handled
  <2> QED BY <2>2
<1>2. ASSUME NEW m \in 1 .. n, NEW f, Handled(x, r, m - 1, f)
      PROVE  \E h : Handled(x, r, m, h)
  <2> DEFINE g == [k \in 0 .. m |-> IF k = m THEN Frame(f[m - 1], r[2 * m - 1], r[2 * m]) ELSE f[k]]
  <2>1. \A k \in 0 .. m - 1 :
           f[k] = IF k = 0 THEN x ELSE Frame(f[k - 1], r[2 * k - 1], r[2 * k])
    BY <1>2 DEF Handled
  <2>2. ASSUME NEW k \in 0 .. m
        PROVE  g[k] = IF k = 0 THEN x ELSE Frame(g[k - 1], r[2 * k - 1], r[2 * k])
    <3>1. CASE k = m
      <4>1. g[k - 1] = f[m - 1]
        BY <3>1
      <4> QED BY <3>1, <4>1
    <3>2. CASE k # m
      <4>1. k \in 0 .. m - 1 /\ g[k] = f[k]
        BY <3>2
      <4>2. k # 0 => g[k - 1] = f[k - 1]
        BY <3>2
      <4> QED BY <2>1, <4>1, <4>2
    <3> QED BY <3>1, <3>2
  <2>3. g = [k \in 0 .. m |-> IF k = 0 THEN x ELSE Frame(g[k - 1], r[2 * k - 1], r[2 * k])]
    BY <2>2
  <2> HIDE DEF g
  <2>4. Handled(x, r, m, g)
    BY <2>3 DEF Handled
  <2> QED BY <2>4
<1>3. 0 \in Good
  <2>1. 0 \in 0 .. n
    OBVIOUS
  <2> QED BY <1>1, <2>1
<1>4. \A m \in 1 .. n : m - 1 \in Good => m \in Good
  <2> SUFFICES ASSUME NEW m \in 1 .. n, m - 1 \in Good PROVE m \in Good
    OBVIOUS
  <2>1. m \in 0 .. n
    OBVIOUS
  <2>2. \E f : Handled(x, r, m, f)
    BY <1>2
  <2> QED BY <2>1, <2>2
<1> HIDE DEF Good
<1>5. \A m \in 0 .. n : m \in Good
  BY <1>3, <1>4, UpTo
<1>6. n \in Good
  <2>1. n \in 0 .. n
    OBVIOUS
  <2> QED BY <1>5, <2>1
<1> QED BY <1>6 DEF Good

(* What parsing does, message by message.                                       *)
LEMMA ParsedSteps ==
    ASSUME NEW x, NEW n \in Nat, n = Len(x.recv) \div 2
    PROVE  \E f : /\ ParseFrames(x) = [f[n] EXCEPT !.recv = SubSeq(x.recv, 2 * n + 1, Len(x.recv))]
                  /\ f[0] = x
                  /\ \A k \in 1 .. n : f[k] = Frame(f[k - 1], x.recv[2 * k - 1], x.recv[2 * k])
<1>1. \E f : Handled(x, x.recv, n, f)
  BY HandledExists
<1>2. PICK f : /\ Handled(x, x.recv, n, f)
               /\ ParseFrames(x) = [f[n] EXCEPT !.recv = SubSeq(x.recv, 2 * n + 1, Len(x.recv))]
  BY <1>1 DEF ParseFrames, Handled
<1>3. f[0] = x /\ \A k \in 1 .. n : f[k] = Frame(f[k - 1], x.recv[2 * k - 1], x.recv[2 * k])
  <2> DEFINE r == x.recv
  <2>1. n \in Nat /\ Handled(x, r, n, f)
    BY <1>2
  <2> HIDE DEF r
  <2>2. f[0] = x /\ \A k \in 1 .. n : f[k] = Frame(f[k - 1], r[2 * k - 1], r[2 * k])
    BY ONLY <2>1 DEF Handled
  <2> QED BY <2>2 DEF r
<1> QED BY <1>2, <1>3

(* Where the parts of the pipe lie in it.                                       *)
LEMMA PipeParts ==
    ASSUME NEW x \in Client
    PROVE  /\ Len(Pipe(x)) = Len(x.recv) + Len(x.in) + Len(x.out) + Len(x.pend)
           /\ \A k \in 1 .. Len(x.recv) : Pipe(x)[k] = x.recv[k]
           /\ \A k \in 1 .. Len(x.out) : Pipe(x)[Len(x.recv) + Len(x.in) + k] = x.out[k]
<1> DEFINE a == x.recv \o x.in
           b == a \o x.out
<1>1. /\ x.pend \in Seq(Halves) /\ x.recv \in Seq(Halves) /\ x.out \in Seq(Halves) /\ x.in \in Seq(Halves)
      /\ Len(x.pend) \in Nat /\ Len(x.recv) \in Nat /\ Len(x.out) \in Nat /\ Len(x.in) \in Nat
  BY Buffers
<1>2. /\ a \in Seq(Halves) /\ Len(a) = Len(x.recv) + Len(x.in)
      /\ \A k \in 1 .. Len(x.recv) + Len(x.in) :
            a[k] = IF k <= Len(x.recv) THEN x.recv[k] ELSE x.in[k - Len(x.recv)]
  BY <1>1, Joined
<1>3. Pipe(x) = b \o x.pend
  BY DEF Pipe
<1> HIDE DEF a
<1>4. /\ b \in Seq(Halves) /\ Len(b) = Len(a) + Len(x.out)
      /\ \A k \in 1 .. Len(a) + Len(x.out) :
            b[k] = IF k <= Len(a) THEN a[k] ELSE x.out[k - Len(a)]
  BY <1>1, <1>2, Joined
<1> HIDE DEF b
<1>5. /\ Len(Pipe(x)) = Len(b) + Len(x.pend)
      /\ \A k \in 1 .. Len(b) + Len(x.pend) :
            Pipe(x)[k] = IF k <= Len(b) THEN b[k] ELSE x.pend[k - Len(b)]
  <2>1. b \in Seq(Halves) /\ x.pend \in Seq(Halves)
    BY <1>1, <1>4
  <2>2. /\ Len(b \o x.pend) = Len(b) + Len(x.pend)
        /\ \A k \in 1 .. Len(b) + Len(x.pend) :
              (b \o x.pend)[k] = IF k <= Len(b) THEN b[k] ELSE x.pend[k - Len(b)]
    BY <2>1, Joined
  <2> QED BY <1>3, <2>2, Zenon
<1>6. ASSUME NEW k \in 1 .. Len(x.recv)
      PROVE  Pipe(x)[k] = x.recv[k]
  <2>1. k \in 1 .. Len(x.recv) + Len(x.in) /\ k \in 1 .. Len(a) + Len(x.out)
        /\ k \in 1 .. Len(b) + Len(x.pend) /\ k <= Len(a) /\ k <= Len(b) /\ k <= Len(x.recv)
    <3> DEFINE p == Len(x.recv)
               q == Len(x.in)
               o == Len(x.out)
               d == Len(x.pend)
               e == Len(a)
               g == Len(b)
    <3>1. p \in Nat /\ q \in Nat /\ o \in Nat /\ d \in Nat /\ e = p + q /\ g = e + o /\ k \in 1 .. p
      BY <1>1, <1>2, <1>4
    <3> HIDE DEF p, q, o, d, e, g
    <3>2. k \in 1 .. p + q /\ k \in 1 .. e + o /\ k \in 1 .. g + d /\ k <= e /\ k <= g /\ k <= p
      BY ONLY <3>1
    <3> QED BY <3>2 DEF p, q, o, d, e, g
  <2>2. Pipe(x)[k] = b[k]
    BY <1>5, <2>1, Zenon
  <2>3. b[k] = a[k]
    BY <1>4, <2>1, Zenon
  <2>4. a[k] = x.recv[k]
    BY <1>2, <2>1, Zenon
  <2> QED BY <2>2, <2>3, <2>4
<1>8. Len(a) \in Nat /\ Len(x.out) \in Nat /\ Len(x.pend) \in Nat
  <2>1. a \in Seq(Halves)
    BY <1>2
  <2> QED BY <1>1, <2>1
<1>7. ASSUME NEW k \in 1 .. Len(x.out)
      PROVE  Pipe(x)[Len(x.recv) + Len(x.in) + k] = x.out[k]
  <2> DEFINE j == Len(a) + k
  <2>1. /\ j \in 1 .. Len(a) + Len(x.out) /\ ~(j <= Len(a)) /\ j - Len(a) = k
        /\ j \in 1 .. Len(b) + Len(x.pend) /\ j <= Len(b)
    <3> DEFINE o == Len(x.out)
               d == Len(x.pend)
               e == Len(a)
               g == Len(b)
    <3>1. o \in Nat /\ d \in Nat /\ e \in Nat
      BY <1>8
    <3>2. g = e + o
      BY <1>4
    <3>3. k \in 1 .. o
      OBVIOUS
    <3> HIDE DEF o, d, e, g
    <3>4. /\ e + k \in 1 .. e + o /\ ~(e + k <= e) /\ e + k - e = k
          /\ e + k \in 1 .. g + d /\ e + k <= g
      BY ONLY <3>1, <3>2, <3>3
    <3> QED BY <3>4 DEF o, d, e, g
  <2>2. j = Len(x.recv) + Len(x.in) + k
    BY <1>2
  <2> HIDE DEF j
  <2>3. Pipe(x)[j] = b[j]
    BY <1>5, <2>1, Zenon
  <2>4. b[j] = x.out[j - Len(a)]
    BY <1>4, <2>1, Zenon
  <2> QED BY <2>1, <2>2, <2>3, <2>4
<1> QED BY <1>1, <1>2, <1>4, <1>5, <1>6, <1>7

(* What is left of two lists when the first halves of the front one are gone.   *)
LEMMA FrontGone ==
    ASSUME NEW p \in Seq(Halves), NEW q \in Seq(Halves), NEW j \in 0 .. Len(p)
    PROVE  SubSeq(p \o q, j + 1, Len(p \o q)) = SubSeq(p, j + 1, Len(p)) \o q
<1> DEFINE r == SubSeq(p, j + 1, Len(p))
           s == p \o q
<1>1. /\ Len(p) \in Nat /\ Len(q) \in Nat
      /\ s \in Seq(Halves) /\ Len(s) = Len(p) + Len(q)
      /\ \A k \in 1 .. Len(p) + Len(q) : s[k] = IF k <= Len(p) THEN p[k] ELSE q[k - Len(p)]
  BY Joined
<1> HIDE DEF s
<1>2. r \in Seq(Halves) /\ Len(r) = Len(p) - j /\ \A k \in 1 .. Len(p) - j : r[k] = p[j + k]
  BY <1>1, Rest
<1> HIDE DEF r
<1>3. /\ SubSeq(s, j + 1, Len(s)) \in Seq(Halves) /\ Len(SubSeq(s, j + 1, Len(s))) = Len(s) - j
      /\ \A k \in 1 .. Len(s) - j : SubSeq(s, j + 1, Len(s))[k] = s[j + k]
  <2>1. j \in 0 .. Len(s)
    BY <1>1
  <2> QED BY <1>1, <2>1, Rest
<1>4. /\ r \o q \in Seq(Halves) /\ Len(r \o q) = Len(r) + Len(q)
      /\ \A k \in 1 .. Len(r) + Len(q) : (r \o q)[k] = IF k <= Len(r) THEN r[k] ELSE q[k - Len(r)]
  BY <1>2, Joined
<1> DEFINE t == SubSeq(s, j + 1, Len(s))
           u == r \o q
<1> HIDE DEF t, u
<1>5. Len(t) = Len(u)
  BY <1>1, <1>2, <1>3, <1>4 DEF t, u
<1>6. ASSUME NEW k \in 1 .. Len(t)
      PROVE  t[k] = u[k]
  <2>1. k \in 1 .. Len(s) - j /\ k \in 1 .. Len(r) + Len(q) /\ j + k \in 1 .. Len(p) + Len(q)
    BY <1>1, <1>2, <1>3 DEF t
  <2>2. t[k] = s[j + k] /\ u[k] = IF k <= Len(r) THEN r[k] ELSE q[k - Len(r)]
    BY <1>3, <1>4, <2>1 DEF t, u
  <2>3. s[j + k] = IF j + k <= Len(p) THEN p[j + k] ELSE q[j + k - Len(p)]
    BY <1>1, <2>1
  <2>4. CASE k <= Len(r)
    <3>1. k \in 1 .. Len(p) - j /\ j + k <= Len(p)
      BY <1>1, <1>2, <2>1, <2>4
    <3> QED BY <1>2, <2>2, <2>3, <2>4, <3>1
  <2>5. CASE ~(k <= Len(r))
    <3>1. ~(j + k <= Len(p)) /\ j + k - Len(p) = k - Len(r)
      BY <1>1, <1>2, <2>1, <2>5
    <3> QED BY <2>2, <2>3, <2>5, <3>1
  <2> QED BY <2>4, <2>5
<1>7. t = u
  BY <1>3, <1>4, <1>5, <1>6, SeqEqual DEF t, u
<1> QED BY <1>7 DEF t, u, s, r

(* All of a client that reading does not touch.                                 *)
Same(x, y) ==
    /\ y.state = x.state /\ y.fd = x.fd /\ y.attacker = x.attacker
    /\ y.pend = x.pend /\ y.out = x.out /\ y.want = x.want /\ y.reg = x.reg
    /\ y.link = x.link /\ y.echoSeq = x.echoSeq /\ y.act = x.act /\ y.alarm = x.alarm

(* What has arrived is put behind the half that waits.                          *)
LEMMA ReadEffect ==
    ASSUME NEW x \in Client, NEW k \in 0 .. Len(x.in),
           NEW u, u = [x EXCEPT !.recv = @ \o SubSeq(x.in, 1, k), !.in = SubSeq(@, k + 1, Len(@))]
    PROVE  /\ u \in Client /\ Same(x, u) /\ u.recv \o u.in = x.recv \o x.in
           /\ Len(u.in) <= Len(x.in) /\ u.expectRecv = x.expectRecv /\ u.pending = x.pending
<1> DEFINE front == SubSeq(x.in, 1, k)
           back == SubSeq(x.in, k + 1, Len(x.in))
<1>1. x.in \in Seq(Halves) /\ x.recv \in Seq(Halves) /\ Len(x.in) \in Nat
  BY Buffers
<1>2. /\ front \in Seq(Halves) /\ back \in Seq(Halves) /\ Len(back) = Len(x.in) - k
      /\ front \o back = x.in
  BY <1>1, Split, Zenon
<1>3. u = [x EXCEPT !.recv = x.recv \o front, !.in = back]
  BY DEF Client
<1> HIDE DEF front, back
<1>4. x.recv \o front \in Seq(Halves)
  BY <1>1, <1>2, Joined, Zenon
<1>5. /\ u \in Client /\ Same(x, u) /\ u.recv = x.recv \o front /\ u.in = back
      /\ u.expectRecv = x.expectRecv /\ u.pending = x.pending
  <2> DEFINE r == x.recv \o front
  <2>1. r \in Seq(Halves) /\ back \in Seq(Halves) /\ u = [x EXCEPT !.recv = r, !.in = back]
    BY <1>2, <1>3, <1>4
  <2> HIDE DEF r
  <2>2. /\ u \in Client /\ Same(x, u) /\ u.recv = r /\ u.in = back
        /\ u.expectRecv = x.expectRecv /\ u.pending = x.pending
    BY ONLY <2>1, x \in Client DEF Client, Same
  <2> QED BY <2>2 DEF r
<1>6. (x.recv \o front) \o back = x.recv \o x.in
  <2>1. x.recv \o (front \o back) = (x.recv \o front) \o back
    BY <1>1, <1>2, Follow, Zenon
  <2> QED BY <1>2, <2>1
<1>7. Len(u.in) <= Len(x.in)
  <2> DEFINE a == Len(x.in)
             b == Len(back)
  <2>1. a \in Nat /\ k \in 0 .. a /\ b = a - k
    BY <1>1, <1>2
  <2> HIDE DEF a, b
  <2>2. b <= a
    BY ONLY <2>1
  <2> QED BY <1>5, <2>2 DEF a, b
<1> QED BY <1>5, <1>6, <1>7

(* A client u of a game that handles what it has received has become g.         *)
Handling(u, g) ==
    /\ g \in Client /\ Counted(g) /\ Linked(g) /\ Registered(g) /\ ~g.alarm
    /\ g.attacker = u.attacker /\ g.state \notin {"Idle", "Connecting"} /\ (g.state = "Dead" \/ g.fd)
    /\ g.recv = u.recv /\ g.pend = u.pend /\ g.want = u.want
    /\ g.fd => g.in = u.in /\ g.out = u.out

(* An answer to a join is whole, so it lets the client play or ends it.         *)
LEMMA FrameGame ==
    ASSUME NEW u, NEW g, Handling(u, g), opt \in Options,
           NEW h \in Halves, h.kind \in {"JOIN_OK", "JOIN_FAIL"},
           NEW t, t = [h EXCEPT !.part = 2], NEW y, y = Frame(g, h, t)
    PROVE  Handling(u, y)
<1>1. CASE g.state = "Dead"
  BY <1>1 DEF Frame
<1>2. CASE g.state # "Dead" /\ h.kind = "JOIN_FAIL"
  <2>1. y = Kill(g)
    BY <1>2 DEF Frame
  <2>2. g \in Client /\ Counted(g) /\ Linked(g)
    BY DEF Handling
  <2>3. /\ y \in Client /\ Counted(y) /\ Linked(y) /\ Registered(y)
        /\ y.state = "Dead" /\ y.fd = FALSE /\ y.pend = g.pend /\ y.recv = g.recv
        /\ y.want = g.want /\ y.alarm = g.alarm /\ y.attacker = g.attacker
    BY <2>1, <2>2, KillEffect
  <2> QED BY <2>3 DEF Handling
<1>3. CASE g.state # "Dead" /\ h.kind = "JOIN_OK"
  <2>1. y = JoinOk(g)
    BY <1>3 DEF Frame
  <2>2. CASE g.state # "Joining"
    BY <2>1, <2>2 DEF JoinOk
  <2>3. CASE g.state = "Joining"
    <3>1. g.act + 1 = 1 /\ g \in Client
      BY <2>3 DEF Handling, Counted
    <3>2. y = [g EXCEPT !.state = "Active", !.act = 1]
      BY <2>1, <2>3, <3>1 DEF JoinOk
    <3>3. /\ y \in Client /\ Same([g EXCEPT !.state = "Active", !.act = 1], y)
          /\ y.state = "Active" /\ y.act = 1 /\ y.fd = g.fd /\ y.attacker = g.attacker
          /\ y.pend = g.pend /\ y.out = g.out /\ y.in = g.in /\ y.recv = g.recv
          /\ y.want = g.want /\ y.reg = g.reg /\ y.link = g.link /\ y.alarm = g.alarm
          /\ y.pending = g.pending /\ y.echoSeq = g.echoSeq
      BY <3>1, <3>2 DEF Client, Same
    <3> QED BY <2>3, <3>3 DEF Handling, Counted, Linked, Registered
  <2> QED BY <2>2, <2>3
<1> QED BY <1>1, <1>2, <1>3

(* A client u that expects i echoes less has become g.                          *)
Checked(u, i, g) ==
    /\ g \in Client /\ Same(u, g) /\ g.recv = u.recv /\ g.in = u.in
    /\ g.pending = u.pending - i /\ g.expectRecv = u.expectRecv + i

(* The echo that is expected is no violation.                                   *)
LEMMA FrameEcho ==
    ASSUME NEW u \in Client, u.state = "Active", ~u.alarm, NEW i \in Nat, i < u.pending,
           u.expectRecv + i <= MaxEcho,
           NEW g, Checked(u, i, g), NEW y,
           y = Frame(g, Half("ECHO", u.expectRecv + i, 1), Half("ECHO", u.expectRecv + i, 2))
    PROVE  Checked(u, i + 1, y)
<1> DEFINE e == u.expectRecv + i
           h == Half("ECHO", e, 1)
           t == Half("ECHO", e, 2)
<1>1. u.pending \in Nat /\ u.expectRecv \in Nat /\ MaxEcho \in Nat /\ u.pending <= MaxEcho
      /\ u.expectRecv >= 1
  BY Sizes DEF Client
<1>2. t = [h EXCEPT !.part = 2] /\ h.kind = "ECHO" /\ h.seq = e
  BY DEF Half
<1>3. g \in Client /\ g.state = "Active" /\ g.pending = u.pending - i /\ g.expectRecv = e
      /\ g.alarm = FALSE
  BY DEF Checked, Same, Client
<1>4. y = CheckEcho(g, h)
  <2> HIDE DEF h, t, e
  <2>1. y = Frame(g, h, t)
    BY DEF h, t, e
  <2> QED BY <1>2, <1>3, <2>1 DEF Frame
<1> DEFINE p == u.pending - i - 1
           f == e + 1
<1>5. p \in 0 .. MaxEcho /\ f \in 1 .. MaxEcho + 1 /\ p = u.pending - (i + 1)
      /\ f = u.expectRecv + (i + 1)
  BY <1>1
<1>6. y = [g EXCEPT !.pending = p, !.alarm = FALSE, !.expectRecv = f]
  <2>1. ~(e > e) /\ ~(e < e) /\ u.pending - i > 0 /\ e \in Int
    BY <1>1
  <2> HIDE DEF h, e
  <2>2. y = [g EXCEPT !.pending = IF g.pending > 0 THEN g.pending - 1 ELSE 0,
                      !.alarm = g.alarm \/ h.seq > g.expectRecv,
                      !.expectRecv = IF h.seq < g.expectRecv THEN g.expectRecv ELSE h.seq + 1]
    BY <1>3, <1>4 DEF CheckEcho, Client
  <2>3. (IF g.pending > 0 THEN g.pending - 1 ELSE 0) = p
    BY <1>3, <2>1
  <2>4. (g.alarm \/ h.seq > g.expectRecv) = FALSE
    BY <1>2, <1>3, <2>1
  <2>5. (IF h.seq < g.expectRecv THEN g.expectRecv ELSE h.seq + 1) = f
    BY <1>2, <1>3, <2>1
  <2> QED BY <2>2, <2>3, <2>4, <2>5
<1> HIDE DEF p, f, e
<1>7. /\ y \in Client /\ Same(g, y) /\ y.recv = g.recv /\ y.in = g.in
      /\ y.pending = p /\ y.expectRecv = f
  <2>1. g \in Client /\ g.alarm = FALSE
    BY <1>3
  <2>2. y \in Client
    BY ONLY <2>1, <1>5, <1>6, CountedType
  <2>3. /\ y.recv = g.recv /\ y.in = g.in /\ y.pending = p /\ y.expectRecv = f
    BY ONLY <2>1, <1>6 DEF Client
  <2>4. Same(g, y)
    BY ONLY <2>1, <1>6 DEF Client, Same
  <2> QED BY <2>2, <2>3, <2>4
<1> QED BY <1>5, <1>7 DEF Checked, Same

(* Whole messages and what is left.                                             *)
LEMMA Halved ==
    ASSUME NEW l \in Nat, NEW n, n = l \div 2
    PROVE  /\ n \in Nat /\ 2 * n \in 0 .. l /\ l - 2 * n <= 1
           /\ \A j \in 1 .. n : 2 * j - 1 \in 1 .. l /\ 2 * j \in 1 .. l
OBVIOUS

(* The client u that handled n messages as g keeps what is left, as y.          *)
Kept(u, n, g, y) == y = [g EXCEPT !.recv = SubSeq(u.recv, 2 * n + 1, Len(u.recv))]

(* What is then on its way.                                                     *)
Left(u, n, g, y) ==
    /\ y \in Client /\ Same(g, y) /\ y.in = g.in /\ Len(y.recv) <= 1
    /\ y.pending = g.pending /\ y.expectRecv = g.expectRecv
    /\ y.recv \o u.in = SubSeq(u.recv \o u.in, 2 * n + 1, Len(u.recv \o u.in))
    /\ ((y.recv \o u.in) \o u.out) \o u.pend = SubSeq(Pipe(u), 2 * n + 1, Len(Pipe(u)))

(* What is left when the whole messages that were received are gone.            *)
LEMMA Parsed ==
    ASSUME NEW u \in Client, NEW g \in Client, NEW n, n = Len(u.recv) \div 2,
           NEW y, Kept(u, n, g, y)
    PROVE  Left(u, n, g, y)
<1> DEFINE rest == SubSeq(u.recv, 2 * n + 1, Len(u.recv))
           q == u.recv \o u.in
           r == q \o u.out
<1>1. /\ u.recv \in Seq(Halves) /\ u.in \in Seq(Halves) /\ u.out \in Seq(Halves)
      /\ u.pend \in Seq(Halves) /\ Len(u.recv) \in Nat
      /\ q \in Seq(Halves) /\ r \in Seq(Halves)
  BY Buffers
<1>2. n \in Nat /\ 2 * n \in 0 .. Len(u.recv) /\ Len(u.recv) - 2 * n <= 1
  BY <1>1, Halved
<1> DEFINE m == 2 * n
<1>3. rest \in Seq(Halves) /\ Len(rest) = Len(u.recv) - m
  BY <1>1, <1>2, Rest
<1>4. /\ y \in Client /\ Same(g, y) /\ y.in = g.in /\ y.recv = rest
      /\ y.pending = g.pending /\ y.expectRecv = g.expectRecv
  <2>1. y = [g EXCEPT !.recv = rest]
    BY DEF Kept
  <2> HIDE DEF rest
  <2> QED BY ONLY <1>3, <2>1, g \in Client DEF Client, Same
<1>5. Len(q) = Len(u.recv) + Len(u.in) /\ Len(r) = Len(q) + Len(u.out)
  BY <1>1, Joined, Zenon
<1>6. m \in 0 .. Len(u.recv) /\ m \in 0 .. Len(q) /\ m \in 0 .. Len(r)
  <2> DEFINE a == Len(u.recv)
             b == Len(q)
             c == Len(r)
             d == Len(u.in)
             e == Len(u.out)
  <2> HIDE DEF q, r
  <2>1. a \in Nat /\ d \in Nat /\ e \in Nat
    BY <1>1
  <2>2. b = a + d /\ c = b + e /\ m \in 0 .. a
    BY <1>2, <1>5
  <2> HIDE DEF a, b, c, d, e, m
  <2>3. m \in 0 .. a /\ m \in 0 .. b /\ m \in 0 .. c
    BY ONLY <2>1, <2>2
  <2> QED BY <2>3 DEF a, b, c
<1> HIDE DEF m
<1>7. SubSeq(u.recv \o u.in, m + 1, Len(u.recv \o u.in)) = SubSeq(u.recv, m + 1, Len(u.recv)) \o u.in
  BY <1>1, <1>6, FrontGone, Zenon
<1>8. SubSeq(q \o u.out, m + 1, Len(q \o u.out)) = SubSeq(q, m + 1, Len(q)) \o u.out
  <2> HIDE DEF q
  <2> QED BY <1>1, <1>6, FrontGone, Zenon
<1>9. SubSeq(r \o u.pend, m + 1, Len(r \o u.pend)) = SubSeq(r, m + 1, Len(r)) \o u.pend
  <2> HIDE DEF r
  <2> QED BY <1>1, <1>6, FrontGone, Zenon
<1>10. Len(y.recv) <= 1
  BY <1>2, <1>3, <1>4 DEF m
<1>11. Pipe(u) = r \o u.pend
  BY DEF Pipe
<1>12. rest = SubSeq(u.recv, m + 1, Len(u.recv))
  BY DEF m
<1> HIDE DEF rest
<1>13. ((rest \o u.in) \o u.out) \o u.pend = SubSeq(Pipe(u), m + 1, Len(Pipe(u)))
  BY <1>7, <1>8, <1>9, <1>11, <1>12
<1> QED BY <1>4, <1>7, <1>10, <1>12, <1>13 DEF m, Left

(* An echo client that reads takes whole echoes off the front of its pipe, and  *)
(* nothing but its counters changes.                                            *)
LEMMA ReadEcho ==
    ASSUME NEW x, Sound(x), x.fd, x.state \notin {"Dead", "Connecting"},
           opt.mode = "echo", NEW u \in Client, Same(x, u),
           u.recv \o u.in = x.recv \o x.in, Len(u.in) <= Len(x.in),
           u.expectRecv = x.expectRecv, u.pending = x.pending, NEW y, y = ParseFrames(u)
    PROVE  Sound(y) /\ y.state # "Idle" /\ Same(x, y)
<1> DEFINE first == u.expectRecv
           last == u.echoSeq
<1>0. PICK n : n = Len(u.recv) \div 2
  OBVIOUS
<1>1. x \in Client /\ u.state = "Active" /\ u.alarm = FALSE /\ u.fd
  BY DEF Sound, Calm, Linked, Client, InEcho, Same
<1>2. Pipe(u) = Echoes(first, last) /\ u.pending = last + 1 - first
  <2>1. Pipe(u) = Pipe(x) /\ u.echoSeq = x.echoSeq
    BY DEF Pipe, Same
  <2> QED BY <2>1 DEF Sound, InEcho
<1>3. /\ first \in 1 .. MaxEcho + 1 /\ last \in 0 .. MaxEcho /\ first <= last + 1
      /\ u.pending \in Nat
  <2>1. first \in 1 .. MaxEcho + 1 /\ last \in 0 .. MaxEcho /\ u.pending \in 0 .. MaxEcho
    BY DEF Client
  <2> QED BY <1>2, <2>1, Sizes
<1>4. /\ n \in Nat /\ 2 * n <= Len(u.recv) /\ n \in 0 .. n
      /\ \A j \in 1 .. n : 2 * j - 1 \in 1 .. Len(u.recv) /\ 2 * j \in 1 .. Len(u.recv)
  <2> DEFINE l == Len(u.recv)
  <2>1. l \in Nat /\ n = l \div 2
    BY <1>0, Buffers
  <2> HIDE DEF l
  <2>2. /\ n \in Nat /\ 2 * n \in 0 .. l
        /\ \A j \in 1 .. n : 2 * j - 1 \in 1 .. l /\ 2 * j \in 1 .. l
    BY <2>1, Halved
  <2>3. 2 * n <= l /\ n \in 0 .. n
    BY <2>2
  <2> QED BY <2>2, <2>3 DEF l
<1>5. n \in 0 .. u.pending
  <2>1. Len(Pipe(u)) = 2 * u.pending
    BY <1>2, <1>3, EchoesType
  <2>2. Len(Pipe(u)) = Len(u.recv) + Len(u.in) + Len(u.out) + Len(u.pend)
        /\ Len(u.recv) \in Nat /\ Len(u.in) \in Nat /\ Len(u.out) \in Nat /\ Len(u.pend) \in Nat
    BY PipeParts, Buffers
  <2> DEFINE a == Len(u.recv)
             b == Len(u.in)
             d == Len(u.out)
             e == Len(u.pend)
             p == u.pending
  <2>3. /\ a \in Nat /\ b \in Nat /\ d \in Nat /\ e \in Nat /\ p \in Nat /\ n \in Nat
        /\ 2 * n <= a /\ 2 * p = a + b + d + e
    BY <1>3, <1>4, <2>1, <2>2
  <2> HIDE DEF a, b, d, e, p
  <2>4. n \in 0 .. p
    BY ONLY <2>3
  <2> QED BY <2>4 DEF p
<1>6. \A j \in 1 .. n : /\ u.recv[2 * j - 1] = Half("ECHO", first + (j - 1), 1)
                        /\ u.recv[2 * j] = Half("ECHO", first + (j - 1), 2)
  <2> SUFFICES ASSUME NEW j \in 1 .. n
               PROVE  /\ u.recv[2 * j - 1] = Half("ECHO", first + (j - 1), 1)
                      /\ u.recv[2 * j] = Half("ECHO", first + (j - 1), 2)
    OBVIOUS
  <2>1. u.recv[2 * j - 1] = Pipe(u)[2 * j - 1] /\ u.recv[2 * j] = Pipe(u)[2 * j]
    BY <1>4, PipeParts
  <2>2. j \in 1 .. u.pending
    BY <1>3, <1>5
  <2>3. /\ Echoes(first, last)[2 * j - 1] = Half("ECHO", first + j - 1, 1)
        /\ Echoes(first, last)[2 * j] = Half("ECHO", first + j - 1, 2)
    <3> DEFINE p == u.pending
    <3>1. p = last - first + 1 /\ j \in 1 .. p
      BY <1>2, <1>3, <2>2
    <3>2. first \in 1 .. MaxEcho + 1 /\ last \in 0 .. MaxEcho /\ first <= last + 1
      BY <1>3
    <3> HIDE DEF first, last, p
    <3>3. \A i \in 1 .. p :
             /\ Echoes(first, last)[2 * i - 1] = Half("ECHO", first + i - 1, 1)
             /\ Echoes(first, last)[2 * i] = Half("ECHO", first + i - 1, 2)
      BY ONLY <3>1, <3>2, EchoesType
    <3> QED BY <3>1, <3>3
  <2>4. first + j - 1 = first + (j - 1)
    BY <1>3
  <2> QED BY <1>2, <2>1, <2>3, <2>4
<1>7. PICK f : /\ y = [f[n] EXCEPT !.recv = SubSeq(u.recv, 2 * n + 1, Len(u.recv))]
               /\ f[0] = u
               /\ \A j \in 1 .. n : f[j] = Frame(f[j - 1], u.recv[2 * j - 1], u.recv[2 * j])
  <2>1. \E f : /\ ParseFrames(u) = [f[n] EXCEPT !.recv = SubSeq(u.recv, 2 * n + 1, Len(u.recv))]
               /\ f[0] = u
               /\ \A j \in 1 .. n : f[j] = Frame(f[j - 1], u.recv[2 * j - 1], u.recv[2 * j])
    <3>1. n \in Nat
      BY <1>4
    <3> QED BY ONLY <1>0, <3>1, ParsedSteps, Zenon
  <2> QED BY <2>1, Zenon
<1> DEFINE Good == {i \in 0 .. n : Checked(u, i, f[i])}
<1>8. 0 \in Good
  <2>1. Checked(u, 0, u)
    BY <1>3, Sizes DEF Checked, Same
  <2> QED BY <1>4, <1>7, <2>1
<1>9. ASSUME NEW j \in 1 .. n, j - 1 \in Good
      PROVE  j \in Good
  <2> DEFINE i == j - 1
  <2>1. i \in Nat /\ i < u.pending /\ i + 1 = j /\ first + i <= MaxEcho /\ j \in 0 .. n
    <3> DEFINE d == u.pending
    <3>1. /\ first \in Int /\ last \in Int /\ last <= MaxEcho /\ MaxEcho \in Nat
          /\ d \in Nat /\ d = last + 1 - first
      BY <1>2, <1>3, Sizes
    <3>2. n \in 0 .. d /\ j \in 1 .. n
      BY <1>5
    <3> HIDE DEF first, last, d
    <3>3. i \in Nat /\ i < d /\ i + 1 = j /\ first + i <= MaxEcho /\ j \in 0 .. n
      BY ONLY <3>1, <3>2
    <3> QED BY <3>3 DEF d
  <2>2. Checked(u, i, f[i])
    BY <1>9
  <2>3. f[j] = Frame(f[i], Half("ECHO", first + i, 1), Half("ECHO", first + i, 2))
    BY <1>6, <1>7
  <2> HIDE DEF i
  <2>4. Checked(u, i + 1, f[j])
    BY <1>1, <2>1, <2>2, <2>3, FrameEcho
  <2> QED BY <2>1, <2>4
<1>10. Checked(u, n, f[n])
  <2> HIDE DEF Good
  <2>1. \A j \in 1 .. n : j - 1 \in Good => j \in Good
    BY <1>9
  <2>2. n \in Good
    <3>1. \A j \in 0 .. n : j \in Good
      BY <1>4, <1>8, <2>1, UpTo
    <3> QED BY <1>4, <3>1
  <2> QED BY <2>2 DEF Good
<1> DEFINE g == f[n]
<1>11. g \in Client /\ y = [g EXCEPT !.recv = SubSeq(u.recv, 2 * n + 1, Len(u.recv))]
  BY <1>7, <1>10 DEF Checked
<1>12. /\ g.in = u.in /\ Same(u, g)
       /\ g.pending = u.pending - n /\ g.expectRecv = u.expectRecv + n
  BY <1>10 DEF Checked
<1> HIDE DEF g
<1>13. /\ y \in Client /\ Same(g, y) /\ y.in = g.in /\ Len(y.recv) <= 1
       /\ y.pending = g.pending /\ y.expectRecv = g.expectRecv
       /\ y.recv \o u.in = SubSeq(u.recv \o u.in, 2 * n + 1, Len(u.recv \o u.in))
       /\ ((y.recv \o u.in) \o u.out) \o u.pend = SubSeq(Pipe(u), 2 * n + 1, Len(Pipe(u)))
  <2>1. g \in Client /\ Kept(u, n, g, y)
    BY <1>11 DEF Kept
  <2>2. Left(u, n, g, y)
    BY <1>0, <2>1, Parsed
  <2> QED BY <2>2 DEF Left
<1>14. Same(x, y) /\ y.in = u.in /\ y.pending = u.pending - n /\ y.expectRecv = first + n
       /\ y.echoSeq = last
  BY <1>12, <1>13 DEF Same
<1>15. Fits(y)
  <2>1. Len(x.in) \in Nat /\ Len(u.in) \in Nat
    BY <1>1, Buffers
  <2> QED BY <1>13, <1>14, <2>1, Sizes DEF Sound, Calm, Fits, Same
<1>16. Counted(y)
  BY <1>1, <1>3, <1>4, <1>14, Sizes DEF Sound, Calm, Counted, Same
<1>17. Linked(y) /\ Registered(y) /\ ~y.alarm /\ Waiting(y)
  BY <1>1, <1>14 DEF Sound, Calm, Linked, Registered, Waiting, Same
<1>18. Pipe(y) = Echoes(first + n, last)
  <2>1. Pipe(y) = SubSeq(Pipe(u), 2 * n + 1, Len(Pipe(u)))
    <3>1. y.in = u.in /\ y.out = u.out /\ y.pend = u.pend
      BY <1>14 DEF Same
    <3>2. Pipe(y) = ((y.recv \o u.in) \o u.out) \o u.pend
      BY <3>1, Zenon DEF Pipe
    <3> QED BY <1>13, <3>2, Zenon
  <2>2. n \in 0 .. last - first + 1
    BY <1>2, <1>3, <1>5
  <2>3. SubSeq(Echoes(first, last), 2 * n + 1, Len(Echoes(first, last))) = Echoes(first + n, last)
    BY <1>3, <2>2, EchoesGone
  <2> QED BY <1>2, <2>1, <2>3
<1>19. y.pending = y.echoSeq + 1 - y.expectRecv
  BY <1>2, <1>3, <1>4, <1>14
<1> QED BY <1>1, <1>13, <1>14, <1>15, <1>16, <1>17, <1>18, <1>19
        DEF Sound, Calm, InEcho, InGame, Same

(* Replies without the first n.                                                 *)
LEMMA RepliesGone ==
    ASSUME NEW q \in Seq(Halves), Replies(q), NEW n \in Nat, 2 * n \in 0 .. Len(q)
    PROVE  Replies(SubSeq(q, 2 * n + 1, Len(q)))
<1> DEFINE s == SubSeq(q, 2 * n + 1, Len(q))
           l == Len(q)
           m == 2 * n
<1>1. m \in 0 .. l
  OBVIOUS
<1>2. Len(s) = l - m /\ \A k \in 1 .. l - m : s[k] = q[m + k]
  <2> HIDE DEF m
  <2>1. /\ Len(SubSeq(q, m + 1, Len(q))) = Len(q) - m
        /\ \A k \in 1 .. Len(q) - m : SubSeq(q, m + 1, Len(q))[k] = q[m + k]
    BY <1>1, Rest
  <2> QED BY <2>1 DEF m
<1>3. /\ l \in Nat /\ l % 2 = 0 /\ n \in Nat
      /\ \A k \in 1 .. l : q[k].kind \in {"JOIN_OK", "JOIN_FAIL"}
      /\ \A k \in 1 .. l \div 2 : q[2 * k] = [q[2 * k - 1] EXCEPT !.part = 2]
  BY DEF Replies
<1> HIDE DEF l, s
<1>4. Len(s) % 2 = 0
  BY <1>1, <1>2, <1>3
<1>5. ASSUME NEW k \in 1 .. Len(s)
      PROVE  s[k].kind \in {"JOIN_OK", "JOIN_FAIL"}
  <2>1. k \in 1 .. l - m /\ m + k \in 1 .. l
    BY <1>1, <1>2, <1>3
  <2> QED BY <1>2, <1>3, <2>1
<1>6. ASSUME NEW k \in 1 .. Len(s) \div 2
      PROVE  s[2 * k] = [s[2 * k - 1] EXCEPT !.part = 2]
  <2>1. 2 * k \in 1 .. l - m /\ 2 * k - 1 \in 1 .. l - m /\ n + k \in 1 .. l \div 2
    <3> DEFINE d == Len(s)
    <3>1. l \in Nat /\ n \in Nat /\ d = l - 2 * n /\ 2 * n <= l /\ k \in 1 .. d \div 2
      BY <1>1, <1>2, <1>3
    <3> HIDE DEF d
    <3>2. 2 * k \in 1 .. l - 2 * n /\ 2 * k - 1 \in 1 .. l - 2 * n /\ n + k \in 1 .. l \div 2
      BY ONLY <3>1
    <3> QED BY <3>2
  <2>2. m + 2 * k = 2 * (n + k) /\ m + (2 * k - 1) = 2 * (n + k) - 1
    BY <1>3
  <2>3. s[2 * k] = q[m + 2 * k] /\ s[2 * k - 1] = q[m + (2 * k - 1)]
    BY <1>2, <2>1
  <2>4. q[2 * (n + k)] = [q[2 * (n + k) - 1] EXCEPT !.part = 2]
    BY <1>3, <2>1
  <2> QED BY <2>2, <2>3, <2>4
<1> QED BY <1>4, <1>5, <1>6 DEF Replies, s, l

(* One more answer to a join.                                                   *)
LEMMA RepliesAdded ==
    ASSUME NEW q \in Seq(Halves), Replies(q), NEW kind \in {"JOIN_OK", "JOIN_FAIL"}
    PROVE  Replies(q \o Msg(kind, 0))
<1> DEFINE m == Msg(kind, 0)
           l == Len(q)
           s == q \o m
<1>1. m \in Seq(Halves) /\ Len(m) = 2 /\ m[1] = Half(kind, 0, 1) /\ m[2] = Half(kind, 0, 2)
  <2>1. 0 \in 0 .. MaxEcho
    BY Sizes
  <2> QED BY <2>1, MsgType
<1> HIDE DEF m
<1>2. /\ Len(s) = l + Len(m)
      /\ \A k \in 1 .. l + Len(m) : s[k] = IF k <= l THEN q[k] ELSE m[k - l]
  BY <1>1, Joined, Zenon
<1>3. /\ l \in Nat /\ l % 2 = 0
      /\ \A k \in 1 .. l : q[k].kind \in {"JOIN_OK", "JOIN_FAIL"}
      /\ \A k \in 1 .. l \div 2 : q[2 * k] = [q[2 * k - 1] EXCEPT !.part = 2]
  BY DEF Replies
<1> HIDE DEF s, l
<1>4. Len(s) = l + 2 /\ (l + 2) % 2 = 0
  BY <1>1, <1>2, <1>3
<1>5. (\A k \in 1 .. l : s[k] = q[k]) /\ s[l + 1] = m[1] /\ s[l + 2] = m[2]
  <2>1. \A k \in 1 .. l + 2 : s[k] = IF k <= l THEN q[k] ELSE m[k - l]
    BY <1>1, <1>2
  <2>2. (l + 1) - l = 1 /\ (l + 2) - l = 2 /\ ~(l + 1 <= l) /\ ~(l + 2 <= l)
        /\ l + 1 \in 1 .. l + 2 /\ l + 2 \in 1 .. l + 2
    BY <1>3
  <2>3. s[l + 1] = m[1] /\ s[l + 2] = m[2]
    BY <2>1, <2>2
  <2>4. \A k \in 1 .. l : s[k] = q[k]
    BY <1>3, <2>1
  <2> QED BY <2>3, <2>4
<1>6. m[1].kind = kind /\ m[2].kind = kind /\ m[2] = [m[1] EXCEPT !.part = 2]
  BY <1>1 DEF Half
<1>7. ASSUME NEW k \in 1 .. Len(s)
      PROVE  s[k].kind \in {"JOIN_OK", "JOIN_FAIL"}
  <2>1. k \in 1 .. l \/ k = l + 1 \/ k = l + 2
    BY <1>3, <1>4
  <2> QED BY <1>3, <1>5, <1>6, <2>1
<1>8. ASSUME NEW k \in 1 .. Len(s) \div 2
      PROVE  s[2 * k] = [s[2 * k - 1] EXCEPT !.part = 2]
  <2>1. \/ k \in 1 .. l \div 2 /\ 2 * k \in 1 .. l /\ 2 * k - 1 \in 1 .. l
        \/ 2 * k = l + 2 /\ 2 * k - 1 = l + 1
    BY <1>3, <1>4
  <2> QED BY <1>3, <1>5, <1>6, <2>1
<1>9. Replies(s)
  BY <1>4, <1>7, <1>8 DEF Replies
<1> QED BY <1>9 DEF s, m

(* Requests without the first n halves.                                         *)
LEMMA RequestsGone ==
    ASSUME NEW q \in Seq(Halves), Requests(q), NEW n \in 0 .. Len(q)
    PROVE  Requests(SubSeq(q, n + 1, Len(q)))
<1>1. /\ Len(SubSeq(q, n + 1, Len(q))) = Len(q) - n
      /\ \A k \in 1 .. Len(q) - n : SubSeq(q, n + 1, Len(q))[k] = q[n + k]
  BY Rest
<1>2. \A k \in 1 .. Len(q) - n : n + k \in 1 .. Len(q)
  OBVIOUS
<1> QED BY <1>1, <1>2 DEF Requests

(* A client of a game that reads takes whole answers off the front.             *)
LEMMA ReadGame ==
    ASSUME NEW x, Sound(x), x.fd, x.state \notin {"Dead", "Connecting"},
           opt.mode = "game", opt \in Options, NEW u \in Client, Same(x, u),
           u.recv \o u.in = x.recv \o x.in, Len(u.in) <= Len(x.in),
           u.pending = x.pending, NEW y, y = ParseFrames(u)
    PROVE  Sound(y) /\ y.state # "Idle"
<1> DEFINE q == u.recv \o u.in
<1>0. PICK n : n = Len(u.recv) \div 2
  OBVIOUS
<1>1. /\ u.recv \in Seq(Halves) /\ u.in \in Seq(Halves) /\ q \in Seq(Halves)
      /\ Len(u.recv) \in Nat /\ Len(u.in) \in Nat /\ Len(q) \in Nat
  <2>1. /\ u.recv \in Seq(Halves) /\ u.in \in Seq(Halves) /\ q \in Seq(Halves)
        /\ Len(u.recv) \in Nat /\ Len(u.in) \in Nat
    BY Buffers
  <2> HIDE DEF q
  <2> QED BY <2>1
<1>2. /\ Len(q) = Len(u.recv) + Len(u.in)
      /\ \A k \in 1 .. Len(u.recv) + Len(u.in) :
            q[k] = IF k <= Len(u.recv) THEN u.recv[k] ELSE u.in[k - Len(u.recv)]
  BY ONLY <1>1, Joined, Zenon
<1>3. Replies(q)
  BY DEF Sound, InGame
<1> HIDE DEF q
<1>4. /\ n \in Nat /\ 2 * n <= Len(u.recv) /\ n \in 0 .. n
      /\ \A j \in 1 .. n : 2 * j - 1 \in 1 .. Len(u.recv) /\ 2 * j \in 1 .. Len(u.recv)
  <2> DEFINE l == Len(u.recv)
  <2>1. l \in Nat /\ n = l \div 2
    BY <1>0, <1>1
  <2> HIDE DEF l
  <2>2. /\ n \in Nat /\ 2 * n \in 0 .. l
        /\ \A j \in 1 .. n : 2 * j - 1 \in 1 .. l /\ 2 * j \in 1 .. l
    BY <2>1, Halved
  <2>3. 2 * n <= l /\ n \in 0 .. n
    BY <2>2
  <2> QED BY <2>2, <2>3 DEF l
<1>5. \A k \in 1 .. Len(u.recv) : q[k] = u.recv[k]
  <2> SUFFICES ASSUME NEW k \in 1 .. Len(u.recv) PROVE q[k] = u.recv[k]
    OBVIOUS
  <2> DEFINE a == Len(u.recv)
             b == Len(u.in)
  <2>1. a \in Nat /\ b \in Nat /\ k \in 1 .. a
    BY <1>1
  <2> HIDE DEF a, b
  <2>2. k \in 1 .. a + b /\ k <= a
    BY ONLY <2>1
  <2>3. k \in 1 .. Len(u.recv) + Len(u.in) /\ k <= Len(u.recv)
    BY <2>2 DEF a, b
  <2> QED BY <1>2, <2>3, Zenon
<1>6. 2 * n \in 0 .. Len(q)
  <2> DEFINE a == Len(u.recv)
             b == Len(u.in)
             d == Len(q)
  <2>1. a \in Nat /\ b \in Nat /\ d = a + b /\ n \in Nat /\ 2 * n <= a
    BY <1>1, <1>2, <1>4
  <2> HIDE DEF a, b, d
  <2>2. 2 * n \in 0 .. d
    BY ONLY <2>1
  <2> QED BY <2>2 DEF d
<1>7. ASSUME NEW j \in 1 .. n
      PROVE  /\ u.recv[2 * j - 1] \in Halves
             /\ u.recv[2 * j - 1].kind \in {"JOIN_OK", "JOIN_FAIL"}
             /\ u.recv[2 * j] = [u.recv[2 * j - 1] EXCEPT !.part = 2]
  <2>1. 2 * j - 1 \in 1 .. Len(u.recv) /\ 2 * j \in 1 .. Len(u.recv)
    BY <1>4
  <2>2. 2 * j - 1 \in 1 .. Len(q) /\ j \in 1 .. Len(q) \div 2
    <3> DEFINE a == Len(u.recv)
               b == Len(u.in)
               d == Len(q)
    <3>1. a \in Nat /\ b \in Nat /\ d = a + b /\ 2 * j - 1 \in 1 .. a /\ 2 * j \in 1 .. a
          /\ j \in Int
      BY <1>1, <1>2, <2>1
    <3> HIDE DEF a, b, d
    <3>2. 2 * j - 1 \in 1 .. d /\ j \in 1 .. d \div 2
      BY ONLY <3>1
    <3> QED BY <3>2 DEF d
  <2>3. q[2 * j - 1].kind \in {"JOIN_OK", "JOIN_FAIL"}
        /\ q[2 * j] = [q[2 * j - 1] EXCEPT !.part = 2]
    BY <1>3, <2>2 DEF Replies
  <2>4. q[2 * j - 1] = u.recv[2 * j - 1] /\ q[2 * j] = u.recv[2 * j]
    BY <1>5, <2>1
  <2>5. u.recv[2 * j - 1] \in Halves
    BY <1>1, <2>1
  <2> QED BY <2>3, <2>4, <2>5
<1>8. PICK f : /\ y = [f[n] EXCEPT !.recv = SubSeq(u.recv, 2 * n + 1, Len(u.recv))]
               /\ f[0] = u
               /\ \A j \in 1 .. n : f[j] = Frame(f[j - 1], u.recv[2 * j - 1], u.recv[2 * j])
  <2>1. \E f : /\ ParseFrames(u) = [f[n] EXCEPT !.recv = SubSeq(u.recv, 2 * n + 1, Len(u.recv))]
               /\ f[0] = u
               /\ \A j \in 1 .. n : f[j] = Frame(f[j - 1], u.recv[2 * j - 1], u.recv[2 * j])
    <3>1. n \in Nat
      BY <1>4
    <3> QED BY ONLY <1>0, <3>1, ParsedSteps, Zenon
  <2> QED BY <2>1, Zenon
<1> DEFINE Good == {i \in 0 .. n : Handling(u, f[i])}
<1>9. 0 \in Good
  <2>1. Handling(u, u)
    BY DEF Handling, Sound, Calm, Counted, Linked, Registered, Same, Client
  <2> QED BY <1>4, <1>8, <2>1
<1>10. ASSUME NEW j \in 1 .. n, j - 1 \in Good
       PROVE  j \in Good
  <2>1. Handling(u, f[j - 1]) /\ j \in 0 .. n
    BY <1>10
  <2>2. f[j] = Frame(f[j - 1], u.recv[2 * j - 1], u.recv[2 * j])
    BY <1>8
  <2>3. Handling(u, f[j])
    <3> DEFINE h == u.recv[2 * j - 1]
               t == u.recv[2 * j]
               g == f[j - 1]
    <3>1. h \in Halves /\ h.kind \in {"JOIN_OK", "JOIN_FAIL"} /\ t = [h EXCEPT !.part = 2]
          /\ Handling(u, g) /\ f[j] = Frame(g, h, t)
      BY <1>7, <2>1, <2>2
    <3> HIDE DEF h, t, g
    <3> QED BY <3>1, FrameGame
  <2> QED BY <2>1, <2>3
<1>11. Handling(u, f[n])
  <2> HIDE DEF Good
  <2>1. \A j \in 1 .. n : j - 1 \in Good => j \in Good
    BY <1>10
  <2>2. n \in Good
    <3>1. \A j \in 0 .. n : j \in Good
      BY <1>4, <1>9, <2>1, UpTo
    <3> QED BY <1>4, <3>1
  <2> QED BY <2>2 DEF Good
<1> DEFINE g == f[n]
<1>12. Handling(u, g) /\ Kept(u, n, g, y)
  BY <1>8, <1>11 DEF Kept
<1> HIDE DEF g
<1>13. Left(u, n, g, y)
  <2>1. g \in Client
    BY <1>12 DEF Handling
  <2> QED BY <1>0, <1>12, <2>1, Parsed
<1>14. /\ y \in Client /\ Same(g, y) /\ y.in = g.in /\ Len(y.recv) <= 1 /\ y.pending = g.pending
       /\ y.recv \o u.in = SubSeq(q, 2 * n + 1, Len(q))
  BY <1>13 DEF Left, q
<1>15. /\ Counted(y) /\ Linked(y) /\ Registered(y) /\ ~y.alarm /\ ~y.attacker
       /\ y.state \notin {"Idle", "Connecting"} /\ y.pend = x.pend /\ y.want = x.want
       /\ y.fd => y.in = u.in /\ y.out = x.out /\ x.fd
  BY <1>12, <1>14 DEF Handling, Counted, Linked, Registered, Same, Sound, Calm
<1>16. Fits(y)
  <2>1. Len(x.pend) <= kPendMax /\ Len(x.out) <= SndCap /\ Len(x.in) <= RingCap
        /\ Len(x.in) \in Nat /\ Len(u.in) \in Nat
    <3>1. x \in Client
      BY DEF Sound, Calm
    <3> QED BY <1>1, <3>1, Buffers DEF Sound, Calm, Fits
  <2>2. Len(u.in) <= RingCap
    BY <2>1, Sizes
  <2>3. CASE y.fd
    BY <1>14, <1>15, <2>1, <2>2, <2>3 DEF Fits
  <2>4. CASE ~y.fd
    <3>1. y.out = <<>> /\ y.in = <<>>
      BY <1>15, <2>4 DEF Linked
    <3> QED BY <1>14, <1>15, <2>1, <3>1, Sizes DEF Fits
  <2> QED BY <2>3, <2>4
<1>17. Calm(y)
  BY <1>14, <1>15, <1>16 DEF Calm
<1>18. InGame(y)
  <2>1. Replies(SubSeq(q, 2 * n + 1, Len(q)))
    BY <1>1, <1>3, <1>4, <1>6, RepliesGone
  <2>2. y.fd => Replies(y.recv \o y.in)
    BY <1>14, <1>15, <2>1
  <2>3. y.fd => Requests(y.out \o y.pend)
    BY <1>15 DEF Sound, InGame
  <2> QED BY <2>2, <2>3 DEF InGame
<1>19. Waiting(y)
  BY <1>15 DEF Sound, Waiting
<1> QED BY <1>15, <1>17, <1>18, <1>19 DEF Sound, InEcho

(* Whatever is read, the client stays sound.                                    *)
LEMMA OnReadableSound ==
    ASSUME NEW x, Sound(x), x.state \notin {"Idle", "Connecting"}, opt \in Options,
           NEW y \in OnReadable(x)
    PROVE  Sound(y) /\ y.state # "Idle"
<1> DEFINE Taking(k) == [x EXCEPT !.recv = @ \o SubSeq(x.in, 1, k), !.in = SubSeq(@, k + 1, Len(@))]
<1>1. CASE ~x.fd
  BY <1>1 DEF OnReadable
<1>2. CASE x.fd
  <2>1. x \in Client /\ Len(x.in) \in Nat /\ x.state # "Dead"
    BY <1>2, Buffers DEF Sound, Calm, Linked
  <2>2. ASSUME NEW k \in 0 .. Len(x.in)
        PROVE  Sound(ParseFrames(Taking(k))) /\ ParseFrames(Taking(k)).state # "Idle"
    <3> DEFINE u == Taking(k)
    <3>1. /\ u \in Client /\ Same(x, u) /\ u.recv \o u.in = x.recv \o x.in
          /\ Len(u.in) <= Len(x.in) /\ u.expectRecv = x.expectRecv /\ u.pending = x.pending
      BY <2>1, ReadEffect
    <3> HIDE DEF u
    <3>2. CASE opt.mode = "echo"
      <4>1. Sound(ParseFrames(u)) /\ ParseFrames(u).state # "Idle"
        BY <1>2, <2>1, <3>1, <3>2, ReadEcho
      <4> QED BY <4>1 DEF u
    <3>3. CASE opt.mode = "game"
      <4>1. Sound(ParseFrames(u)) /\ ParseFrames(u).state # "Idle"
        BY <1>2, <2>1, <3>1, <3>3, ReadGame
      <4> QED BY <4>1 DEF u
    <3> QED BY <3>2, <3>3, OptionAssumption
  <2> DEFINE Read(k) == ParseFrames(Taking(k))
             arrived == IF x.in = <<>> THEN {0} ELSE 1 .. Len(x.in)
             got     == {Read(k) : k \in arrived}
             ended   == {Kill(z) : z \in {v \in got : x.link = "down" /\ (Slow(x) => x.in = <<>>)}}
  <2>3. y \in got \cup ended
    <3>1. OnReadable(x) = got \cup ended
      BY <1>2 DEF OnReadable
    <3> QED BY <3>1
  <2>4. arrived \subseteq 0 .. Len(x.in)
    BY <2>1
  <2>5. \A z \in got : Sound(z) /\ z.state # "Idle"
    <3> HIDE DEF Taking, arrived
    <3> QED BY <2>2, <2>4
  <2>6. \A z \in ended : Sound(z) /\ z.state # "Idle"
    <3> HIDE DEF got
    <3> QED BY <2>5, KillSound DEF Sound
  <2> QED BY <2>3, <2>5, <2>6
<1> QED BY <1>1, <1>2

(* A slow reader keeps EPOLLOUT when it turns deaf or listens again.            *)
LEMMA DeafSound ==
    ASSUME NEW x, Sound(x), NEW w \in BOOLEAN, NEW b \in BOOLEAN,
           NEW y, y = [x EXCEPT !.reg = Interest(w, x.want), !.nextRecv = b]
    PROVE  Sound(y) /\ y.state = x.state /\ y.echoSeq = x.echoSeq
<1>1. x \in Client
  BY DEF Sound, Calm
<1>2. Interest(w, x.want) \in SUBSET {"IN", "OUT"}
      /\ (x.want => "OUT" \in Interest(w, x.want))
  BY DEF Interest
<1>3. /\ y \in Client /\ Alike(x, y) /\ y.out = x.out /\ y.pend = x.pend
      /\ y.want = x.want /\ y.reg = Interest(w, x.want)
  BY <1>1, <1>2 DEF Client, Alike
<1>4. Steady(y)
  <2>1. Registered(y)
    BY <1>2, <1>3 DEF Registered
  <2>2. Steady(x)
    BY DEF Sound, Steady
  <2> QED BY <1>3, <2>1, <2>2, AlikeSteady
<1>5. Waiting(y)
  BY <1>3 DEF Sound, Waiting, Alike
<1> QED BY <1>3, <1>4, <1>5 DEF Sound, Steady, Alike

--------------------------------------------------------------------------------
(* The network and the server.                                                  *)

(* Of a socket only the state of the connection has changed.                    *)
LEMMA LinkSound ==
    ASSUME NEW x, Sound(x), x.link # "none", NEW l \in {"up", "down"},
           NEW y, y = [x EXCEPT !.link = l]
    PROVE  Sound(y)
<1>1. x \in Client /\ x.fd
  BY DEF Sound, Calm, Linked
<1>2. /\ y \in Client /\ y.state = x.state /\ y.fd = x.fd /\ y.attacker = x.attacker
      /\ y.want = x.want /\ y.reg = x.reg /\ y.recv = x.recv /\ y.in = x.in /\ y.out = x.out
      /\ y.pend = x.pend /\ y.echoSeq = x.echoSeq /\ y.expectRecv = x.expectRecv
      /\ y.pending = x.pending /\ y.act = x.act /\ y.alarm = x.alarm
  BY <1>1 DEF Client
<1>3. Calm(y)
  BY <1>1, <1>2 DEF Sound, Calm, Fits, Counted, Linked, Registered
<1> QED BY <1>2, <1>3 DEF Sound, InEcho, InGame, Waiting, Pipe

(* The server has left o of what was sent and put i on the way back.            *)
Served(x, o, i, y) ==
    /\ Calm(y) /\ Waiting(y) /\ y.state = x.state /\ y.fd = x.fd
    /\ y.recv = x.recv /\ y.in = i /\ y.out = o /\ y.pend = x.pend
    /\ y.echoSeq = x.echoSeq /\ y.expectRecv = x.expectRecv /\ y.pending = x.pending

(* That disturbs nothing of the client.                                         *)
LEMMA ServedCalm ==
    ASSUME NEW x, Sound(x), x.fd, NEW o \in Seq(Halves), NEW i \in Seq(Halves),
           Len(o) <= SndCap, Len(i) <= RingCap, NEW y, y = [x EXCEPT !.out = o, !.in = i]
    PROVE  Served(x, o, i, y)
<1>1. x \in Client
  BY DEF Sound, Calm
<1>2. /\ y \in Client /\ y.state = x.state /\ y.fd = x.fd /\ y.attacker = x.attacker
      /\ y.want = x.want /\ y.reg = x.reg /\ y.recv = x.recv /\ y.in = i /\ y.out = o
      /\ y.pend = x.pend /\ y.echoSeq = x.echoSeq /\ y.expectRecv = x.expectRecv
      /\ y.pending = x.pending /\ y.act = x.act /\ y.alarm = x.alarm /\ y.link = x.link
  BY <1>1 DEF Client
<1>3. Fits(y)
  BY <1>2 DEF Sound, Calm, Fits
<1>4. Calm(y)
  BY <1>2, <1>3 DEF Sound, Calm, Counted, Linked, Registered
<1> QED BY <1>2, <1>4 DEF Sound, Waiting, Served

(* A whole message at the head of what was sent.                                *)
LEMMA HeadTaken ==
    ASSUME NEW x \in Client, Fits(x), Len(x.out) >= 2
    PROVE  /\ SubSeq(x.out, 3, Len(x.out)) \in Seq(Halves)
           /\ Len(SubSeq(x.out, 3, Len(x.out))) <= SndCap
           /\ SubSeq(x.out, 1, 2) \in Seq(Halves) /\ Len(SubSeq(x.out, 1, 2)) = 2
           /\ SubSeq(x.out, 1, 2) \o SubSeq(x.out, 3, Len(x.out)) = x.out
           /\ SubSeq(x.out, 3, Len(x.out)) \o x.pend
                = SubSeq(x.out \o x.pend, 3, Len(x.out \o x.pend))
           /\ 2 \in 0 .. Len(x.out \o x.pend)
<1>1. x.out \in Seq(Halves) /\ x.pend \in Seq(Halves) /\ Len(x.out) \in Nat /\ Len(x.pend) \in Nat
  BY Buffers
<1> DEFINE k == 2
<1>2. k \in 0 .. Len(x.out) /\ k + 1 = 3
  BY <1>1
<1> HIDE DEF k
<1>3. /\ SubSeq(x.out, 1, k) \in Seq(Halves) /\ SubSeq(x.out, k + 1, Len(x.out)) \in Seq(Halves)
      /\ Len(SubSeq(x.out, 1, k)) = k /\ Len(SubSeq(x.out, k + 1, Len(x.out))) = Len(x.out) - k
      /\ SubSeq(x.out, 1, k) \o SubSeq(x.out, k + 1, Len(x.out)) = x.out
  BY <1>1, <1>2, Split, Zenon
<1>4. SubSeq(x.out \o x.pend, k + 1, Len(x.out \o x.pend)) = SubSeq(x.out, k + 1, Len(x.out)) \o x.pend
  BY <1>1, <1>2, FrontGone, Zenon
<1>5. Len(x.out \o x.pend) = Len(x.out) + Len(x.pend)
  BY <1>1, Joined, Zenon
<1>6. Len(x.out) - k <= SndCap
  BY <1>1, <1>2, Sizes DEF Fits, k
<1>7. k \in 0 .. Len(x.out \o x.pend)
  <2> DEFINE a == Len(x.out)
             b == Len(x.pend)
             d == Len(x.out \o x.pend)
  <2>1. a \in Nat /\ b \in Nat /\ d = a + b /\ k \in 0 .. a
    BY <1>1, <1>2, <1>5
  <2> HIDE DEF a, b, d
  <2>2. k \in 0 .. d
    BY ONLY <2>1
  <2> QED BY <2>2 DEF d
<1>8. k = 2
  BY DEF k
<1> QED BY <1>2, <1>3, <1>4, <1>6, <1>7, <1>8

(* What the server makes of a message it answers.                               *)
Answered(x, msg) == [x EXCEPT !.out = SubSeq(@, 3, Len(@)), !.in = @ \o msg]

(* An echo has gone to the way back, the pipe is the same.                      *)
LEMMA EchoAnswered ==
    ASSUME NEW x, Sound(x), x.fd, opt.mode = "echo", Len(x.out) >= 2, Len(x.in) + 2 <= RingCap
    PROVE  Sound(Answered(x, SubSeq(x.out, 1, 2)))
<1> DEFINE o == SubSeq(x.out, 3, Len(x.out))
           m == SubSeq(x.out, 1, 2)
           i == x.in \o m
           y == Answered(x, m)
<1>1. x \in Client /\ Fits(x)
  BY DEF Sound, Calm
<1>2. o \in Seq(Halves) /\ Len(o) <= SndCap /\ m \in Seq(Halves) /\ Len(m) = 2 /\ m \o o = x.out
  BY <1>1, HeadTaken
<1>3. x.in \in Seq(Halves) /\ x.recv \in Seq(Halves)
  BY <1>1, Buffers
<1>4. y = [x EXCEPT !.out = o, !.in = i]
  BY <1>1 DEF Answered, Client
<1> HIDE DEF o, m, y
<1>5. i \in Seq(Halves) /\ Len(i) = Len(x.in) + Len(m)
  BY <1>2, <1>3, Joined, Zenon
<1>6. Len(i) <= RingCap
  <2> HIDE DEF i
  <2>1. Len(i) = Len(x.in) + 2
    BY <1>2, <1>5
  <2> QED BY <2>1
<1>7. /\ Calm(y) /\ Waiting(y) /\ y.state = x.state /\ y.fd = x.fd
      /\ y.recv = x.recv /\ y.in = i /\ y.out = o /\ y.pend = x.pend
      /\ y.echoSeq = x.echoSeq /\ y.expectRecv = x.expectRecv /\ y.pending = x.pending
  <2> HIDE DEF i
  <2>1. Served(x, o, i, y)
    BY <1>2, <1>4, <1>5, <1>6, ServedCalm
  <2> QED BY <2>1 DEF Served
<1>8. (x.recv \o (x.in \o m)) \o o = (x.recv \o x.in) \o (m \o o)
  <2> DEFINE a == x.recv
             b == x.in
  <2>1. a \in Seq(Halves) /\ b \in Seq(Halves) /\ m \in Seq(Halves) /\ o \in Seq(Halves)
    BY <1>2, <1>3
  <2> HIDE DEF a, b
  <2>2. Regroups(a, b, m, o)
    BY ONLY <2>1, Regroup, Zenon
  <2>3. (a \o (b \o m)) \o o = (a \o b) \o (m \o o)
    BY ONLY <2>2, Zenon DEF Regroups
  <2> QED BY <2>3 DEF a, b
<1>9. Pipe(y) = Pipe(x)
  BY <1>2, <1>7, <1>8 DEF Pipe
<1>10. InEcho(y)
  BY <1>7, <1>9 DEF Sound, InEcho
<1>11. Sound(y)
  BY <1>7, <1>10 DEF Sound, InGame
<1> QED BY <1>11 DEF y, m

(* A join is answered: one reply more.                                          *)
LEMMA JoinAnswered ==
    ASSUME NEW x, Sound(x), x.fd, opt.mode = "game", Len(x.out) >= 2, Len(x.in) + 2 <= RingCap,
           NEW kind \in {"JOIN_OK", "JOIN_FAIL"}
    PROVE  Sound(Answered(x, Msg(kind, 0)))
<1> DEFINE o == SubSeq(x.out, 3, Len(x.out))
           m == Msg(kind, 0)
           i == x.in \o m
           y == Answered(x, m)
<1>1. x \in Client /\ Fits(x)
  BY DEF Sound, Calm
<1>2. /\ o \in Seq(Halves) /\ Len(o) <= SndCap
      /\ o \o x.pend = SubSeq(x.out \o x.pend, 3, Len(x.out \o x.pend))
      /\ 2 \in 0 .. Len(x.out \o x.pend)
  BY <1>1, HeadTaken
<1>3. /\ x.in \in Seq(Halves) /\ x.recv \in Seq(Halves) /\ x.recv \o x.in \in Seq(Halves)
      /\ x.out \o x.pend \in Seq(Halves)
  BY <1>1, Buffers
<1>4. m \in Seq(Halves) /\ Len(m) = 2
  <2>1. 0 \in 0 .. MaxEcho
    BY Sizes
  <2> QED BY <2>1, MsgType
<1>5. y = [x EXCEPT !.out = o, !.in = i]
  BY <1>1 DEF Answered, Client
<1> HIDE DEF o, m, y
<1>6. i \in Seq(Halves) /\ Len(i) = Len(x.in) + Len(m)
  BY ONLY <1>3, <1>4, Joined, Zenon
<1>7. Len(i) <= RingCap
  <2> HIDE DEF i
  <2>1. Len(i) = Len(x.in) + 2
    BY <1>4, <1>6
  <2> QED BY <2>1
<1>8. /\ Calm(y) /\ Waiting(y) /\ y.state = x.state /\ y.fd = x.fd
      /\ y.recv = x.recv /\ y.in = i /\ y.out = o /\ y.pend = x.pend
  <2> HIDE DEF i
  <2>1. Served(x, o, i, y)
    BY <1>2, <1>5, <1>6, <1>7, ServedCalm
  <2> QED BY <2>1 DEF Served
<1>9. Replies(x.recv \o x.in) /\ Requests(x.out \o x.pend)
  BY DEF Sound, InGame
<1>10. Replies(x.recv \o (x.in \o m))
  <2>1. Replies((x.recv \o x.in) \o m)
    BY <1>3, <1>9, RepliesAdded DEF m
  <2>2. x.recv \o (x.in \o m) = (x.recv \o x.in) \o m
    <3>1. x.recv \in Seq(Halves) /\ x.in \in Seq(Halves) /\ m \in Seq(Halves)
      BY <1>3, <1>4
    <3> QED BY ONLY <3>1, Follow, Zenon
  <2> QED BY <2>1, <2>2
<1>11. Requests(SubSeq(x.out \o x.pend, 2 + 1, Len(x.out \o x.pend)))
  BY <1>2, <1>3, <1>9, RequestsGone
<1>12. InGame(y)
  <2>1. 2 + 1 = 3
    OBVIOUS
  <2>2. Requests(o \o x.pend)
    BY <1>2, <1>11, <2>1
  <2> QED BY <1>8, <1>10, <2>2 DEF InGame
<1>13. Sound(y)
  BY <1>8, <1>12 DEF Sound, InEcho
<1> QED BY <1>13 DEF y, m

(* An input is taken: one request less.                                         *)
LEMMA InputTaken ==
    ASSUME NEW x, Sound(x), x.fd, opt.mode = "game", Len(x.out) >= 2
    PROVE  Sound([x EXCEPT !.out = SubSeq(@, 3, Len(@))])
<1> DEFINE o == SubSeq(x.out, 3, Len(x.out))
           i == x.in
           y == [x EXCEPT !.out = SubSeq(@, 3, Len(@))]
<1>1. x \in Client /\ Fits(x)
  BY DEF Sound, Calm
<1>2. /\ o \in Seq(Halves) /\ Len(o) <= SndCap
      /\ o \o x.pend = SubSeq(x.out \o x.pend, 3, Len(x.out \o x.pend))
      /\ 2 \in 0 .. Len(x.out \o x.pend)
  BY <1>1, HeadTaken
<1>3. x.in \in Seq(Halves) /\ x.out \o x.pend \in Seq(Halves) /\ Len(x.in) <= RingCap
  BY <1>1, Buffers DEF Fits
<1>4. y = [x EXCEPT !.out = o, !.in = i]
  BY <1>1 DEF Client
<1> HIDE DEF o, y
<1>5. /\ Calm(y) /\ Waiting(y) /\ y.state = x.state /\ y.fd = x.fd
      /\ y.recv = x.recv /\ y.in = i /\ y.out = o /\ y.pend = x.pend
  <2> HIDE DEF i
  <2>1. i \in Seq(Halves) /\ Len(i) <= RingCap
    BY <1>3 DEF i
  <2>2. Served(x, o, i, y)
    BY <1>2, <1>4, <2>1, ServedCalm
  <2> QED BY <2>2 DEF Served, i
<1>6. Replies(x.recv \o x.in) /\ Requests(x.out \o x.pend)
  BY DEF Sound, InGame
<1>7. Requests(SubSeq(x.out \o x.pend, 2 + 1, Len(x.out \o x.pend)))
  BY <1>2, <1>3, <1>6, RequestsGone
<1>8. InGame(y)
  <2>1. 2 + 1 = 3
    OBVIOUS
  <2>2. Requests(o \o x.pend)
    BY <1>2, <1>7, <2>1
  <2> QED BY <1>5, <1>6, <2>2 DEF InGame
<1>9. Sound(y)
  BY <1>5, <1>8 DEF Sound, InEcho
<1> QED BY <1>9 DEF y

(* The server meets echoes in echo mode and requests in a game.                 *)
LEMMA HeadKind ==
    ASSUME NEW x, Sound(x), x.fd, Len(x.out) >= 2
    PROVE  /\ opt.mode = "echo" => x.out[1].kind = "ECHO"
           /\ opt.mode = "game" => x.out[1].kind \in {"JOIN", "INPUT"}
<1>1. x \in Client
  BY DEF Sound, Calm
<1>2. x.out \in Seq(Halves) /\ x.pend \in Seq(Halves) /\ Len(x.out) \in Nat /\ Len(x.pend) \in Nat
      /\ Len(x.recv) \in Nat /\ Len(x.in) \in Nat
  BY <1>1, Buffers
<1>3. ASSUME opt.mode = "echo" PROVE x.out[1].kind = "ECHO"
  <2> DEFINE j == Len(x.recv) + Len(x.in) + 1
             p == x.pending
             first == x.expectRecv
             last == x.echoSeq
  <2>1. Pipe(x) = Echoes(first, last) /\ p = last + 1 - first
    BY <1>3 DEF Sound, InEcho
  <2>2. /\ first \in 1 .. MaxEcho + 1 /\ last \in 0 .. MaxEcho /\ p \in Nat
        /\ first <= last + 1 /\ p = last - first + 1
    <3>1. first \in 1 .. MaxEcho + 1 /\ last \in 0 .. MaxEcho /\ p \in 0 .. MaxEcho
      BY <1>1 DEF Client
    <3> QED BY <2>1, <3>1, Sizes
  <2>3. Pipe(x)[j] = x.out[1] /\ j \in 1 .. Len(Pipe(x))
    <3> DEFINE a == Len(x.recv)
               b == Len(x.in)
               d == Len(x.out)
               e == Len(x.pend)
               l == Len(Pipe(x))
    <3>0. 1 \in 1 .. Len(x.out)
      BY <1>2
    <3>1. l = a + b + d + e
      BY <1>1, PipeParts
    <3>2. a \in Nat /\ b \in Nat /\ d \in Nat /\ e \in Nat /\ d >= 2
      BY <1>2
    <3>3. Pipe(x)[j] = x.out[1]
      BY <1>1, <3>0, PipeParts
    <3> HIDE DEF a, b, d, e, l
    <3>4. a + b + 1 \in 1 .. l
      BY ONLY <3>1, <3>2
    <3> QED BY <3>3, <3>4 DEF a, b, l
  <2> HIDE DEF first, last, p, j
  <2>4. /\ Len(Echoes(first, last)) = 2 * p
        /\ \A k \in 1 .. 2 * p :
              Echoes(first, last)[k] = Half("ECHO", first + (k - 1) \div 2, 1 + ((k - 1) % 2))
    BY ONLY <2>2, EchoesType
  <2> QED BY <2>1, <2>3, <2>4 DEF Half
<1>4. ASSUME opt.mode = "game" PROVE x.out[1].kind \in {"JOIN", "INPUT"}
  <2> DEFINE q == x.out \o x.pend
  <2>1. Requests(q)
    BY <1>4 DEF Sound, InGame
  <2>2. /\ Len(q) = Len(x.out) + Len(x.pend)
        /\ \A k \in 1 .. Len(x.out) + Len(x.pend) :
              q[k] = IF k <= Len(x.out) THEN x.out[k] ELSE x.pend[k - Len(x.out)]
    BY <1>2, Joined
  <2> HIDE DEF q
  <2>3. 1 \in 1 .. Len(x.out) + Len(x.pend) /\ 1 <= Len(x.out)
    <3> DEFINE a == Len(x.out)
               b == Len(x.pend)
    <3>1. a \in Nat /\ b \in Nat /\ a >= 2
      BY <1>2
    <3> HIDE DEF a, b
    <3>2. 1 \in 1 .. a + b /\ 1 <= a
      BY ONLY <3>1
    <3> QED BY <3>2 DEF a, b
  <2>4. 1 \in 1 .. Len(q) /\ q[1] = x.out[1]
    BY <2>2, <2>3, Zenon
  <2> QED BY <2>1, <2>4 DEF Requests
<1> QED BY <1>3, <1>4

--------------------------------------------------------------------------------
(* The inductive invariant.                                                     *)

(* Every client is sound, and one that was never connected is Idle.             *)
IInv ==
    /\ opt \in Options
    /\ cl \in [Clients -> Client] /\ \A c \in Clients : Sound(cl[c])
    /\ pc \in {"top", "wait", "events", "scan", "done"} /\ todo \subseteq Clients
    /\ batch \in [Clients -> SUBSET {"IN", "OUT", "HUP"}]
    /\ conns \in [Clients -> 0 .. MaxConns]
    /\ \A c \in Clients : cl[c].state = "Idle" => conns[c] = 0

(* The command line does not change, so a client stays as sound as it is.       *)
LEMMA StaysSound ==
    ASSUME opt' = opt, NEW c, NEW x, Sound(x), cl'[c] = x
    PROVE  Sound(cl[c])'
<1>1. Calm(cl[c])'
  BY DEF Sound, Calm
<1>2. InEcho(cl[c])'
  BY DEF Sound, InEcho
<1>3. InGame(cl[c])'
  BY DEF Sound, InGame
<1> QED BY <1>1, <1>2, <1>3 DEF Sound

(* A step that makes the client c into x, and may count a connection of it.     *)
LEMMA OneClient ==
    ASSUME IInv, opt' = opt, NEW c \in Clients, NEW x, Sound(x), cl' = [cl EXCEPT ![c] = x],
           conns' \in [Clients -> 0 .. MaxConns], \A d \in Clients : d # c => conns'[d] = conns[d],
           x.state = "Idle" => conns'[c] = 0,
           pc' \in {"top", "wait", "events", "scan", "done"}, todo' \subseteq Clients,
           batch' = batch
    PROVE  IInv'
<1>1. x \in Client
  BY DEF Sound, Calm
<1>2. cl' \in [Clients -> Client]
  BY <1>1 DEF IInv
<1>3. ASSUME NEW d \in Clients
      PROVE  Sound(cl[d])' /\ (cl'[d].state = "Idle" => conns'[d] = 0)
  <2>1. CASE d = c
    <3>1. cl'[d] = x
      BY <2>1 DEF IInv
    <3> QED BY <2>1, <3>1, StaysSound
  <2>2. CASE d # c
    <3>1. cl'[d] = cl[d] /\ Sound(cl[d])
      BY <2>2 DEF IInv
    <3>2. Sound(cl[d])'
      BY <3>1, StaysSound
    <3> QED BY <2>2, <3>1, <3>2 DEF IInv
  <2> QED BY <2>1, <2>2
<1> QED BY <1>2, <1>3 DEF IInv

(* The same, in a pass over all clients.                                        *)
LEMMA OneDone ==
    ASSUME IInv, opt' = opt, NEW c \in Clients, NEW x, Sound(x), x.state # "Idle" \/ x = cl[c],
           NEW next \in {"top", "scan"}, Done(c, x, next), batch' = batch, conns' = conns
    PROVE  IInv'
<1>1. cl' = [cl EXCEPT ![c] = x] /\ todo' \subseteq Clients
      /\ pc' \in {"top", "wait", "events", "scan", "done"}
  BY DEF Done, IInv
<1>2. x.state = "Idle" => conns'[c] = 0
  BY DEF IInv
<1>3. conns' \in [Clients -> 0 .. MaxConns]
  BY DEF IInv
<1> QED BY <1>1, <1>2, <1>3, OneClient

(* A client is connected.                                                       *)
LEMMA Connects ==
    ASSUME IInv, NEW c \in Clients, cl[c].state \in {"Idle", "Dead"}, conns[c] < MaxConns,
           NEW x \in {Connecting(c, cl[c]), NotConnecting(cl[c])},
           conns' = [conns EXCEPT ![c] = IF x.fd THEN @ + 1 ELSE @]
    PROVE  /\ Sound(x) /\ x.state # "Idle" /\ conns' \in [Clients -> 0 .. MaxConns]
           /\ \A d \in Clients : d # c => conns'[d] = conns[d]
<1>1. Calm(cl[c]) /\ ~cl[c].fd /\ opt \in Options
  BY DEF IInv, Sound, Calm, Linked
<1>2. Sound(x) /\ x.state # "Idle"
  BY <1>1, ConnectingSound, NotConnectingSound
<1>3. conns[c] \in Nat /\ MaxConns \in Nat /\ conns \in [Clients -> 0 .. MaxConns]
  BY Sizes DEF IInv
<1>4. (IF x.fd THEN conns[c] + 1 ELSE conns[c]) \in 0 .. MaxConns
  BY <1>3
<1> QED BY <1>2, <1>3, <1>4

(* The loop of the worker keeps the invariant.                                  *)
LEMMA LoopKeeps == IInv /\ LoopStep => IInv'
<1> SUFFICES ASSUME IInv, LoopStep PROVE IInv'
  OBVIOUS
<1>0. opt \in Options /\ \A c \in Clients : Sound(cl[c]) /\ Calm(cl[c])
  BY DEF IInv, Sound
<1>1. CASE RampDone \/ EpollWait
  <2>1. opt' = opt /\ cl' = cl /\ conns' = conns
    BY <1>1 DEF RampDone, EpollWait
  <2>2. \A c \in Clients : Sound(cl[c])'
    BY <1>0, <2>1, StaysSound
  <2>3. \A c \in Clients : Ready(cl[c]) \in SUBSET {"IN", "OUT", "HUP"}
    BY DEF IInv, Ready, Client
  <2>4. batch' \in [Clients -> SUBSET {"IN", "OUT", "HUP"}] /\ todo' \subseteq Clients
        /\ pc' \in {"top", "wait", "events", "scan", "done"}
    BY <1>1, <2>3 DEF RampDone, EpollWait, IInv
  <2> QED BY <2>1, <2>2, <2>4 DEF IInv
<1>2. ASSUME NEW c \in Clients, NEW x \in {Connecting(c, cl[c]), NotConnecting(cl[c])}, Ramp(c, x)
      PROVE  IInv'
  <2>1. cl[c].state = "Idle" /\ conns[c] = 0 /\ conns[c] < MaxConns
    BY <1>2, Sizes DEF Ramp, IInv
  <2>2. conns' = [conns EXCEPT ![c] = IF x.fd THEN @ + 1 ELSE @]
        /\ opt' = opt /\ cl' = [cl EXCEPT ![c] = x] /\ pc' = "wait" /\ todo' = todo /\ batch' = batch
    BY <1>2 DEF Ramp
  <2>3. /\ Sound(x) /\ x.state # "Idle" /\ conns' \in [Clients -> 0 .. MaxConns]
        /\ \A d \in Clients : d # c => conns'[d] = conns[d]
    BY <2>1, <2>2, Connects
  <2>4. todo' \subseteq Clients
    BY <2>2 DEF IInv
  <2> QED BY <2>2, <2>3, <2>4, OneClient
<1>3. ASSUME NEW c \in Clients, NEW x \in {Connecting(c, cl[c]), NotConnecting(cl[c])},
             ScanReconnect(c, x)
      PROVE  IInv'
  <2>1. cl[c].state = "Dead" /\ conns[c] < MaxConns
        /\ conns' = [conns EXCEPT ![c] = IF x.fd THEN @ + 1 ELSE @]
    BY <1>3 DEF ScanReconnect
  <2>2. opt' = opt /\ batch' = batch /\ Done(c, x, "top")
    BY <1>3 DEF ScanReconnect, Scan
  <2>3. /\ Sound(x) /\ x.state # "Idle" /\ conns' \in [Clients -> 0 .. MaxConns]
        /\ \A d \in Clients : d # c => conns'[d] = conns[d]
    BY <2>1, Connects
  <2>4. cl' = [cl EXCEPT ![c] = x] /\ todo' \subseteq Clients
        /\ pc' \in {"top", "wait", "events", "scan", "done"}
    BY <2>2 DEF Done, IInv
  <2> QED BY <2>2, <2>3, <2>4, OneClient
<1>4. ASSUME NEW c \in Clients, NEW x, Sound(x), x.state # "Idle" \/ x = cl[c], Event(c, x)
      PROVE  IInv'
  BY <1>4, OneDone DEF Event
<1>5. ASSUME NEW c \in Clients, NEW x, Sound(x), x.state # "Idle" \/ x = cl[c], Scan(c, x),
             conns' = conns
      PROVE  IInv'
  BY <1>5, OneDone DEF Scan
<1>6. ASSUME NEW c \in Clients, OnNothing(c)
      PROVE  IInv'
  BY <1>0, <1>4, <1>6 DEF OnNothing
<1>7. ASSUME NEW c \in Clients, OnHup(c)
      PROVE  IInv'
  <2>1. Sound(Kill(cl[c])) /\ Kill(cl[c]).state = "Dead"
    BY <1>0, KillSound
  <2> QED BY <1>4, <1>7, <2>1 DEF OnHup
<1>8. ASSUME NEW c \in Clients, OnConnected(c)
      PROVE  IInv'
  <2>1. Sound(cl[c]) /\ cl[c].state = "Connecting"
    BY <1>0, <1>8 DEF OnConnected
  <2>2. CASE opt.mode = "echo"
    <3> DEFINE y == [cl[c] EXCEPT !.state = "Active", !.act = @ + 1]
               z == IF y.attacker THEN [y EXCEPT !.reg = {}, !.want = FALSE, !.nextRecv = opt.slow]
                                  ELSE UpdateWrite(y, y.pend # <<>>)
    <3>1. Sound(z) /\ z.state = "Active"
      BY <1>0, <2>1, <2>2, ConnectedEcho
    <3>2. Event(c, z)
      BY <1>8, <2>2 DEF OnConnected
    <3> HIDE DEF z
    <3> QED BY <1>4, <3>1, <3>2
  <2>3. CASE opt.mode = "game"
    <3>1. PICK y \in SendBytes(cl[c], Msg("JOIN", 0)) :
             Event(c, UpdateWrite([y EXCEPT !.state = "Joining"], y.pend # <<>>))
      BY <1>8, <2>3 DEF OnConnected
    <3> DEFINE z == UpdateWrite([y EXCEPT !.state = "Joining"], y.pend # <<>>)
    <3>2. Sound(z) /\ z.state = "Joining"
      BY <1>0, <2>1, <2>3, ConnectedGame
    <3> HIDE DEF z
    <3>3. Event(c, z)
      BY <3>1 DEF z
    <3> QED BY <1>4, <3>2, <3>3
  <2> QED BY <1>0, <2>2, <2>3, OptionAssumption
<1>9. ASSUME NEW c \in Clients, OnReady(c)
      PROVE  IInv'
  <2>1. Sound(cl[c]) /\ cl[c].fd /\ cl[c].state \notin {"Dead", "Connecting"}
    BY <1>0, <1>9 DEF OnReady
  <2>2. cl[c].state # "Idle"
    BY <2>1 DEF Sound, Calm, Linked
  <2>3. PICK y \in (IF "OUT" \in batch[c] THEN FlushPend(cl[c]) ELSE {cl[c]}) :
          LET z == IF "OUT" \in batch[c] /\ y.pend = <<>> THEN UpdateWrite(y, FALSE) ELSE y
          IN  \/ "IN" \notin batch[c] /\ Event(c, z)
              \/ "IN" \in batch[c] /\ \E w \in OnReadable(z) : Event(c, Deafened(w))
    BY <1>9 DEF OnReady
  <2>4. Sound(y) /\ y.state \notin {"Idle", "Connecting"}
    BY <1>0, <2>1, <2>2, FlushPendSound
  <2> DEFINE z == IF "OUT" \in batch[c] /\ y.pend = <<>> THEN UpdateWrite(y, FALSE) ELSE y
  <2>5. Sound(z) /\ z.state \notin {"Idle", "Connecting"}
    <3>1. CASE y.pend = <<>>
      <4>1. Steady(y) /\ (y.pend # <<>>) = FALSE
        BY <2>4, <3>1 DEF Sound, Steady
      <4>2. Sound(UpdateWrite(y, y.pend # <<>>)) /\ Alike(y, UpdateWrite(y, y.pend # <<>>))
        BY <2>4, <4>1, UpdateWriteSound
      <4>3. Sound(UpdateWrite(y, FALSE)) /\ Alike(y, UpdateWrite(y, FALSE))
        BY <4>1, <4>2
      <4> QED BY <2>4, <4>3 DEF Alike
    <3>2. CASE y.pend # <<>>
      BY <2>4, <3>2
    <3> QED BY <3>1, <3>2
  <2>6. \/ "IN" \notin batch[c] /\ Event(c, z)
        \/ "IN" \in batch[c] /\ \E w \in OnReadable(z) : Event(c, Deafened(w))
    BY <2>3
  <2> HIDE DEF z
  <2>7. CASE Event(c, z)
    BY <1>4, <2>5, <2>7
  <2>8. ASSUME NEW w \in OnReadable(z), Event(c, Deafened(w))
        PROVE  IInv'
    <3>1. Sound(w) /\ w.state # "Idle"
      BY <1>0, <2>5, OnReadableSound
    <3>2. Sound(Deafened(w)) /\ Deafened(w).state # "Idle"
      <4>1. Deafened(w) = w \/ Deafened(w) = [w EXCEPT !.reg = Interest(FALSE, w.want), !.nextRecv = TRUE]
        BY DEF Deafened
      <4> QED BY <3>1, <4>1, DeafSound
    <3> QED BY <1>4, <2>8, <3>2
  <2> QED BY <2>6, <2>7, <2>8
<1>10. ASSUME NEW c \in Clients, ScanChurn(c)
       PROVE  IInv'
  <2>1. Sound(Kill(cl[c])) /\ Kill(cl[c]).state = "Dead"
    BY <1>0, KillSound
  <2> QED BY <1>5, <1>10, <2>1 DEF ScanChurn
<1>11. ASSUME NEW c \in Clients, ScanAttack(c)
       PROVE  IInv'
  <2> DEFINE x == cl[c]
  <2>1. Sound(x) /\ x.state = "Active" /\ x.attacker /\ x \in Client
    BY <1>0, <1>11 DEF ScanAttack, Calm
  <2>2. opt.mode = "echo"
    BY <1>0, <2>1, OptionAssumption DEF Calm
  <2>3. PICK y \in {x} \cup (IF opt.slow /\ x.nextRecv THEN {Listening(x)} ELSE {}) :
           \E z \in (IF MaySend(x) THEN SendEcho(y) ELSE {y}) : Scan(c, z)
    BY <1>11 DEF ScanAttack
  <2>4. Sound(y) /\ y.state = "Active" /\ y.echoSeq = x.echoSeq
    <3>1. y = x \/ y = [x EXCEPT !.reg = Interest(TRUE, x.want), !.nextRecv = FALSE]
      BY <2>3 DEF Listening
    <3> HIDE DEF x
    <3> QED BY <2>1, <3>1, DeafSound
  <2>5. PICK z \in (IF MaySend(x) THEN SendEcho(y) ELSE {y}) : Scan(c, z)
    BY <2>3
  <2>6. Sound(z) /\ z.state # "Idle"
    BY <1>0, <2>2, <2>4, <2>5, SendEchoSound DEF MaySend
  <2>7. conns' = conns
    BY <1>11 DEF ScanAttack
  <2> QED BY <1>5, <2>5, <2>6, <2>7
<1>12. ASSUME NEW c \in Clients, ScanSend(c)
       PROVE  IInv'
  <2> DEFINE x == cl[c]
  <2>1. Sound(x) /\ x.state = "Active" /\ x.fd /\ conns' = conns
    BY <1>0, <1>12 DEF ScanSend, Calm, Linked
  <2>2. CASE opt.mode = "echo"
    <3>1. PICK y \in SendEcho(x) : Scan(c, y) /\ MaySend(x)
      BY <1>12, <2>2 DEF ScanSend
    <3>2. Sound(y) /\ y.state # "Idle"
      BY <1>0, <2>1, <2>2, <3>1, SendEchoSound DEF MaySend
    <3> QED BY <1>5, <2>1, <3>1, <3>2
  <2>3. CASE opt.mode = "game"
    <3>1. PICK y \in SendBytes(x, Msg("INPUT", 0)) :
             Scan(c, IF y.state = "Dead" THEN y ELSE Armed(y))
      BY <1>12, <2>3 DEF ScanSend
    <3>2. \/ Sound(y) /\ y.state = "Dead"
          \/ Steady(y) /\ y.state = "Active"
      BY <1>0, <2>1, <2>3, SendGameSteady
    <3>3. CASE y.state = "Dead"
      <4>1. Sound(y) /\ Scan(c, y) /\ y.state # "Idle"
        BY <3>1, <3>2, <3>3
      <4> QED BY <1>5, <2>1, <4>1
    <3>4. CASE y.state # "Dead"
      <4>1. Sound(Armed(y)) /\ Armed(y).state = "Active"
        BY <3>2, <3>4, ArmedSound DEF Alike
      <4>2. Scan(c, Armed(y))
        BY <3>1, <3>4
      <4> QED BY <1>5, <2>1, <4>1, <4>2
    <3> QED BY <3>3, <3>4
  <2> QED BY <1>0, <2>2, <2>3, OptionAssumption
<1>13. ASSUME NEW c \in Clients, ScanQuiet(c)
       PROVE  IInv'
  BY <1>0, <1>5, <1>13 DEF ScanQuiet
<1> QED BY <1>1, <1>2, <1>3, <1>6, <1>7, <1>8, <1>9, <1>10, <1>11, <1>12, <1>13 DEF LoopStep

(* The server answers a message, if the answer fits.                            *)
LEMMA ServeSound ==
    ASSUME NEW c \in Clients, IInv, Serve(c)
    PROVE  \E x : Sound(x) /\ x.state = cl[c].state /\ Outside(c, x)
<1> DEFINE x == cl[c]
           Answer(msg) == IF Len(x.in) + 2 > RingCap
                            THEN [x EXCEPT !.link = "down"]
                            ELSE [x EXCEPT !.out = SubSeq(@, 3, Len(@)), !.in = @ \o msg]
<1>1. Sound(x) /\ x \in Client /\ opt \in Options
  BY DEF IInv, Sound, Calm
<1>2. x.link = "up" /\ Len(x.out) >= 2 /\ x.fd
  BY <1>1 DEF Serve, Sound, Calm, Linked
<1>3. /\ opt.mode = "echo" => x.out[1].kind = "ECHO"
      /\ opt.mode = "game" => x.out[1].kind \in {"JOIN", "INPUT"}
      /\ opt.mode \in {"echo", "game"}
  BY <1>1, <1>2, HeadKind, OptionAssumption
<1>4. Sound([x EXCEPT !.link = "down"]) /\ [x EXCEPT !.link = "down"].state = x.state
  <2>1. [x EXCEPT !.link = "down"].state = x.state
    BY <1>1 DEF Client
  <2> HIDE DEF x
  <2> QED BY <1>1, <1>2, <2>1, LinkSound
<1>5. Len(x.in) + 2 > RingCap \/ Len(x.in) + 2 <= RingCap
  <2>1. Len(x.in) \in Nat
    BY <1>1, Buffers
  <2> QED BY <2>1, Sizes
<1>6. \A msg : Answered(x, msg).state = x.state
  BY <1>1 DEF Answered, Client
<1>7. CASE x.out[1].kind = "ECHO"
  <2>1. opt.mode = "echo"
    BY <1>3, <1>7
  <2> DEFINE m == SubSeq(x.out, 1, 2)
  <2>2. Outside(c, Answer(m))
    BY <1>7 DEF Serve
  <2>3. CASE Len(x.in) + 2 > RingCap
    <3>1. Answer(m) = [x EXCEPT !.link = "down"]
      BY <2>3
    <3> HIDE DEF Answer, x
    <3> QED BY <1>4, <2>2, <3>1 DEF x
  <2>4. CASE ~(Len(x.in) + 2 > RingCap)
    <3>1. Answer(m) = Answered(x, m)
      BY <2>4 DEF Answered
    <3>2. Sound(Answered(x, m))
      BY <1>1, <1>2, <1>5, <2>1, <2>4, EchoAnswered
    <3> HIDE DEF Answer, x, m
    <3> QED BY <1>6, <2>2, <3>1, <3>2 DEF x
  <2> QED BY <2>3, <2>4
<1>8. CASE x.out[1].kind = "JOIN"
  <2>1. opt.mode = "game"
    BY <1>3, <1>8
  <2>2. PICK k \in {"JOIN_OK", "JOIN_FAIL"} : Outside(c, Answer(Msg(k, 0)))
    BY <1>8 DEF Serve
  <2> DEFINE m == Msg(k, 0)
  <2>3. CASE Len(x.in) + 2 > RingCap
    <3>1. Answer(m) = [x EXCEPT !.link = "down"]
      BY <2>3
    <3> HIDE DEF Answer, x
    <3> QED BY <1>4, <2>2, <3>1 DEF x
  <2>4. CASE ~(Len(x.in) + 2 > RingCap)
    <3>1. Answer(m) = Answered(x, m)
      BY <2>4 DEF Answered
    <3>2. Sound(Answered(x, m))
      BY <1>1, <1>2, <1>5, <2>1, <2>4, JoinAnswered
    <3>3. Outside(c, Answer(m))
      BY <2>2
    <3> HIDE DEF Answer, x, m
    <3> QED BY <1>6, <3>1, <3>2, <3>3 DEF x
  <2> QED BY <2>3, <2>4
<1>9. CASE x.out[1].kind = "INPUT"
  <2>1. opt.mode = "game"
    BY <1>3, <1>9
  <2> DEFINE y == [x EXCEPT !.out = SubSeq(@, 3, Len(@))]
  <2>2. Outside(c, y)
    BY <1>9 DEF Serve
  <2>3. Sound(y) /\ y.state = x.state
    <3>1. y.state = x.state
      BY <1>1 DEF Client
    <3> QED BY <1>1, <1>2, <2>1, <3>1, InputTaken
  <2> HIDE DEF y, x
  <2> QED BY <2>2, <2>3 DEF x
<1> QED BY <1>3, <1>7, <1>8, <1>9

(* So does every other step.                                                    *)
LEMMA StepKeeps == IInv /\ [Next]_vars => IInv'
<1> SUFFICES ASSUME IInv, [Next]_vars PROVE IInv'
  OBVIOUS
<1>0. opt \in Options /\ \A c \in Clients : Sound(cl[c]) /\ Calm(cl[c]) /\ cl[c] \in Client
  BY DEF IInv, Sound, Calm
<1>1. CASE LoopStep
  BY <1>1, LoopKeeps
<1>2. CASE Finish
  <2>1. opt' = opt /\ todo' = todo /\ batch' = batch /\ conns' = conns /\ pc' = "done"
        /\ cl' = [c \in Clients |-> Kill(cl[c])]
    BY <1>2 DEF Finish
  <2>2. \A c \in Clients : Sound(Kill(cl[c])) /\ Kill(cl[c]).state = "Dead"
    BY <1>0, KillSound
  <2>3. \A c \in Clients : cl'[c] = Kill(cl[c])
    BY <2>1
  <2>4. \A c \in Clients : Sound(cl[c])' /\ cl'[c].state # "Idle"
    BY <2>1, <2>2, <2>3, StaysSound
  <2>5. cl' \in [Clients -> Client]
    BY <2>1, <2>2 DEF Sound, Calm
  <2> QED BY <2>1, <2>4, <2>5 DEF IInv
<1>3. ASSUME NEW c \in Clients, NEW x, Sound(x), x.state = cl[c].state, Outside(c, x)
      PROVE  IInv'
  <2>1. /\ cl' = [cl EXCEPT ![c] = x]
        /\ opt' = opt /\ pc' = pc /\ todo' = todo /\ batch' = batch /\ conns' = conns
    BY <1>3 DEF Outside
  <2>2. /\ conns' \in [Clients -> 0 .. MaxConns] /\ (x.state = "Idle" => conns'[c] = 0)
        /\ pc' \in {"top", "wait", "events", "scan", "done"} \/ pc' = "done"
    BY <1>3, <2>1 DEF IInv
  <2>3. pc' \in {"top", "wait", "events", "scan", "done"} /\ todo' \subseteq Clients
    BY <2>1 DEF IInv
  <2> QED BY <1>3, <2>1, <2>2, <2>3, OneClient
<1>4. ASSUME NEW c \in Clients, Handshake(c) \/ Cut(c)
      PROVE  IInv'
  <2>1. PICK l \in {"up", "down"} : Outside(c, [cl[c] EXCEPT !.link = l]) /\ cl[c].link # "none"
    BY <1>4 DEF Handshake, Cut
  <2> DEFINE x == [cl[c] EXCEPT !.link = l]
  <2>2. x.state = cl[c].state
    BY <1>0 DEF Client
  <2>3. Sound(x)
    BY <1>0, <2>1, LinkSound
  <2> HIDE DEF x
  <2>4. Outside(c, x)
    BY <2>1 DEF x
  <2> QED BY <1>3, <2>2, <2>3, <2>4
<1>5. ASSUME NEW c \in Clients, Serve(c)
      PROVE  IInv'
  BY <1>3, <1>5, ServeSound
<1>6. CASE UNCHANGED vars
  <2>1. opt' = opt /\ pc' = pc /\ todo' = todo /\ batch' = batch /\ conns' = conns /\ cl' = cl
    BY <1>6 DEF vars
  <2>2. \A c \in Clients : Sound(cl[c])'
    BY <1>0, <2>1, StaysSound
  <2> QED BY <2>1, <2>2 DEF IInv
<1> QED BY <1>1, <1>2, <1>4, <1>5, <1>6 DEF Next

(* A client that was never connected is sound.                                  *)
LEMMA NewClientSound ==
    ASSUME opt \in Options
    PROVE  Sound(NewClient) /\ NewClient \in Client /\ NewClient.state = "Idle"
<1>1. 0 \in 0 .. MaxEcho /\ 1 \in 1 .. MaxEcho + 1
  BY Sizes
<1>2. NewClient \in Client
  BY <1>1 DEF NewClient, Client
<1>3. /\ NewClient.state = "Idle" /\ NewClient.fd = FALSE /\ NewClient.want = FALSE
      /\ NewClient.attacker = FALSE /\ NewClient.pend = <<>> /\ NewClient.recv = <<>>
      /\ NewClient.echoSeq = 0 /\ NewClient.pending = 0 /\ NewClient.act = 0
      /\ NewClient.alarm = FALSE /\ NewClient.link = "none"
      /\ NewClient.out = <<>> /\ NewClient.in = <<>>
  BY DEF NewClient
<1>4. Fits(NewClient) /\ Counted(NewClient) /\ Linked(NewClient) /\ Registered(NewClient)
  BY <1>3, Sizes DEF Fits, Counted, Linked, Registered
<1> QED BY <1>2, <1>3, <1>4 DEF Sound, Calm, InEcho, InGame, Waiting

(* At the start all clients are such.                                           *)
LEMMA StartSound == Init => IInv
<1> SUFFICES ASSUME Init PROVE IInv
  OBVIOUS
<1>1. opt \in Options /\ cl = [c \in Clients |-> NewClient]
  BY DEF Init
<1>2. cl \in [Clients -> Client] /\ \A c \in Clients : Sound(cl[c])
  BY <1>1, NewClientSound
<1>3. conns \in [Clients -> 0 .. MaxConns] /\ (\A c \in Clients : conns[c] = 0)
      /\ batch \in [Clients -> SUBSET {"IN", "OUT", "HUP"}]
  BY Sizes DEF Init
<1> QED BY <1>1, <1>2, <1>3 DEF IInv, Init

(* The invariant holds in every reachable state.                                *)
LEMMA AlwaysSound == Spec => []IInv
BY StartSound, StepKeeps, PTL DEF Spec

--------------------------------------------------------------------------------
(* What follows.                                                                *)

(* No buffer of a client or of its socket ever holds more than it has room for, *)
(* the limit on what is held back (dummy_main.cpp:600-619) among them, and no   *)
(* client has more connections than are counted.                                *)
THEOREM DummyTypeCorrect == Spec => []TypeOK
<1>1. IInv => TypeOK
  BY DEF IInv, TypeOK, Sound, Calm
<1> QED BY <1>1, AlwaysSound, PTL

(* Short writes, short reads, cuts and reconnects never lose, double or reorder *)
(* an echo, and the client knows how many it waits for (dummy_main.cpp:600-619, *)
(* 483-598 and the reset in 364-372).                                           *)
THEOREM EchoPipeIsExact == Spec => []EchoPipe
<1>1. IInv => EchoPipe
  BY DEF IInv, EchoPipe, Sound, Calm, Linked, InEcho
<1> QED BY <1>1, AlwaysSound, PTL

(* The check of what comes back never reports a violation of a server that      *)
(* answers in order (dummy_main.cpp:541-588).                                   *)
THEOREM VerificationIsSound == Spec => []NoFalseAlarm
<1>1. IInv => NoFalseAlarm
  BY DEF IInv, NoFalseAlarm, Sound, Calm
<1> QED BY <1>1, AlwaysSound, PTL

(* Bytes that are held back never wait for an event nobody asked for            *)
(* (dummy_main.cpp:600-640, 446-452, 743-751).                                  *)
THEOREM HeldBackAlwaysArmed == Spec => []HeldBackIsArmed
<1>1. IInv => HeldBackIsArmed
  BY DEF IInv, HeldBackIsArmed, Sound, Calm, Registered, Waiting
<1> QED BY <1>1, AlwaysSound, PTL

--------------------------------------------------------------------------------
(* When a slow reader does not listen again.                                    *)

(* A client that reads only when its timer fires.                               *)
Reader(x) == Slow(x) /\ x.state = "Active"

(* It listens, or its timer is set.                                             *)
Hears(x) == "IN" \in x.reg \/ x.nextRecv

(* Its want says exactly whether it holds bytes back.                           *)
Exact(x) == Reader(x) => (x.want <=> x.pend # <<>>)

(* A reader x that begins or ends to hold bytes back, as y, with no timer set.  *)
Turned(x, y) ==
    Reader(x) /\ Reader(y) /\ ~y.nextRecv /\ (x.pend = <<>>) # (y.pend = <<>>)

(* What becomes of a reader in a step: that alone takes its ear.                *)
Moves(x, y) ==
    Reader(y) =>
        /\ Exact(y)
        /\ Turned(x, y) => ~Hears(y)
        /\ ~Turned(x, y) /\ (Reader(x) => Hears(x)) => Hears(y)

(* The same client, but for what is on its way and for its counters.            *)
Quiet(x, y) ==
    /\ y.state = x.state /\ y.attacker = x.attacker /\ y.pend = x.pend
    /\ y.want = x.want /\ y.reg = x.reg /\ y.nextRecv = x.nextRecv

(* A reader x has asked for EPOLLOUT, or no longer, if its holding back began   *)
(* or ended; to ask for it is to ask for nothing else.                          *)
Asked(x, y) ==
    /\ y.state = x.state /\ y.attacker = x.attacker /\ y.nextRecv = x.nextRecv
    /\ y.want <=> y.pend # <<>>
    /\ (x.pend = <<>>) = (y.pend = <<>>) => y.reg = x.reg
    /\ (x.pend = <<>>) # (y.pend = <<>>) => "IN" \notin y.reg

(* A client that does not change in this respect.                               *)
LEMMA QuietMoves ==
    ASSUME NEW x, NEW y, Exact(x), Quiet(x, y)
    PROVE  Moves(x, y)
BY DEF Moves, Exact, Turned, Reader, Slow, Hears, Quiet

(* A reader that wrote, or was woken for EPOLLOUT, is deaf if that changed what *)
(* it is registered for.                                                        *)
LEMMA AskedMoves ==
    ASSUME NEW x, NEW y, Asked(x, y)
    PROVE  Moves(x, y)
BY DEF Moves, Exact, Turned, Reader, Slow, Hears, Asked

(* Writing sets no timer and stops none.                                        *)
LEMMA WriteKeepsTimer ==
    ASSUME NEW x \in Client
    PROVE  /\ \A y \in FlushPend(x) : y.nextRecv = x.nextRecv
           /\ \A data : \A y \in SendBytes(x, data) : y.nextRecv = x.nextRecv
<1>1. Kill(x).nextRecv = x.nextRecv
  BY DEF Kill, Client
<1>2. \A y \in FlushPend(x) : y.nextRecv = x.nextRecv
  <2> SUFFICES ASSUME NEW y \in FlushPend(x) PROVE y.nextRecv = x.nextRecv
    OBVIOUS
  <2> DEFINE k == Taken(x, x.pend)
  <2>1. \/ y = x \/ y = Kill(x)
        \/ y = [x EXCEPT !.out = @ \o SubSeq(x.pend, 1, k), !.pend = SubSeq(@, k + 1, Len(@))]
    BY DEF FlushPend, MayFail
  <2> HIDE DEF k
  <2> QED BY <1>1, <2>1 DEF Client
<1>3. ASSUME NEW data, NEW y \in SendBytes(x, data)
      PROVE  y.nextRecv = x.nextRecv
  <2> DEFINE k == Taken(x, data)
  <2>1. \/ y = Kill(x) \/ y = [x EXCEPT !.pend = @ \o data]
        \/ y = [x EXCEPT !.out = @ \o SubSeq(data, 1, k),
                         !.pend = SubSeq(data, k + 1, Len(data)),
                         !.want = @ /\ k = Len(data)]
    BY DEF SendBytes, MayFail, Behind
  <2> HIDE DEF k
  <2> QED BY <1>1, <2>1 DEF Client
<1> QED BY <1>2, <1>3

(* An attacker that asks for EPOLLOUT, or no longer, asks for nothing else.     *)
LEMMA AskingDeafens ==
    ASSUME NEW x \in Client, x.attacker, x.fd, NEW w \in BOOLEAN,
           NEW y, y = UpdateWrite(x, w)
    PROVE  /\ y.state = x.state /\ y.attacker = x.attacker /\ y.nextRecv = x.nextRecv
           /\ y.pend = x.pend /\ y.want = w
           /\ x.want = w => y.reg = x.reg
           /\ x.want # w => "IN" \notin y.reg
<1>1. CASE x.want = w
  BY <1>1 DEF UpdateWrite
<1>2. CASE x.want # w
  <2>1. y = [x EXCEPT !.reg = Interest(FALSE, w), !.want = w]
    BY <1>2 DEF UpdateWrite
  <2>2. "IN" \notin Interest(FALSE, w)
    BY DEF Interest
  <2> QED BY <1>2, <2>1, <2>2 DEF Client
<1> QED BY <1>1, <1>2

(* A reader that sends an echo.                                                 *)
LEMMA ReaderSends ==
    ASSUME NEW x, Sound(x), Reader(x), Exact(x), x.echoSeq < MaxEcho, opt \in Options,
           NEW z \in SendEcho(x)
    PROVE  z.state = "Dead" \/ Asked(x, z)
<1> DEFINE n == x.echoSeq + 1
           u == [x EXCEPT !.echoSeq = n]
           data == Msg("ECHO", n)
<1>1. /\ x \in Client /\ Fits(x) /\ x.fd /\ x.attacker /\ n \in 0 .. MaxEcho
      /\ (x.want <=> x.pend # <<>>) /\ x.want \in BOOLEAN /\ x.state = "Active"
  BY Sizes DEF Sound, Calm, Linked, Client, Reader, Slow, Exact
<1>2. /\ u \in Client /\ u.out = x.out /\ u.pend = x.pend /\ u.recv = x.recv /\ u.in = x.in
      /\ u.want = x.want /\ u.reg = x.reg /\ u.state = x.state /\ u.fd = x.fd
      /\ u.attacker = x.attacker /\ u.nextRecv = x.nextRecv
  BY <1>1 DEF Client
<1>3. data \in Seq(Halves) /\ Len(data) = 2
  BY <1>1, MsgType
<1>4. PICK y \in SendBytes(u, data) :
         z = IF y.state = "Dead" THEN y ELSE [Armed(y) EXCEPT !.pending = @ + 1]
  BY DEF SendEcho
<1> HIDE DEF u, data, n
<1>5. Fits(u)
  BY <1>1, <1>2 DEF Fits
<1>6. y.nextRecv = x.nextRecv
  BY <1>2, WriteKeepsTimer
<1>7. CASE y = Kill(u)
  <2>1. y.state = "Dead"
    BY <1>2, <1>7 DEF Kill, Client
  <2> QED BY <1>4, <2>1
<1>8. CASE Sent(u, y, data) /\ (u.pend # <<>> => y.want = u.want /\ y.pend # <<>>)
  <2>1. /\ y \in Client /\ y.state = "Active" /\ y.fd /\ y.attacker /\ y.reg = x.reg
        /\ (y.want => x.want) /\ (x.pend # <<>> => y.want = x.want /\ y.pend # <<>>)
    BY <1>1, <1>2, <1>8 DEF Sent, Alike
  <2> DEFINE v == Armed(y)
  <2>2. /\ v \in Client /\ Alike(y, v) /\ v.pend = y.pend
    <3>1. Registered(y)
      <4>1. Registered(x)
        BY DEF Sound, Calm
      <4> QED BY <1>1, <2>1, <4>1 DEF Registered
    <3> QED BY <2>1, <3>1, ArmedEffect
  <2>3. /\ z.state = v.state /\ z.attacker = v.attacker /\ z.nextRecv = v.nextRecv
        /\ z.want = v.want /\ z.pend = v.pend /\ z.reg = v.reg
    <3>1. z = [v EXCEPT !.pending = @ + 1]
      BY <1>4, <2>1
    <3> HIDE DEF v
    <3> QED BY <2>2, <3>1 DEF Client
  <2>4. CASE y.pend = <<>>
    <3>1. v = y /\ x.pend = <<>> /\ ~x.want /\ ~y.want
      BY <1>1, <2>1, <2>4 DEF Armed
    <3> HIDE DEF v
    <3> QED BY <1>1, <1>6, <2>1, <2>3, <2>4, <3>1 DEF Asked
  <2>5. CASE y.pend # <<>>
    <3>1. v = UpdateWrite(y, TRUE)
      BY <2>5 DEF Armed
    <3> HIDE DEF v
    <3>2. /\ v.state = y.state /\ v.attacker = y.attacker /\ v.nextRecv = y.nextRecv
          /\ v.pend = y.pend /\ v.want = TRUE
          /\ y.want = TRUE => v.reg = y.reg
          /\ y.want # TRUE => "IN" \notin v.reg
      BY <2>1, <3>1, AskingDeafens
    <3>3. CASE x.pend = <<>>
      <4>1. y.want = FALSE
        BY <1>1, <2>1, <3>3 DEF Client
      <4> QED BY <1>1, <1>6, <2>1, <2>3, <2>5, <3>2, <3>3, <4>1 DEF Asked
    <3>4. CASE x.pend # <<>>
      <4>1. y.want = TRUE
        BY <1>1, <2>1, <3>4 DEF Client
      <4> QED BY <1>1, <1>6, <2>1, <2>3, <2>5, <3>2, <3>4, <4>1 DEF Asked
    <3> QED BY <3>3, <3>4
  <2> QED BY <2>4, <2>5
<1> QED BY <1>2, <1>3, <1>5, <1>7, <1>8, SendBytesEffect

(* A reader that flushed what it held back, and asks for EPOLLOUT no longer.    *)
LEMMA ReaderFlushes ==
    ASSUME NEW x, Sound(x), Reader(x), Exact(x), opt \in Options,
           NEW y \in FlushPend(x), NEW z,
           z = IF y.pend = <<>> THEN UpdateWrite(y, FALSE) ELSE y
    PROVE  z.state = "Dead" \/ Asked(x, z)
<1>1. /\ x \in Client /\ Fits(x) /\ x.fd /\ x.attacker /\ x.state = "Active"
      /\ (x.want <=> x.pend # <<>>) /\ x.want \in BOOLEAN
  BY DEF Sound, Calm, Linked, Client, Reader, Slow, Exact
<1>2. CASE y = Kill(x)
  <2>1. y.state = "Dead"
    BY <1>1, <1>2 DEF Kill, Client
  <2>2. y.fd = FALSE
    BY <1>1, <1>2 DEF Kill, Client
  <2> QED BY <2>1, <2>2 DEF UpdateWrite
<1>3. CASE y # Kill(x)
  <2>1. /\ y \in Client /\ y.state = "Active" /\ y.fd /\ y.attacker /\ y.reg = x.reg
        /\ y.want = x.want /\ (y.pend # <<>> => x.pend # <<>>)
    BY <1>1, <1>3, FlushPendEffect DEF Alike
  <2>2. y.nextRecv = x.nextRecv
    BY <1>1, WriteKeepsTimer
  <2>3. CASE y.pend # <<>>
    BY <1>1, <2>1, <2>2, <2>3 DEF Asked
  <2>4. CASE y.pend = <<>>
    <3>1. z = UpdateWrite(y, FALSE)
      BY <2>4
    <3>2. /\ z.state = y.state /\ z.attacker = y.attacker /\ z.nextRecv = y.nextRecv
          /\ z.pend = y.pend /\ z.want = FALSE
          /\ y.want = FALSE => z.reg = y.reg
          /\ y.want # FALSE => "IN" \notin z.reg
      BY <2>1, <3>1, AskingDeafens
    <3> QED BY <1>1, <2>1, <2>2, <2>4, <3>2 DEF Asked
  <2> QED BY <2>3, <2>4
<1> QED BY <1>2, <1>3

(* Reading changes nothing of an echo client but its counters, or cuts it.      *)
LEMMA ReaderReads ==
    ASSUME NEW x, Sound(x), opt.mode = "echo", x.state # "Idle", x.state # "Connecting",
           opt \in Options, NEW y \in OnReadable(x)
    PROVE  \/ y.state = "Dead"
           \/ /\ y.state = x.state /\ y.attacker = x.attacker
              /\ y.pend = x.pend /\ y.want = x.want
<1> DEFINE Taking(k) == [x EXCEPT !.recv = @ \o SubSeq(x.in, 1, k), !.in = SubSeq(@, k + 1, Len(@))]
<1>0. x \in Client /\ Len(x.in) \in Nat
  BY Buffers DEF Sound, Calm
<1>1. CASE ~x.fd
  BY <1>1 DEF OnReadable
<1>2. CASE x.fd
  <2>1. x.state \notin {"Dead", "Connecting"}
    BY <1>2 DEF Sound, Calm, Linked
  <2>2. ASSUME NEW k \in 0 .. Len(x.in)
        PROVE  Sound(ParseFrames(Taking(k))) /\ Same(x, ParseFrames(Taking(k)))
    <3> DEFINE u == Taking(k)
    <3>1. /\ u \in Client /\ Same(x, u) /\ u.recv \o u.in = x.recv \o x.in
          /\ Len(u.in) <= Len(x.in) /\ u.expectRecv = x.expectRecv /\ u.pending = x.pending
      BY <1>0, ReadEffect
    <3> HIDE DEF u
    <3>2. Sound(ParseFrames(u)) /\ Same(x, ParseFrames(u))
      BY <1>0, <1>2, <2>1, <3>1, ReadEcho
    <3> QED BY <3>2 DEF u
  <2> DEFINE Read(k) == ParseFrames(Taking(k))
             arrived == IF x.in = <<>> THEN {0} ELSE 1 .. Len(x.in)
             got     == {Read(k) : k \in arrived}
             ended   == {Kill(z) : z \in {v \in got : x.link = "down" /\ (Slow(x) => x.in = <<>>)}}
  <2>3. y \in got \cup ended
    <3>1. OnReadable(x) = got \cup ended
      BY ONLY <1>2 DEF OnReadable
    <3>2. y \in OnReadable(x)
      OBVIOUS
    <3> HIDE DEF got, ended
    <3> QED BY ONLY <3>1, <3>2
  <2>4. arrived \subseteq 0 .. Len(x.in)
    BY <1>0
  <2>5. \A z \in got : Sound(z) /\ Same(x, z)
    <3> HIDE DEF Taking, arrived
    <3> QED BY <2>2, <2>4
  <2>6. \A z \in ended : z.state = "Dead"
    <3> HIDE DEF got
    <3> QED BY <2>5, KillSound DEF Sound
  <2>7. y.state = "Dead" \/ Same(x, y)
    <3> HIDE DEF got, ended
    <3> QED BY <2>3, <2>5, <2>6
  <2> QED BY <2>7 DEF Same
<1> QED BY <1>1, <1>2

(* Who sends an echo is an attacker after it if it was before.                  *)
LEMMA EchoSender ==
    ASSUME NEW x, Sound(x), x.echoSeq < MaxEcho, ~x.attacker, opt \in Options,
           NEW z \in SendEcho(x)
    PROVE  ~z.attacker
<1> DEFINE n == x.echoSeq + 1
           u == [x EXCEPT !.echoSeq = n]
           data == Msg("ECHO", n)
<1>1. x \in Client /\ Fits(x) /\ n \in 0 .. MaxEcho /\ Counted(x) /\ Linked(x) /\ Registered(x)
  BY Sizes DEF Sound, Calm, Client
<1>2. /\ u \in Client /\ u.out = x.out /\ u.pend = x.pend /\ u.recv = x.recv /\ u.in = x.in
      /\ u.want = x.want /\ u.reg = x.reg /\ u.state = x.state /\ u.fd = x.fd
      /\ u.attacker = x.attacker
  BY <1>1 DEF Client
<1>3. data \in Seq(Halves) /\ Len(data) = 2
  BY <1>1, MsgType
<1>4. PICK y \in SendBytes(u, data) :
         z = IF y.state = "Dead" THEN y ELSE [Armed(y) EXCEPT !.pending = @ + 1]
  BY DEF SendEcho
<1> HIDE DEF u, data, n
<1>5. Fits(u)
  BY <1>1, <1>2 DEF Fits
<1>6. CASE y = Kill(u)
  <2>1. y.state = "Dead" /\ y.attacker = u.attacker
    BY <1>2, <1>6 DEF Kill, Client
  <2> QED BY <1>2, <1>4, <2>1
<1>7. CASE Sent(u, y, data)
  <2>1. y \in Client /\ y.attacker = x.attacker /\ Registered(y)
    BY <1>1, <1>2, <1>7 DEF Sent, Alike, Registered
  <2> DEFINE v == Armed(y)
  <2>2. v \in Client /\ v.attacker = y.attacker
    BY <2>1, ArmedEffect DEF Alike
  <2>3. z = y \/ z = [v EXCEPT !.pending = @ + 1]
    BY <1>4
  <2> HIDE DEF v
  <2> QED BY <2>1, <2>2, <2>3 DEF Client
<1> QED BY <1>2, <1>3, <1>5, <1>6, <1>7, SendBytesEffect

(* Every want of a reader is exact.                                             *)
ReaderInv == \A c \in Clients : Exact(cl[c])

(* What one step makes of the readers.                                          *)
Moved == \A c \in Clients : Moves(cl[c], cl'[c])

(* A step that makes the client c into x.                                       *)
LEMMA OneMoves ==
    ASSUME IInv, ReaderInv, NEW c \in Clients, NEW x, Moves(cl[c], x),
           cl' = [cl EXCEPT ![c] = x]
    PROVE  Moved
<1>1. ASSUME NEW d \in Clients, d # c
      PROVE  Moves(cl[d], cl'[d])
  <2>1. cl'[d] = cl[d] /\ Exact(cl[d])
    BY <1>1 DEF IInv, ReaderInv
  <2> QED BY <2>1, QuietMoves DEF Quiet
<1>2. Moves(cl[c], cl'[c])
  BY DEF IInv
<1> QED BY <1>1, <1>2 DEF Moved

(* Only an attacker in echo mode has a timer to turn deaf for.                  *)
LEMMA NoReader ==
    ASSUME NEW x, NEW y, y.state # "Active" \/ ~y.attacker
    PROVE  Moves(x, y)
BY DEF Moves, Reader, Slow

(* The loop of the worker: a reader loses its ear in two ways and no third.     *)
LEMMA LoopMoves == IInv /\ ReaderInv /\ LoopStep => Moved
<1> SUFFICES ASSUME IInv, ReaderInv, LoopStep PROVE Moved
  OBVIOUS
<1>0. /\ opt \in Options
      /\ \A c \in Clients : Sound(cl[c]) /\ Calm(cl[c]) /\ cl[c] \in Client /\ Exact(cl[c])
  BY DEF IInv, Sound, Calm, ReaderInv
<1>1. CASE RampDone \/ EpollWait
  <2>1. cl' = cl
    BY <1>1 DEF RampDone, EpollWait
  <2>2. \A c \in Clients : Quiet(cl[c], cl'[c])
    BY <2>1 DEF Quiet
  <2> QED BY <1>0, <2>2, QuietMoves DEF Moved
<1>2. ASSUME NEW c \in Clients, NEW x, Moves(cl[c], x), Event(c, x) \/ Scan(c, x)
      PROVE  Moved
  BY <1>2, OneMoves DEF Event, Scan, Done
<1>3. ASSUME NEW c \in Clients, NEW x, x.state # "Active" \/ ~x.attacker, Event(c, x) \/ Scan(c, x)
      PROVE  Moved
  BY <1>2, <1>3, NoReader
<1>4. ASSUME NEW c \in Clients, NEW x \in {Connecting(c, cl[c]), NotConnecting(cl[c])},
             Ramp(c, x) \/ ScanReconnect(c, x)
      PROVE  Moved
  <2>1. x.state # "Active"
    <3>1. NotConnecting(cl[c]).state = "Dead"
      BY <1>0 DEF NotConnecting, Client
    <3>2. Connecting(c, cl[c]).state = "Connecting"
      BY <1>0 DEF Connecting, FreshEcho, Client
    <3> QED BY <3>1, <3>2
  <2>2. CASE Ramp(c, x)
    BY <2>1, <2>2, NoReader, OneMoves DEF Ramp
  <2>3. CASE ScanReconnect(c, x)
    BY <1>3, <2>1, <2>3 DEF ScanReconnect
  <2> QED BY <1>4, <2>2, <2>3
<1>5. ASSUME NEW c \in Clients, OnNothing(c) \/ ScanQuiet(c)
      PROVE  Moved
  <2>1. Event(c, cl[c]) \/ Scan(c, cl[c])
    BY <1>5 DEF OnNothing, ScanQuiet
  <2>2. Moves(cl[c], cl[c])
    BY <1>0, QuietMoves DEF Quiet
  <2> QED BY <1>2, <2>1, <2>2
<1>6. ASSUME NEW c \in Clients, OnHup(c) \/ ScanChurn(c)
      PROVE  Moved
  <2>1. Kill(cl[c]).state = "Dead"
    BY <1>0, KillSound
  <2>2. Event(c, Kill(cl[c])) \/ Scan(c, Kill(cl[c]))
    BY <1>6 DEF OnHup, ScanChurn
  <2> QED BY <1>3, <2>1, <2>2
<1>7. ASSUME NEW c \in Clients, OnConnected(c)
      PROVE  Moved
  <2>1. Sound(cl[c]) /\ cl[c].state = "Connecting" /\ cl[c].pend = <<>> /\ cl[c] \in Client
    BY <1>0, <1>7 DEF OnConnected, Sound, Waiting
  <2>2. CASE opt.mode = "echo"
    <3> DEFINE y == [cl[c] EXCEPT !.state = "Active", !.act = @ + 1]
               z == IF y.attacker THEN [y EXCEPT !.reg = {}, !.want = FALSE, !.nextRecv = opt.slow]
                                  ELSE UpdateWrite(y, y.pend # <<>>)
    <3>1. Event(c, z)
      BY <1>7, <2>2 DEF OnConnected
    <3>2. Sound(z) /\ z.state = "Active"
      <4>1. Sound(cl[c]) /\ cl[c].state = "Connecting" /\ opt \in Options
        BY <1>0, <2>1
      <4> QED BY ONLY <2>2, <4>1, ConnectedEcho, Zenon
    <3>3. y.attacker = cl[c].attacker /\ y.pend = <<>>
      BY <2>1 DEF Client
    <3>4. CASE y.attacker
      <4>1. z = [y EXCEPT !.reg = {}, !.want = FALSE, !.nextRecv = opt.slow]
        BY <3>4
      <4>2. z.nextRecv = opt.slow /\ z.want = FALSE /\ z.pend = <<>>
        BY <2>1, <3>3, <4>1 DEF Client
      <4> HIDE DEF z
      <4>3. Moves(cl[c], z)
        BY <2>1, <4>2 DEF Moves, Exact, Turned, Reader, Slow, Hears
      <4> QED BY <1>2, <3>1, <4>3
    <3>5. CASE ~y.attacker
      <4>1. ~z.attacker
        <5>1. z = UpdateWrite(y, y.pend # <<>>)
          BY <3>5
        <5>2. y \in Client
          <6>1. cl[c].act + 1 = 1
            BY <2>1 DEF Sound, Calm, Counted
          <6>2. y = [cl[c] EXCEPT !.state = "Active", !.act = 1]
            BY <6>1
          <6> HIDE DEF y
          <6> QED BY <2>1, <6>2, OpenedType
        <5> HIDE DEF y
        <5>3. \/ z = y
              \/ z = [y EXCEPT !.reg = Interest(~y.attacker, y.pend # <<>>), !.want = y.pend # <<>>]
          BY <5>1 DEF UpdateWrite
        <5> QED BY ONLY <3>5, <5>2, <5>3 DEF Client
      <4> HIDE DEF z
      <4> QED BY <1>3, <3>1, <4>1
    <3> QED BY <3>4, <3>5
  <2>3. CASE opt.mode = "game"
    <3>1. PICK y \in SendBytes(cl[c], Msg("JOIN", 0)) :
             Event(c, UpdateWrite([y EXCEPT !.state = "Joining"], y.pend # <<>>))
      BY <1>7, <2>3 DEF OnConnected
    <3> DEFINE z == UpdateWrite([y EXCEPT !.state = "Joining"], y.pend # <<>>)
    <3>2. Sound(z) /\ z.state = "Joining"
      BY <1>0, <2>1, <2>3, ConnectedGame
    <3> HIDE DEF z
    <3>3. Event(c, z)
      BY <3>1 DEF z
    <3> QED BY <1>3, <3>2, <3>3
  <2> QED BY <1>0, <2>2, <2>3, OptionAssumption
<1>8. ASSUME NEW c \in Clients, OnReady(c)
      PROVE  Moved
  <2> DEFINE x == cl[c]
  <2>1. Sound(x) /\ x.fd /\ x.state \notin {"Dead", "Connecting"} /\ x \in Client
    BY <1>0, <1>8 DEF OnReady
  <2>2. x.state # "Idle"
    BY <2>1 DEF Sound, Calm, Linked
  <2>3. PICK y \in (IF "OUT" \in batch[c] THEN FlushPend(x) ELSE {x}) :
          LET z == IF "OUT" \in batch[c] /\ y.pend = <<>> THEN UpdateWrite(y, FALSE) ELSE y
          IN  \/ "IN" \notin batch[c] /\ Event(c, z)
              \/ "IN" \in batch[c] /\ \E w \in OnReadable(z) : Event(c, Deafened(w))
    BY <1>8 DEF OnReady
  <2>4. Sound(y) /\ y.state \notin {"Idle", "Connecting"}
    BY <1>0, <2>1, <2>2, FlushPendSound
  <2> DEFINE z == IF "OUT" \in batch[c] /\ y.pend = <<>> THEN UpdateWrite(y, FALSE) ELSE y
  <2>5. Sound(z) /\ z.state = y.state /\ z.attacker = y.attacker
    <3>1. CASE y.pend = <<>>
      <4>1. Steady(y) /\ (y.pend # <<>>) = FALSE
        BY <2>4, <3>1 DEF Sound, Steady
      <4>2. Sound(UpdateWrite(y, y.pend # <<>>)) /\ Alike(y, UpdateWrite(y, y.pend # <<>>))
        BY <2>4, <4>1, UpdateWriteSound
      <4>3. Sound(UpdateWrite(y, FALSE)) /\ Alike(y, UpdateWrite(y, FALSE))
        BY <4>1, <4>2
      <4> QED BY <2>4, <4>3 DEF Alike
    <3>2. CASE y.pend # <<>>
      BY <2>4, <3>2
    <3> QED BY <3>1, <3>2
  <2>6. \/ "IN" \notin batch[c] /\ Event(c, z)
        \/ "IN" \in batch[c] /\ \E w \in OnReadable(z) : Event(c, Deafened(w))
    BY <2>3
  <2>7. Reader(x) => z.state = "Dead" \/ Asked(x, z)
    <3> SUFFICES ASSUME Reader(x) PROVE z.state = "Dead" \/ Asked(x, z)
      OBVIOUS
    <3>1. CASE "OUT" \in batch[c]
      <4>1. y \in FlushPend(x) /\ z = IF y.pend = <<>> THEN UpdateWrite(y, FALSE) ELSE y
        BY <2>3, <3>1
      <4>2. Exact(x)
        BY <1>0
      <4> HIDE DEF x, z
      <4> QED BY <1>0, <2>1, <4>1, <4>2, ReaderFlushes
    <3>2. CASE "OUT" \notin batch[c]
      <4>1. z = x
        BY <2>3, <3>2
      <4>2. Exact(x)
        BY <1>0
      <4> HIDE DEF x, z
      <4> QED BY <4>1, <4>2 DEF Asked, Exact
    <3> QED BY <3>1, <3>2
  <2>8. Slow(z) /\ z.state = "Active" => Reader(x)
    <3>1. y.state = "Dead" \/ (y.state = x.state /\ y.attacker = x.attacker)
      <4>1. CASE "OUT" \in batch[c]
        <5>1. Fits(x) /\ y \in FlushPend(x)
          BY <1>0, <2>3, <4>1 DEF Calm
        <5>2. Kill(x).state = "Dead"
          BY <1>0, KillSound
        <5> HIDE DEF x
        <5> QED BY <2>1, <5>1, <5>2, FlushPendEffect DEF Alike
      <4>2. CASE "OUT" \notin batch[c]
        BY <2>3, <4>2
      <4> QED BY <4>1, <4>2
    <3> HIDE DEF x, z
    <3> QED BY <2>5, <3>1 DEF Slow, Reader
  <2> HIDE DEF z
  <2>9. CASE Event(c, z)
    <3>1. Moves(x, z)
      <4>1. CASE Reader(x)
        <5> HIDE DEF x
        <5> QED BY <2>7, <4>1, AskedMoves, NoReader
      <4>2. CASE ~Reader(x)
        <5>1. ~Reader(z)
          BY <2>8, <4>2 DEF Reader
        <5> HIDE DEF x
        <5> QED BY <5>1 DEF Moves
      <4> QED BY <4>1, <4>2
    <3> QED BY <1>2, <2>9, <3>1
  <2>10. ASSUME NEW w \in OnReadable(z), Event(c, Deafened(w))
         PROVE  Moved
    <3> DEFINE v == Deafened(w)
    <3>1. Sound(w)
      BY <1>0, <2>4, <2>5, OnReadableSound
    <3>2. w \in Client
      BY <3>1 DEF Sound, Calm
    <3>3. \/ v = w /\ ~Reader(w)
          \/ v = [w EXCEPT !.reg = Interest(FALSE, w.want), !.nextRecv = TRUE] /\ Reader(w)
      BY DEF Deafened, Reader
    <3> HIDE DEF v
    <3>4. CASE ~Reader(w)
      <4>1. ~Reader(v)
        BY <3>3, <3>4
      <4>2. Moves(x, v)
        BY <4>1 DEF Moves
      <4> QED BY <1>2, <2>10, <4>2 DEF v
    <3>5. CASE Reader(w)
      <4>1. v.nextRecv = TRUE /\ v.want = w.want /\ v.pend = w.pend
        BY <3>2, <3>3, <3>5 DEF Client
      <4>2. w.want <=> w.pend # <<>>
        <5>1. Sound(z) /\ z.state # "Idle" /\ z.state # "Connecting"
          BY <2>4, <2>5
        <5>2. opt.mode = "echo"
          BY <1>0, <3>1, <3>5, OptionAssumption DEF Sound, Calm, Reader, Slow
        <5>3. z.state = "Active" /\ z.attacker = w.attacker /\ w.pend = z.pend /\ w.want = z.want
          BY <1>0, <3>5, <5>1, <5>2, ReaderReads DEF Reader
        <5>4. Asked(x, z)
          BY <2>7, <2>8, <3>5, <5>3 DEF Reader, Slow
        <5> QED BY <5>3, <5>4 DEF Asked
      <4>3. Moves(x, v)
        BY <4>1, <4>2 DEF Moves, Exact, Turned, Hears
      <4> QED BY <1>2, <2>10, <4>3 DEF v
    <3> QED BY <3>4, <3>5
  <2> QED BY <2>6, <2>9, <2>10
<1>9. ASSUME NEW c \in Clients, ScanAttack(c)
      PROVE  Moved
  <2> DEFINE x == cl[c]
  <2>1. Sound(x) /\ x.state = "Active" /\ x.attacker /\ x \in Client /\ Exact(x)
    BY <1>0, <1>9 DEF ScanAttack
  <2>2. \A y : y = x \/ y = [x EXCEPT !.reg = Interest(TRUE, x.want), !.nextRecv = FALSE]
               => Sound(y) /\ y.state = "Active" /\ y.echoSeq = x.echoSeq
    <3> HIDE DEF x
    <3> QED BY <2>1, DeafSound
  <2>3. PICK y \in {x} \cup (IF opt.slow /\ x.nextRecv THEN {Listening(x)} ELSE {}) :
           \E z \in (IF MaySend(x) THEN SendEcho(y) ELSE {y}) : Scan(c, z)
    BY <1>9 DEF ScanAttack
  <2>4. PICK z \in (IF MaySend(x) THEN SendEcho(y) ELSE {y}) : Scan(c, z)
    BY <2>3
  <2>5. CASE ~opt.slow
    <3>1. ~Reader(z)
      BY <2>5 DEF Reader, Slow
    <3>2. Moves(x, z)
      BY <3>1 DEF Moves
    <3> QED BY <1>2, <2>4, <3>2
  <2>6. CASE opt.slow
    <3>1. \/ y = x
          \/ y = [x EXCEPT !.reg = Interest(TRUE, x.want), !.nextRecv = FALSE]
      BY <2>3 DEF Listening
    <3>2. Sound(y) /\ y.state = "Active" /\ y.echoSeq = x.echoSeq
      BY <2>2, <3>1, Zenon
    <3>3. /\ y.attacker = x.attacker /\ y.pend = x.pend /\ y.want = x.want
          /\ y = x \/ "IN" \in y.reg
      <4>1. "IN" \in Interest(TRUE, x.want)
        BY DEF Interest
      <4> HIDE DEF x
      <4> QED BY <2>1, <3>1, <4>1 DEF Client
    <3>4. Reader(x) /\ Reader(y) /\ Exact(y)
      BY <2>1, <2>6, <3>2, <3>3 DEF Reader, Slow, Exact
    <3>5. z.state = "Dead" \/ Asked(y, z)
      <4>1. CASE MaySend(x)
        <5> HIDE DEF x
        <5> QED BY <1>0, <2>4, <3>2, <3>4, <4>1, ReaderSends DEF MaySend
      <4>2. CASE ~MaySend(x)
        <5>1. z = y
          BY <2>4, <4>2
        <5> HIDE DEF x
        <5> QED BY <3>4, <5>1 DEF Asked, Exact
      <4> QED BY <4>1, <4>2
    <3>6. Moves(x, z)
      <4> HIDE DEF x
      <4> QED BY <3>3, <3>4, <3>5, NoReader DEF Asked, Moves, Exact, Turned, Hears
    <3> QED BY <1>2, <2>4, <3>6
  <2> QED BY <2>5, <2>6
<1>10. ASSUME NEW c \in Clients, ScanSend(c)
       PROVE  Moved
  <2> DEFINE x == cl[c]
  <2>1. Sound(x) /\ x.state = "Active" /\ x.fd /\ x.echoSeq \in 0 .. MaxEcho /\ ~x.attacker
    BY <1>0, <1>10 DEF ScanSend, Calm, Linked, Client
  <2>2. PICK y : /\ \/ y \in SendEcho(x) /\ opt.mode = "echo" /\ MaySend(x) /\ Scan(c, y)
                    \/ /\ opt.mode = "game" /\ y \in SendBytes(x, Msg("INPUT", 0))
                       /\ Scan(c, IF y.state = "Dead" THEN y ELSE Armed(y))
    BY <1>10 DEF ScanSend
  <2>3. CASE y \in SendEcho(x) /\ opt.mode = "echo" /\ MaySend(x) /\ Scan(c, y)
    <3>1. y.state = "Dead" \/ ~y.attacker
      BY <1>0, <2>1, <2>3, EchoSender DEF MaySend
    <3> QED BY <1>3, <2>3, <3>1
  <2>4. CASE /\ opt.mode = "game" /\ y \in SendBytes(x, Msg("INPUT", 0))
             /\ Scan(c, IF y.state = "Dead" THEN y ELSE Armed(y))
    <3>1. \/ Sound(y) /\ y.state = "Dead"
          \/ Steady(y) /\ y.state = "Active"
      BY <1>0, <2>1, <2>4, SendGameSteady
    <3>2. CASE y.state = "Dead"
      BY <1>3, <2>4, <3>2
    <3>3. CASE y.state # "Dead"
      <4>1. Sound(Armed(y)) /\ Scan(c, Armed(y))
        BY <2>4, <3>1, <3>3, ArmedSound
      <4>2. ~Armed(y).attacker
        BY <2>4, <4>1 DEF Sound, Calm
      <4> QED BY <1>3, <4>1, <4>2
    <3> QED BY <3>2, <3>3
  <2> QED BY <2>2, <2>3, <2>4
<1> QED BY <1>1, <1>4, <1>5, <1>6, <1>7, <1>8, <1>9, <1>10 DEF LoopStep

(* What the network and the server do to a client is no move of it.             *)
LEMMA OutsideQuiet ==
    ASSUME IInv, NEW c \in Clients, Handshake(c) \/ Serve(c) \/ Cut(c)
    PROVE  \E x : Quiet(cl[c], x) /\ cl' = [cl EXCEPT ![c] = x] /\ opt' = opt
<1> DEFINE x == cl[c]
<1>1. x \in Client
  BY DEF IInv
<1>2. \A l : Quiet(x, [x EXCEPT !.link = l])
  BY <1>1 DEF Quiet, Client
<1>3. \A o, i : Quiet(x, [x EXCEPT !.out = o, !.in = i])
  BY <1>1 DEF Quiet, Client
<1>4. \A o : Quiet(x, [x EXCEPT !.out = o])
  BY <1>1 DEF Quiet, Client
<1> DEFINE Changed(y) == \/ \E l : y = [x EXCEPT !.link = l]
                         \/ \E o, i : y = [x EXCEPT !.out = o, !.in = i]
                         \/ \E o : y = [x EXCEPT !.out = o]
<1>5. \E y : Outside(c, y) /\ Changed(y)
  <2>1. CASE Handshake(c) \/ Cut(c)
    BY <2>1 DEF Handshake, Cut
  <2>2. CASE Serve(c)
    <3> DEFINE Answer(msg) == IF Len(x.in) + 2 > RingCap
                                THEN [x EXCEPT !.link = "down"]
                                ELSE [x EXCEPT !.out = SubSeq(@, 3, Len(@)), !.in = @ \o msg]
    <3>1. \A msg : Changed(Answer(msg))
      OBVIOUS
    <3>2. Changed([x EXCEPT !.out = SubSeq(@, 3, Len(@))])
      OBVIOUS
    <3>3. \/ \E msg : Outside(c, Answer(msg))
          \/ Outside(c, [x EXCEPT !.out = SubSeq(@, 3, Len(@))])
      BY <2>2 DEF Serve
    <3> HIDE DEF Changed, Answer
    <3> QED BY <3>1, <3>2, <3>3
  <2> QED BY <2>1, <2>2
<1> QED BY <1>2, <1>3, <1>4, <1>5 DEF Outside

(* A reader loses its ear in no other step.                                     *)
LEMMA StepMoves == IInv /\ ReaderInv /\ [Next]_vars => Moved /\ opt' = opt
<1> SUFFICES ASSUME IInv, ReaderInv, [Next]_vars PROVE Moved /\ opt' = opt
  OBVIOUS
<1>0. \A c \in Clients : Exact(cl[c])
  BY DEF ReaderInv
<1>1. CASE LoopStep
  <2>1. opt' = opt
    BY <1>1 DEF LoopStep, RampDone, EpollWait, Ramp, ScanReconnect, Scan, OnNothing, OnHup,
                OnConnected, OnReady, ScanChurn, ScanAttack, ScanSend, ScanQuiet, Event
  <2> QED BY <1>1, <2>1, LoopMoves
<1>2. CASE Finish
  <2>1. \A c \in Clients : cl'[c] = Kill(cl[c]) /\ Kill(cl[c]).state = "Dead"
    <3>1. \A c \in Clients : Calm(cl[c]) /\ opt \in Options
      BY DEF IInv, Sound
    <3> QED BY <1>2, <3>1, KillSound DEF Finish
  <2>2. \A c \in Clients : Moves(cl[c], cl'[c])
    BY <2>1, NoReader
  <2> QED BY <1>2, <2>2 DEF Finish, Moved
<1>3. ASSUME NEW c \in Clients, Handshake(c) \/ Serve(c) \/ Cut(c)
      PROVE  Moved /\ opt' = opt
  <2>1. PICK x : Quiet(cl[c], x) /\ cl' = [cl EXCEPT ![c] = x] /\ opt' = opt
    BY <1>3, OutsideQuiet
  <2>2. Moves(cl[c], x)
    BY <1>0, <2>1, QuietMoves
  <2> QED BY <2>1, <2>2, OneMoves
<1>4. CASE UNCHANGED vars
  <2>1. \A c \in Clients : Quiet(cl[c], cl'[c])
    BY <1>4 DEF vars, Quiet
  <2>2. \A c \in Clients : Moves(cl[c], cl'[c])
    BY <1>0, <2>1, QuietMoves
  <2> QED BY <1>4, <2>2 DEF vars, Moved
<1> QED BY <1>1, <1>2, <1>3, <1>4 DEF Next

(* No step begins or ends the holding back of a reader that has no timer set    *)
(* after it.                                                                    *)
NoTurn == \A c \in Clients : ~Turned(cl[c], cl'[c])

(* The finding of DeafReader, exactly.  A slow reader that listens, and whose   *)
(* timer is therefore not set, is made deaf by the step in which it begins or   *)
(* ends to hold bytes back, for UpdateWrite asks for the events of an attacker   *)
(* without EPOLLIN (dummy_main.cpp:631-640); in the runs that have no such step, *)
(* and in no others, it always reads again.                                     *)
THEOREM DeafExactly == Spec => ([]SlowReaderReturns <=> [][NoTurn]_vars)
<1>1. Init => ReaderInv /\ SlowReaderReturns
  <2> SUFFICES ASSUME Init, NEW c \in Clients PROVE ~Reader(cl[c])
    BY DEF ReaderInv, SlowReaderReturns, Exact, Reader
  <2> QED BY DEF Init, NewClient, Reader
<1>2. IInv /\ ReaderInv /\ [Next]_vars => ReaderInv'
  <2> SUFFICES ASSUME IInv, ReaderInv, [Next]_vars, NEW c \in Clients PROVE Exact(cl[c])'
    BY DEF ReaderInv
  <2>1. Moves(cl[c], cl'[c]) /\ opt' = opt
    BY StepMoves DEF Moved
  <2> QED BY <2>1 DEF Moves, Exact, Reader, Slow
<1>3. IInv /\ ReaderInv /\ [Next]_vars /\ SlowReaderReturns /\ [NoTurn]_vars
        => SlowReaderReturns'
  <2> SUFFICES ASSUME IInv, ReaderInv, [Next]_vars, SlowReaderReturns, [NoTurn]_vars,
                      NEW c \in Clients, Reader(cl[c])'
               PROVE  "IN" \in cl'[c].reg \/ cl'[c].nextRecv
    BY DEF SlowReaderReturns, Reader, Slow
  <2>1. Moves(cl[c], cl'[c]) /\ opt' = opt
    BY StepMoves DEF Moved
  <2>2. Reader(cl[c]) => Hears(cl[c])
    BY DEF SlowReaderReturns, Reader, Hears
  <2>3. Reader(cl'[c])
    BY <2>1 DEF Reader, Slow
  <2>4. CASE NoTurn
    BY <2>1, <2>2, <2>3, <2>4 DEF NoTurn, Moves, Hears
  <2>5. CASE UNCHANGED vars
    <3>1. cl' = cl
      BY <2>5 DEF vars
    <3> QED BY <2>2, <2>3, <3>1 DEF Hears
  <2> QED BY <2>4, <2>5
<1>4. IInv /\ ReaderInv /\ [Next]_vars /\ SlowReaderReturns' => [NoTurn]_vars
  <2> SUFFICES ASSUME IInv, ReaderInv, [Next]_vars, SlowReaderReturns',
                      NEW c \in Clients, Turned(cl[c], cl'[c])
               PROVE  FALSE
    BY DEF NoTurn
  <2>1. Moves(cl[c], cl'[c]) /\ opt' = opt
    BY StepMoves DEF Moved
  <2>2. Reader(cl'[c]) /\ ~Hears(cl'[c])
    BY <2>1 DEF Turned, Moves
  <2>3. "IN" \in cl'[c].reg \/ cl'[c].nextRecv
    BY <2>1, <2>2 DEF SlowReaderReturns, Reader, Slow
  <2> QED BY <2>2, <2>3 DEF Hears
<1>5. Spec => []IInv
  BY AlwaysSound
<1> QED BY <1>1, <1>2, <1>3, <1>4, <1>5, PTL DEF Spec

================================================================================
