--------------------------- MODULE LifecycleProofs -----------------------------
(* Theorems about Lifecycle, for every number of epoll and game workers and     *)
(* every descriptor limit.                                                      *)
EXTENDS Lifecycle, FiniteSetTheorems, WellFoundedInduction, TLAPS

(* A non-empty set of numbers has a least one: the finite sets 0 .. x are well  *)
(* founded under strict inclusion.                                              *)
LEMMA LeastNat ==
    ASSUME NEW S \in SUBSET Nat, S # {}
    PROVE  \E x \in S : \A y \in S : x <= y
<1> DEFINE T == {0 .. x : x \in S}
<1>1. T \subseteq FiniteSubsetsOf(Nat)
  <2>1. SUFFICES ASSUME NEW x \in S
                 PROVE  0 .. x \in FiniteSubsetsOf(Nat)
    OBVIOUS
  <2>2. 0 .. x \in SUBSET Nat /\ x \in Int
    OBVIOUS
  <2>3. IsFiniteSet(0 .. x)
    BY <2>2, FS_Interval
  <2> QED BY <2>2, <2>3 DEF FiniteSubsetsOf
<1>2. \E u \in T : \A v \in T : ~ (<<v, u>> \in StrictSubsetOrdering(Nat))
  <2>1. T # {} OBVIOUS
  <2> HIDE DEF T
  <2> QED BY <1>1, <2>1, WFMin, FS_StrictSubsetOrderingWellFounded
<1>3. PICK x \in S : \A y \in S : ~ (<<0 .. y, 0 .. x>> \in StrictSubsetOrdering(Nat))
  BY <1>2
<1>4. ASSUME NEW y \in S, y < x
      PROVE  FALSE
  <2>1. 0 .. y \subseteq 0 .. x
    BY <1>4
  <2>2. x \in 0 .. x /\ x \notin 0 .. y
    BY <1>4
  <2>3. 0 .. y \in SUBSET Nat /\ 0 .. x \in SUBSET Nat
    OBVIOUS
  <2> DEFINE p == <<0 .. y, 0 .. x>>
  <2>4. p \in (SUBSET Nat) \X (SUBSET Nat) /\ p[1] \subseteq p[2] /\ p[1] # p[2]
    BY <2>1, <2>2, <2>3, Zenon
  <2>5. p \in StrictSubsetOrdering(Nat)
    BY <2>4 DEF StrictSubsetOrdering
  <2> QED BY <1>3, <2>5
<1> QED BY <1>4

(* The kernel's lowest number is a free one (socket, accept).                   *)
LEMMA LowestIsFree ==
    ASSUME Free # {}
    PROVE  Lowest \in Free
<1>1. Free \in SUBSET Nat
  BY CountAssumption DEF Free, Fds
<1>2. \E x \in Free : \A y \in Free : x <= y
  BY <1>1, LeastNat
<1> QED BY <1>2 DEF Lowest, Min

(* So is the next one, when there are two.                                      *)
LEMMA NextIsFree ==
    ASSUME Cardinality(Free) > 1
    PROVE  /\ Free # {}
           /\ \A n \in Free : Min(Free \ {n}) \in Free \ {n}
<1>1. Free \in SUBSET Nat /\ IsFiniteSet(Free)
  <2>1. Free \in SUBSET (0 .. MaxFd) /\ IsFiniteSet(0 .. MaxFd)
    BY CountAssumption, FS_Interval DEF Free, Fds
  <2>2. IsFiniteSet(Free)
    BY <2>1, FS_Subset
  <2>3. 0 .. MaxFd \subseteq Nat
    BY CountAssumption
  <2> QED BY <2>1, <2>2, <2>3
<1>2. Free # {}
  BY FS_EmptySet
<1>3. ASSUME NEW n \in Free
      PROVE  Min(Free \ {n}) \in Free \ {n}
  <2>1. Free \ {n} # {}
    <3>1. SUFFICES ASSUME Free \ {n} = {}
                   PROVE  FALSE
      OBVIOUS
    <3>2. Free = {n}
      BY <3>1
    <3> QED BY <3>2, FS_Singleton
  <2>2. \E x \in Free \ {n} : \A y \in Free \ {n} : x <= y
    <3>1. Free \ {n} \in SUBSET Nat
      BY <1>1
    <3> QED BY <2>1, <3>1, LeastNat
  <2> QED BY <2>2 DEF Min
<1> QED BY <1>2, <1>3

(* NetService::Start counts its workers: the next one is a worker.              *)
LEMMA NextNetIsWorker ==
    ASSUME NextNet <= NetCount
    PROVE  <<"net", NextNet>> \in NetThreads
<1> DEFINE S == {t \in NetThreads : thread[t] # "none"}
<1>1. IsFiniteSet(NetThreads)
  <2>1. IsFiniteSet({"net"})
    BY FS_Singleton
  <2>2. NetCount \in Int /\ 1 \in Int
    BY CountAssumption
  <2>3. IsFiniteSet(1 .. NetCount)
    BY <2>2, FS_Interval
  <2> QED BY <2>1, <2>3, FS_Product DEF NetThreads
<1>2. IsFiniteSet(S)
  <2>1. S \in SUBSET NetThreads
    OBVIOUS
  <2> QED BY <1>1, <2>1, FS_Subset
<1>3. Cardinality(S) \in Nat
  BY <1>2, FS_CardinalityType
<1>4. NextNet = Cardinality(S) + 1
  BY DEF NextNet
<1>5. NextNet \in 1 .. NetCount
  <2> HIDE DEF S
  <2> QED BY <1>3, <1>4, CountAssumption
<1> QED BY <1>5 DEF NetThreads

--------------------------------------------------------------------------------
(* The lists of calls.                                                          *)

(* What Stop leaves to be done once _running of t is false.                     *)
Rest(t) == [i \in 1 .. Len(StopCalls(t)) |-> [Stop(t) EXCEPT !.do = StopCalls(t)[i]]]

(* A worker is joined; the metrics thread is woken, joined and its listener     *)
(* closed, in that order (Server::Stop).                                        *)
LEMMA RestShape ==
    ASSUME NEW t \in Threads
    PROVE  /\ Rest(t) \in Seq(Calls)
           /\ \A i \in 1 .. Len(Rest(t)) : Rest(t)[i].thread = t
           /\ t = MS => /\ Len(Rest(t)) = 3
                        /\ Rest(t)[1].do = "shutdown" /\ Rest(t)[2].do = "join" /\ Rest(t)[3].do = "close"
           /\ t # MS => Len(Rest(t)) = 1 /\ Rest(t)[1].do = "join"
<1>1. CASE t = MS
  <2>1. StopCalls(t) = <<"shutdown", "join", "close">>
    BY <1>1 DEF StopCalls
  <2>2. Rest(t) = [i \in 1 .. 3 |-> [do |-> <<"shutdown", "join", "close">>[i], thread |-> t, object |-> "ms"]]
    BY <2>1 DEF Rest, Stop
  <2>3. Rest(t) \in Seq(Calls) /\ Len(Rest(t)) = 3
    BY <2>2 DEF Calls, Objects
  <2> QED BY <1>1, <2>2, <2>3
<1>2. CASE t # MS
  <2>1. StopCalls(t) = <<"join">>
    BY <1>2 DEF StopCalls
  <2>2. Rest(t) = [i \in 1 .. 1 |-> [do |-> "join", thread |-> t, object |-> "ms"]]
    BY <2>1 DEF Rest, Stop
  <2>3. Rest(t) \in Seq(Calls) /\ Len(Rest(t)) = 1
    BY <2>2 DEF Calls, Objects
  <2> QED BY <1>2, <2>2, <2>3
<1> QED BY <1>1, <1>2

(* What a service's Stop adds to the list is calls.                             *)
LEMMA StopsType ==
    /\ Stops("net", NetCount) \in Seq(Calls) /\ Stops("game", GameCount) \in Seq(Calls)
    /\ <<Stop(MS)>> \in Seq(Calls)
<1>1. \A t \in Threads : Stop(t) \in Calls
  BY DEF Stop, Calls, Objects
<1>2. \A i \in 1 .. NetCount : Stop(<<"net", i>>) \in Calls
  BY <1>1 DEF Threads, NetThreads
<1>3. \A i \in 1 .. GameCount : Stop(<<"game", i>>) \in Calls
  BY <1>1 DEF Threads, GameThreads
<1>4. Stop(MS) \in Calls
  BY <1>1 DEF Threads
<1> QED BY <1>2, <1>3, <1>4, CountAssumption DEF Stops

(* So is what the destruction of a local adds.                                  *)
LEMMA FreesType ==
    ASSUME NEW o \in Objects, NEW built
    PROVE  Frees(o, built) \in Seq(Calls)
<1>1. Freed(o) \in Calls
  BY DEF Freed, Calls, Threads
<1> QED BY <1>1 DEF Frees

(* The destructors of main's locals are a list of calls (main.cpp:118).         *)
LEMMA DestructorsType ==
    ASSUME NEW built
    PROVE  Destructors(built) \in Seq(Calls)
<1>1. \A o \in Objects : Frees(o, built) \in Seq(Calls)
  BY FreesType
<1> QED BY <1>1, StopsType DEF Destructors, Objects

(* So are the calls at the end of main (main.cpp:160).                          *)
LEMMA ExplicitStopsType == ExplicitStops \in Seq(Calls)
BY StopsType DEF ExplicitStops

--------------------------------------------------------------------------------
(* What a start does to the threads and the descriptors.                        *)

(* Who can have opened a descriptor.                                            *)
FdOwners == Threads \cup {Session(t) : t \in NetThreads} \cup {Nobody, MS, Scrape, Leaked}

(* EpollWorker::Start takes only free descriptors, for the worker or, when it   *)
(* fails, for nobody who would ever close them.                                 *)
LEMMA StartNetEffect ==
    ASSUME TypeOK, StartNetWorker
    PROVE  \E t \in NetThreads :
               /\ main = "net.Start" /\ alive' = alive \cup {"net"} /\ UNCHANGED <<listenFd, shut, conn>>
               /\ fds' \in [Fds -> FdOwners]
               /\ \/ /\ Fail /\ UNCHANGED <<thread, running>>
                     /\ \A n \in Fds : fds'[n] = fds[n] \/ (fds[n] = Nobody /\ fds'[n] = Leaked)
                  \/ /\ running' = [running EXCEPT ![t] = TRUE]
                     /\ thread' = [thread EXCEPT ![t] = "loop"]
                     /\ UNCHANGED <<main, todo, exitCode>>
                     /\ \A n \in Fds : fds'[n] = fds[n] \/ (fds[n] = Nobody /\ fds'[n] = t)
<1> DEFINE t  == <<"net", NextNet>>
           ep == Lowest
           ls == Min(Free \ {ep})
<1>1. t \in NetThreads /\ t \in Threads
  BY NextNetIsWorker DEF StartNetWorker, Threads
<1>2. Free # {} => ep \in Free
  BY LowestIsFree
<1>3. Cardinality(Free) > 1 => ep \in Free /\ ls \in Free
  BY <1>2, NextIsFree
<1>4. fds \in [Fds -> FdOwners] /\ {t, Leaked} \subseteq FdOwners
  BY <1>1 DEF TypeOK, FdOwners
<1> HIDE DEF t, ep, ls
<1>5. /\ main = "net.Start" /\ alive' = alive \cup {"net"} /\ UNCHANGED <<listenFd, shut, conn>>
      /\ \/ /\ Fail /\ UNCHANGED <<thread, running>>
            /\ \/ UNCHANGED fds
               \/ Free # {} /\ fds' = [fds EXCEPT ![ep] = Leaked]
               \/ Cardinality(Free) > 1 /\ fds' = [fds EXCEPT ![ep] = Leaked, ![ls] = Leaked]
         \/ /\ Cardinality(Free) > 1
            /\ fds' = [fds EXCEPT ![ep] = t, ![ls] = t]
            /\ running' = [running EXCEPT ![t] = TRUE]
            /\ thread' = [thread EXCEPT ![t] = "loop"]
            /\ UNCHANGED <<main, todo, exitCode>>
  BY Zenon DEF StartNetWorker, t, ep, ls
<1>6. \A n \in Free : n \in Fds /\ fds[n] = Nobody
  BY DEF Free
<1>7. CASE Fail /\ UNCHANGED <<thread, running, fds>>
  BY <1>1, <1>4, <1>5, <1>7 DEF t
<1>8. CASE Fail /\ UNCHANGED <<thread, running>> /\ Free # {} /\ fds' = [fds EXCEPT ![ep] = Leaked]
  <2>1. fds' \in [Fds -> FdOwners] /\ \A n \in Fds : fds'[n] = fds[n] \/ (fds[n] = Nobody /\ fds'[n] = Leaked)
    BY <1>2, <1>4, <1>6, <1>8
  <2> QED BY <1>1, <1>5, <1>8, <2>1 DEF t
<1>9. CASE Fail /\ UNCHANGED <<thread, running>> /\ Cardinality(Free) > 1
           /\ fds' = [fds EXCEPT ![ep] = Leaked, ![ls] = Leaked]
  <2>1. fds' \in [Fds -> FdOwners] /\ \A n \in Fds : fds'[n] = fds[n] \/ (fds[n] = Nobody /\ fds'[n] = Leaked)
    BY <1>3, <1>4, <1>6, <1>9
  <2> QED BY <1>1, <1>5, <1>9, <2>1 DEF t
<1>10. CASE Cardinality(Free) > 1 /\ fds' = [fds EXCEPT ![ep] = t, ![ls] = t]
            /\ running' = [running EXCEPT ![t] = TRUE] /\ thread' = [thread EXCEPT ![t] = "loop"]
            /\ UNCHANGED <<main, todo, exitCode>>
  <2>1. fds' \in [Fds -> FdOwners] /\ \A n \in Fds : fds'[n] = fds[n] \/ (fds[n] = Nobody /\ fds'[n] = t)
    BY <1>3, <1>4, <1>6, <1>10
  <2> QED BY <1>1, <1>5, <1>10, <2>1 DEF t
<1> QED BY <1>5, <1>7, <1>8, <1>9, <1>10

(* Every variable keeps its type.                                               *)
THEOREM LifecycleTyped == Spec => []TypeOK
<1>1. Init => TypeOK
  BY CountAssumption DEF Init, TypeOK, Places, Objects, Threads, Fds, None
<1>2. TypeOK /\ [Next]_vars => TypeOK'
  <2> SUFFICES ASSUME TypeOK, [Next]_vars
               PROVE  TypeOK'
    OBVIOUS
  <2> USE DEF TypeOK
  <2>a. MS \in Threads /\ NetThreads \subseteq Threads /\ GameThreads \subseteq Threads
    BY DEF Threads
  <2>b. Fail => todo' \in Seq(Calls) /\ main' = "down" /\ exitCode' = 1
    BY DestructorsType DEF Fail, GoDown
    <2>1. CASE StartMetrics
    <3>1. CASE Fail /\ UNCHANGED <<thread, running, fds, listenFd>>
      BY <2>b, <2>1, <3>1 DEF StartMetrics
    <3>2. CASE ~TableFull /\ main' = "Init"
      <4>1. Lowest \in Fds
        BY <3>2, LowestIsFree DEF TableFull, Free
      <4> QED BY <2>a, <2>1, <3>2, <4>1 DEF StartMetrics, Places, Fail, GoDown
    <3> QED BY <2>1, <3>1, <3>2 DEF StartMetrics
  <2>2. CASE InitPools
    BY <2>b, <2>2 DEF InitPools, Objects, threadVars
  <2>3. CASE StartNetWorker
    <3>1. PICK t \in NetThreads :
               /\ alive' = alive \cup {"net"} /\ UNCHANGED <<listenFd, shut, conn>>
               /\ fds' \in [Fds -> FdOwners]
               /\ \/ Fail /\ UNCHANGED <<thread, running>>
                  \/ /\ running' = [running EXCEPT ![t] = TRUE]
                     /\ thread' = [thread EXCEPT ![t] = "loop"]
                     /\ UNCHANGED <<main, todo, exitCode>>
      BY <2>3, StartNetEffect
    <3>2. CASE Fail /\ UNCHANGED <<thread, running>>
      BY <2>b, <3>1, <3>2 DEF FdOwners, Objects
    <3>3. CASE running' = [running EXCEPT ![t] = TRUE] /\ thread' = [thread EXCEPT ![t] = "loop"]
               /\ UNCHANGED <<main, todo, exitCode>>
      BY <2>a, <3>1, <3>3 DEF FdOwners, Objects, Places
    <3> QED BY <3>1, <3>2, <3>3
  <2>4. CASE NetStarted
    BY <2>4 DEF NetStarted, Objects, threadVars
  <2>5. CASE StartGameWorkers
    <3>1. CASE Fail /\ UNCHANGED <<thread, running>>
      BY <2>b, <2>5, <3>1 DEF StartGameWorkers
    <3>2. CASE main' = "serve"
      BY <2>5, <3>2 DEF StartGameWorkers, Fail, GoDown, Places
    <3> QED BY <2>5, <3>1, <3>2 DEF StartGameWorkers
  <2>6. CASE RunSecsOver
    <3>1. todo' \in Seq(Calls) /\ main' = "down" /\ exitCode' = 0
      BY <2>6, DestructorsType, ExplicitStopsType DEF RunSecsOver, GoDown
    <3> QED BY <2>6, <3>1 DEF RunSecsOver, threadVars
  <2>7. CASE StopSignal
    <3>1. todo \in Seq(Calls) /\ todo # <<>> /\ Call \in Calls /\ Tail(todo) \in Seq(Calls)
      BY <2>7 DEF StopSignal, Call
    <3>2. Call.thread \in Threads
      BY <3>1 DEF Calls
    <3>3. todo' = IF running[Call.thread] THEN Rest(Call.thread) \o Tail(todo) ELSE Tail(todo)
      BY <2>7 DEF StopSignal, Rest
    <3>4. todo' \in Seq(Calls)
      BY <3>1, <3>2, <3>3, RestShape
    <3> QED BY <2>7, <3>2, <3>4 DEF StopSignal, threadVars
  <2>8. CASE StopShutdown
    BY <2>8 DEF StopShutdown, Shutdown, threadVars
  <2>9. CASE StopJoin
    BY <2>9 DEF StopJoin, threadVars
  <2>10. CASE StopClose
    BY <2>10 DEF StopClose, Close
  <2>11. CASE Destroy
    BY <2>11 DEF Destroy, threadVars
  <2>12. CASE Exit
    BY <2>12 DEF Exit, threadVars
  <2>13. CASE MsCheck
    BY <2>a, <2>13 DEF MsCheck, Goes, mainVars, Places
  <2>14. CASE MsAccept
    <3>1. Lowest \in Fds
      BY <2>14, LowestIsFree DEF MsAccept, TableFull, Free
    <3> QED BY <2>a, <2>14, <3>1 DEF MsAccept, Goes, mainVars, Places
  <2>15. CASE MsAcceptFails
    BY <2>a, <2>15 DEF MsAcceptFails, Goes, mainVars, Places
  <2>16. CASE MsFailed
    BY <2>a, <2>16 DEF MsFailed, Goes, mainVars, Places
  <2>17. CASE MsServe
    BY <2>a, <2>17 DEF MsServe, Goes, mainVars, Places, Close
  <2>18. ASSUME NEW t \in NetThreads, NetAccept(t)
         PROVE  TypeOK'
    <3>1. Lowest \in Fds
      BY <2>18, LowestIsFree DEF NetAccept, TableFull, Free
    <3> QED BY <2>18, <3>1 DEF NetAccept, mainVars
  <2>19. ASSUME NEW t \in NetThreads, NetDisconnect(t)
         PROVE  TypeOK'
    BY <2>19 DEF NetDisconnect, mainVars, Close
  <2>20. ASSUME NEW t \in NetThreads, NetEnds(t)
         PROVE  TypeOK'
    BY <2>a, <2>20 DEF NetEnds, Goes, mainVars, Close, Places
  <2>21. ASSUME NEW t \in GameThreads, GameEnds(t)
         PROVE  TypeOK'
    BY <2>a, <2>21 DEF GameEnds, Goes, mainVars, Places
  <2>22. CASE UNCHANGED vars
    BY <2>22 DEF vars
  <2> QED
    BY <2>1, <2>2, <2>3, <2>4, <2>5, <2>6, <2>7, <2>8, <2>9, <2>10, <2>11, <2>12, <2>13,
       <2>14, <2>15, <2>16, <2>17, <2>18, <2>19, <2>20, <2>21, <2>22
       DEF Next, MainStep, ThreadRuns
<1> QED BY <1>1, <1>2, PTL DEF Spec

--------------------------------------------------------------------------------
(* The order in which the destructors stop and free.                            *)

(* The list q stops thread t; it does so before its k-th call.                  *)
Has(q, t) == \E j \in 1 .. Len(q) : q[j].do = "stop" /\ q[j].thread = t
HasBefore(q, k, t) == \E j \in 1 .. k - 1 : q[j].do = "stop" /\ q[j].thread = t

(* The list q is Stop calls only.                                               *)
AllStops(q) == \A k \in 1 .. Len(q) : q[k].do = "stop"

(* Whatever the list q frees, the threads that use it are stopped before.       *)
StopsFirst(q) ==
    \A k \in 1 .. Len(q) :
        /\ q[k].do \in {"stop", "free"}
        /\ q[k].do = "free" => \A t \in Threads : q[k].object \in Uses(t) => HasBefore(q, k, t)

(* Further stops at the end do not disturb the order.                           *)
LEMMA AddStops ==
    ASSUME NEW q \in Seq(Calls), StopsFirst(q), NEW p \in Seq(Calls), AllStops(p)
    PROVE  /\ q \o p \in Seq(Calls) /\ StopsFirst(q \o p)
           /\ \A t \in Threads : Has(q, t) \/ Has(p, t) => Has(q \o p, t)
<1> DEFINE r == q \o p
<1>1. /\ r \in Seq(Calls) /\ Len(r) = Len(q) + Len(p) /\ Len(q) \in Nat /\ Len(p) \in Nat
      /\ \A k \in 1 .. Len(q) : r[k] = q[k]
      /\ \A k \in Len(q) + 1 .. Len(r) : r[k] = p[k - Len(q)] /\ k - Len(q) \in 1 .. Len(p)
      /\ \A k \in 1 .. Len(p) : r[k + Len(q)] = p[k] /\ k + Len(q) \in 1 .. Len(r)
  OBVIOUS
<1> HIDE DEF r
<1>2. ASSUME NEW k \in 1 .. Len(r)
      PROVE  /\ r[k].do \in {"stop", "free"}
             /\ r[k].do = "free" => \A t \in Threads : r[k].object \in Uses(t) => HasBefore(r, k, t)
  <2>1. CASE k \in 1 .. Len(q)
    <3>1. /\ q[k].do \in {"stop", "free"}
          /\ q[k].do = "free" => \A t \in Threads : q[k].object \in Uses(t) => HasBefore(q, k, t)
      BY <2>1 DEF StopsFirst
    <3>2. \A t \in Threads : HasBefore(q, k, t) => HasBefore(r, k, t)
      BY <1>1, <2>1 DEF HasBefore
    <3> QED BY <1>1, <2>1, <3>1, <3>2
  <2>2. CASE k \notin 1 .. Len(q)
    <3> DEFINE m == k - Len(q)
    <3>1. m \in 1 .. Len(p) /\ r[k] = p[m]
      BY <1>1, <2>2
    <3> HIDE DEF m
    <3>2. r[k].do = "stop"
      BY <3>1 DEF AllStops
    <3> QED BY <3>2
  <2> QED BY <2>1, <2>2
<1>3. StopsFirst(r)
  BY <1>2 DEF StopsFirst
<1>4. \A t \in Threads : Has(q, t) => Has(r, t)
  BY <1>1 DEF Has
<1>5. \A t \in Threads : Has(p, t) => Has(r, t)
  BY <1>1 DEF Has
<1> QED BY <1>1, <1>3, <1>4, <1>5 DEF r

(* Nor does freeing an object all of whose users are stopped by then.           *)
LEMMA AddFree ==
    ASSUME NEW q \in Seq(Calls), StopsFirst(q), NEW o \in Objects, NEW built,
           \A t \in Threads : o \in Uses(t) => Has(q, t)
    PROVE  /\ q \o Frees(o, built) \in Seq(Calls) /\ StopsFirst(q \o Frees(o, built))
           /\ \A t \in Threads : Has(q, t) => Has(q \o Frees(o, built), t)
<1>1. CASE o \notin built
  <2>1. q \o Frees(o, built) = q
    BY <1>1 DEF Frees
  <2> QED BY <2>1
<1>2. CASE o \in built
  <2> DEFINE r == q \o Frees(o, built)
             c == Freed(o)
  <2>1. c \in Calls /\ Frees(o, built) = <<c>> /\ c.do = "free" /\ c.object = o
    BY <1>2 DEF Frees, Freed, Calls, Threads
  <2> HIDE DEF c
  <2>2. /\ r \in Seq(Calls) /\ Len(r) = Len(q) + 1 /\ Len(q) \in Nat
        /\ \A k \in 1 .. Len(q) : r[k] = q[k]
        /\ r[Len(q) + 1] = c
    BY <2>1
  <2> HIDE DEF r
  <2>3. ASSUME NEW k \in 1 .. Len(r)
        PROVE  /\ r[k].do \in {"stop", "free"}
               /\ r[k].do = "free" => \A t \in Threads : r[k].object \in Uses(t) => HasBefore(r, k, t)
    <3>1. CASE k \in 1 .. Len(q)
      <4>1. /\ q[k].do \in {"stop", "free"}
            /\ q[k].do = "free" => \A t \in Threads : q[k].object \in Uses(t) => HasBefore(q, k, t)
        BY <3>1 DEF StopsFirst
      <4>2. \A t \in Threads : HasBefore(q, k, t) => HasBefore(r, k, t)
        BY <2>2, <3>1 DEF HasBefore
      <4> QED BY <2>2, <3>1, <4>1, <4>2
    <3>2. CASE k = Len(q) + 1
      <4>1. \A t \in Threads : Has(q, t) => HasBefore(r, k, t)
        BY <2>2, <3>2 DEF Has, HasBefore
      <4> QED BY <2>1, <2>2, <3>2, <4>1
    <3> QED BY <2>2, <3>1, <3>2
  <2>4. StopsFirst(r)
    BY <2>3 DEF StopsFirst
  <2>5. \A t \in Threads : Has(q, t) => Has(r, t)
    BY <2>2 DEF Has
  <2> QED BY <2>2, <2>4, <2>5 DEF r
<1> QED BY <1>1, <1>2

(* Stops in front of a list do not disturb its order.                           *)
LEMMA StopsInFront ==
    ASSUME NEW q \in Seq(Calls), StopsFirst(q), NEW p \in Seq(Calls), AllStops(p)
    PROVE  /\ p \o q \in Seq(Calls) /\ StopsFirst(p \o q)
           /\ \A t \in Threads : Has(q, t) => Has(p \o q, t)
<1> DEFINE r == p \o q
<1>1. /\ r \in Seq(Calls) /\ Len(r) = Len(q) + Len(p) /\ Len(q) \in Nat /\ Len(p) \in Nat
      /\ \A k \in 1 .. Len(p) : r[k] = p[k]
      /\ \A k \in Len(p) + 1 .. Len(r) : r[k] = q[k - Len(p)] /\ k - Len(p) \in 1 .. Len(q)
      /\ \A k \in 1 .. Len(q) : r[k + Len(p)] = q[k] /\ k + Len(p) \in 1 .. Len(r)
  OBVIOUS
<1> HIDE DEF r
<1>2. ASSUME NEW k \in 1 .. Len(r)
      PROVE  /\ r[k].do \in {"stop", "free"}
             /\ r[k].do = "free" => \A t \in Threads : r[k].object \in Uses(t) => HasBefore(r, k, t)
  <2>1. CASE k \in 1 .. Len(p)
    BY <1>1, <2>1 DEF AllStops
  <2>2. CASE k \notin 1 .. Len(p)
    <3> DEFINE m == k - Len(p)
    <3>1. m \in 1 .. Len(q) /\ r[k] = q[m] /\ k = m + Len(p)
      BY <1>1, <2>2
    <3> HIDE DEF m
    <3>2. /\ q[m].do \in {"stop", "free"}
          /\ q[m].do = "free" => \A t \in Threads : q[m].object \in Uses(t) => HasBefore(q, m, t)
      BY <3>1 DEF StopsFirst
    <3>3. ASSUME NEW t \in Threads, HasBefore(q, m, t)
          PROVE  HasBefore(r, k, t)
      <4>1. PICK j \in 1 .. m - 1 : q[j].do = "stop" /\ q[j].thread = t
        BY <3>3 DEF HasBefore
      <4>2. j + Len(p) \in 1 .. k - 1 /\ r[j + Len(p)] = q[j]
        BY <1>1, <3>1, <4>1
      <4> QED BY <4>1, <4>2 DEF HasBefore
    <3> QED BY <3>1, <3>2, <3>3
  <2> QED BY <2>1, <2>2
<1>3. StopsFirst(r)
  BY <1>2 DEF StopsFirst
<1>4. \A t \in Threads : Has(q, t) => Has(r, t)
  BY <1>1 DEF Has
<1> QED BY <1>1, <1>3, <1>4 DEF r

(* Who uses what.                                                               *)
LEMMA UsersOf ==
    ASSUME NEW t \in Threads
    PROVE  /\ Uses(t) \subseteq Objects
           /\ "ms" \in Uses(t) => t = MS
           /\ "game" \in Uses(t) => t \in GameThreads
           /\ "net" \in Uses(t) => t \in NetThreads
           /\ {"rooms", "dirty", "sessions"} \cap Uses(t) # {} => t \in NetThreads \cup GameThreads
<1>1. MS \notin NetThreads /\ MS \notin GameThreads /\ NetThreads \cap GameThreads = {}
  BY DEF MS, NetThreads, GameThreads
<1>2. CASE t = MS
  <2>1. Uses(t) = {"ms"}
    BY <1>1, <1>2 DEF Uses
  <2> QED BY <1>2, <2>1 DEF Objects
<1>3. CASE t \in NetThreads
  <2>1. Uses(t) = {"net", "sessions", "dirty", "rooms"}
    BY <1>1, <1>3 DEF Uses
  <2> QED BY <1>3, <2>1 DEF Objects
<1>4. CASE t \in GameThreads
  <2>1. Uses(t) = {"game", "sessions", "dirty", "rooms"}
    BY <1>1, <1>4 DEF Uses
  <2> QED BY <1>4, <2>1 DEF Objects
<1> QED BY <1>2, <1>3, <1>4 DEF Threads

(* Each service's Stop names all its workers.                                   *)
LEMMA StopsNameAll ==
    /\ AllStops(Stops("game", GameCount)) /\ AllStops(Stops("net", NetCount)) /\ AllStops(<<Stop(MS)>>)
    /\ \A t \in GameThreads : Has(Stops("game", GameCount), t)
    /\ \A t \in NetThreads : Has(Stops("net", NetCount), t)
    /\ Has(<<Stop(MS)>>, MS)
<1>1. ASSUME NEW who, NEW n \in Nat
      PROVE  /\ AllStops(Stops(who, n))
             /\ \A i \in 1 .. n : Has(Stops(who, n), <<who, i>>)
  <2>1. Len(Stops(who, n)) = n /\ \A i \in 1 .. n : Stops(who, n)[i] = Stop(<<who, i>>)
    BY DEF Stops
  <2>2. \A t : Stop(t).do = "stop" /\ Stop(t).thread = t
    BY DEF Stop
  <2>3. \A i \in 1 .. n : Stops(who, n)[i].do = "stop" /\ Stops(who, n)[i].thread = <<who, i>>
    BY <2>1, <2>2
  <2>4. AllStops(Stops(who, n))
    BY <2>1, <2>3 DEF AllStops
  <2>5. ASSUME NEW i \in 1 .. n
        PROVE  Has(Stops(who, n), <<who, i>>)
    BY <2>1, <2>3 DEF Has
  <2> QED BY <2>4, <2>5
<1>2. AllStops(<<Stop(MS)>>) /\ Has(<<Stop(MS)>>, MS)
  BY DEF AllStops, Has, Stop
<1>3. /\ \A i \in 1 .. GameCount : Has(Stops("game", GameCount), <<"game", i>>)
      /\ \A i \in 1 .. NetCount : Has(Stops("net", NetCount), <<"net", i>>)
      /\ AllStops(Stops("game", GameCount)) /\ AllStops(Stops("net", NetCount))
  BY <1>1, CountAssumption
<1> QED BY <1>2, <1>3 DEF GameThreads, NetThreads

(* main's own calls at the end are stops (main.cpp:160).                        *)
LEMMA StopsJoined == AllStops(ExplicitStops)
<1> DEFINE g == Stops("game", GameCount)
           n == Stops("net", NetCount)
           m == <<Stop(MS)>>
<1>1. g \in Seq(Calls) /\ n \in Seq(Calls) /\ m \in Seq(Calls) /\ AllStops(g) /\ AllStops(n) /\ AllStops(m)
  BY StopsType, StopsNameAll
<1> HIDE DEF g, n, m
<1>2. ASSUME NEW p \in Seq(Calls), NEW q \in Seq(Calls), AllStops(p), AllStops(q)
      PROVE  p \o q \in Seq(Calls) /\ AllStops(p \o q)
  <2>1. /\ p \o q \in Seq(Calls) /\ Len(p \o q) = Len(p) + Len(q) /\ Len(p) \in Nat /\ Len(q) \in Nat
        /\ \A k \in 1 .. Len(p) : (p \o q)[k] = p[k]
        /\ \A k \in Len(p) + 1 .. Len(p) + Len(q) : (p \o q)[k] = q[k - Len(p)] /\ k - Len(p) \in 1 .. Len(q)
    OBVIOUS
  <2>2. ASSUME NEW k \in 1 .. Len(p \o q)
        PROVE  (p \o q)[k].do = "stop"
    BY <1>2, <2>1 DEF AllStops
  <2> QED BY <2>1, <2>2 DEF AllStops
<1>3. AllStops((g \o n) \o m)
  BY <1>1, <1>2
<1> QED BY <1>3 DEF ExplicitStops, g, n, m

(* main's locals are destroyed in an order in which every thread is stopped     *)
(* before anything it uses goes, and every thread is stopped (main.cpp:114).    *)
LEMMA DestructorsStopFirst ==
    ASSUME NEW built
    PROVE  /\ Destructors(built) \in Seq(Calls) /\ StopsFirst(Destructors(built))
           /\ \A t \in Threads : Has(Destructors(built), t)
<1> DEFINE d1 == Stops("game", GameCount)
           d2 == d1 \o Frees("game", built)
           d3 == d2 \o Stops("net", NetCount)
           d4 == d3 \o Frees("net", built)
           d5 == d4 \o Frees("rooms", built)
           d6 == d5 \o Frees("dirty", built)
           d7 == d6 \o Frees("sessions", built)
           d8 == d7 \o <<Stop(MS)>>
           d9 == d8 \o Frees("ms", built)
<1> DEFINE Good(d, T) == d \in Seq(Calls) /\ StopsFirst(d) /\ \A t \in T : Has(d, t)
<1>a. GameThreads \subseteq Threads /\ NetThreads \subseteq Threads /\ MS \in Threads
  BY DEF Threads
<1>b. {"game", "net", "rooms", "dirty", "sessions", "ms"} \subseteq Objects
  BY DEF Objects
<1>1. Good(d1, GameThreads)
  <2>1. StopsFirst(d1)
    BY StopsNameAll DEF StopsFirst, AllStops
  <2> QED BY <2>1, StopsNameAll, StopsType
<1> HIDE DEF d1
<1>2. Good(d2, GameThreads)
  BY <1>1, <1>a, <1>b, AddFree, UsersOf
<1> HIDE DEF d2
<1>3. Good(d3, GameThreads \cup NetThreads)
  BY <1>2, <1>a, AddStops, StopsNameAll, StopsType
<1> HIDE DEF d3
<1>4. Good(d4, GameThreads \cup NetThreads)
  BY <1>3, <1>a, <1>b, AddFree, UsersOf
<1> HIDE DEF d4
<1>5. Good(d5, GameThreads \cup NetThreads)
  BY <1>4, <1>a, <1>b, AddFree, UsersOf
<1> HIDE DEF d5
<1>6. Good(d6, GameThreads \cup NetThreads)
  BY <1>5, <1>a, <1>b, AddFree, UsersOf
<1> HIDE DEF d6
<1>7. Good(d7, GameThreads \cup NetThreads)
  BY <1>6, <1>a, <1>b, AddFree, UsersOf
<1> HIDE DEF d7
<1>8. Good(d8, Threads)
  <2>1. <<Stop(MS)>> \in Seq(Calls) /\ AllStops(<<Stop(MS)>>) /\ Has(<<Stop(MS)>>, MS)
    BY StopsNameAll, StopsType
  <2>2. /\ d8 \in Seq(Calls) /\ StopsFirst(d8)
        /\ \A t \in Threads : Has(d7, t) \/ Has(<<Stop(MS)>>, t) => Has(d8, t)
    BY <1>7, <2>1, AddStops
  <2>3. Has(d8, MS)
    BY <1>a, <2>1, <2>2
  <2>4. \A t \in GameThreads \cup NetThreads : Has(d8, t)
    BY <1>a, <1>7, <2>2
  <2> QED BY <2>2, <2>3, <2>4 DEF Threads
<1> HIDE DEF d8
<1>9. Good(d9, Threads)
  BY <1>8, <1>a, <1>b, AddFree, UsersOf
<1>10. Destructors(built) = d9
  BY Zenon DEF Destructors, d1, d2, d3, d4, d5, d6, d7, d8
<1> QED BY <1>9, <1>10

--------------------------------------------------------------------------------
(* The way down.                                                                *)

(* main has not begun to go down.                                               *)
Up == main \notin {"down", "exited"}

(* The call c does not let main go on before thread t has ended: it is a join,  *)
(* or a Stop that will lead to one.                                             *)
Awaits(c, t) == c.thread = t /\ (c.do = "join" \/ (c.do = "stop" /\ running[t]))

(* By the k-th call thread t has ended.                                         *)
AwaitedBefore(k, t) == Joined(t) \/ \E j \in 1 .. k - 1 : Awaits(todo[j], t)

(* The call c is wrong while thread t still runs.                               *)
Needs(c, t) == (c.do = "free" /\ c.object \in Uses(t)) \/ (c.do = "close" /\ t = MS)

(* What has been built when.                                                    *)
Built ==
    /\ Up => "ms" \in alive
    /\ main \in {"net.Start", "game.Start", "serve"} => {"sessions", "dirty", "rooms"} \subseteq alive
    /\ main \in {"game.Start", "serve"} => {"net", "game"} \subseteq alive

(* Until main goes down no thread has been told to stop.                        *)
ToldNothing == Up => \A t \in Threads : ~Joined(t) => running[t]

(* On the way down nothing is freed or closed before who uses it is awaited.    *)
AwaitedFirst ==
    main = "down" => \A k \in 1 .. Len(todo) : \A t \in Threads : Needs(todo[k], t) => AwaitedBefore(k, t)

(* Nobody is forgotten.                                                         *)
AllAwaited ==
    \A t \in Threads :
        /\ main = "down" /\ ~Joined(t) => \E j \in 1 .. Len(todo) : Awaits(todo[j], t)
        /\ main = "exited" => Joined(t)

(* The inductive invariant of the way up and down.                              *)
WayInv == Built /\ ToldNothing /\ AwaitedFirst /\ AllAwaited /\ NoDanglingUse

(* A step of a thread may end it and nothing else.                              *)
LEMMA ThreadStepOnWay ==
    ASSUME WayInv, UNCHANGED mainVars, \A t \in Threads : Joined(t) => Joined(t)'
    PROVE  WayInv'
<1> USE DEF mainVars
<1>1. Built'
  BY DEF WayInv, Built, Up
<1>2. ToldNothing'
  BY DEF WayInv, ToldNothing, Up
<1>3. AwaitedFirst'
  <2>1. \A k \in 1 .. Len(todo) : \A t \in Threads : AwaitedBefore(k, t) => AwaitedBefore(k, t)'
    BY DEF AwaitedBefore, Awaits
  <2> QED BY <2>1 DEF WayInv, AwaitedFirst, Needs
<1>4. AllAwaited'
  BY DEF WayInv, AllAwaited, Awaits
<1>5. NoDanglingUse'
  BY DEF WayInv, NoDanglingUse, Joined
<1> QED BY <1>1, <1>2, <1>3, <1>4, <1>5 DEF WayInv

(* Going down from any step of the start, or after it: the stops and then the   *)
(* destructors await every thread before anything it uses is freed.             *)
LEMMA GoingDown ==
    ASSUME TypeOK, WayInv, Up, UNCHANGED <<thread, running>>, NEW code,
           NEW calls \in Seq(Calls), AllStops(calls), GoDown(code, calls)
    PROVE  AwaitedFirst' /\ AllAwaited' /\ ToldNothing'
<1> DEFINE d == Destructors(alive')
<1>1. d \in Seq(Calls) /\ StopsFirst(d) /\ \A t \in Threads : Has(d, t)
  BY DestructorsStopFirst
<1> HIDE DEF d
<1>2. calls \o d \in Seq(Calls) /\ StopsFirst(calls \o d) /\ \A t \in Threads : Has(calls \o d, t)
  BY <1>1, StopsInFront
<1>3. todo' = calls \o d /\ main' = "down"
  BY DEF GoDown, d
<1>4. StopsFirst(todo') /\ \A t \in Threads : Has(todo', t)
  BY <1>2, <1>3
<1>5. \A t \in Threads : Joined(t)' <=> Joined(t)
  BY DEF Joined
<1>6. \A t \in Threads : ~Joined(t)' => running'[t]
  BY <1>5 DEF WayInv, ToldNothing
<1>7. ASSUME NEW k \in 1 .. Len(todo'), NEW t \in Threads, Needs(todo[k], t)'
      PROVE  AwaitedBefore(k, t)'
  <2>1. todo'[k].do \in {"stop", "free"} /\ (todo'[k].do = "free" => (todo'[k].object \in Uses(t) => HasBefore(todo', k, t)))
    BY <1>4 DEF StopsFirst
  <2>2. HasBefore(todo', k, t)
    BY <1>7, <2>1 DEF Needs
  <2>3. PICK j \in 1 .. k - 1 : todo'[j].do = "stop" /\ todo'[j].thread = t
    BY <2>2 DEF HasBefore
  <2> QED BY <1>6, <2>3 DEF AwaitedBefore, Awaits
<1>8. ASSUME NEW t \in Threads, ~Joined(t)'
      PROVE  \E j \in 1 .. Len(todo') : Awaits(todo[j], t)'
  BY <1>4, <1>6, <1>8 DEF Has, Awaits
<1> QED BY <1>3, <1>7, <1>8 DEF AwaitedFirst, AllAwaited, ToldNothing, Up

(* The first call is done: it has awaited nobody who still runs.                *)
LEMMA CallDone ==
    ASSUME TypeOK, WayInv, main = "down", todo # <<>>, todo' = Tail(todo),
           UNCHANGED <<main, thread>>,
           \A t \in Threads : ~Joined(t) => running'[t] = running[t],
           \A t \in Threads : Awaits(todo[1], t) => Joined(t)
    PROVE  AwaitedFirst' /\ AllAwaited' /\ ToldNothing'
<1>1. /\ Len(todo') = Len(todo) - 1 /\ Len(todo) \in Nat /\ Len(todo') \in Nat
      /\ \A k \in 1 .. Len(todo') : todo'[k] = todo[k + 1] /\ k + 1 \in 1 .. Len(todo)
  BY DEF TypeOK
<1>2. \A t \in Threads : Joined(t)' <=> Joined(t)
  BY DEF Joined
<1>3. ASSUME NEW t \in Threads, NEW j \in 1 .. Len(todo), Awaits(todo[j], t), ~Joined(t)
      PROVE  j - 1 \in 1 .. Len(todo') /\ Awaits(todo[j - 1], t)'
  <2>1. j # 1
    BY <1>3
  <2>2. j - 1 \in 1 .. Len(todo')
    BY <1>1, <2>1
  <2>3. todo'[j - 1] = todo[j]
    BY <1>1, <2>2
  <2> QED BY <1>3, <2>2, <2>3 DEF Awaits
<1>4. ASSUME NEW k \in 1 .. Len(todo'), NEW t \in Threads, Needs(todo[k], t)'
      PROVE  AwaitedBefore(k, t)'
  <2>1. Needs(todo[k + 1], t) /\ k + 1 \in 1 .. Len(todo)
    BY <1>1, <1>4 DEF Needs
  <2>2. AwaitedBefore(k + 1, t)
    BY <2>1 DEF WayInv, AwaitedFirst
  <2>3. CASE Joined(t)
    BY <1>2, <2>3 DEF AwaitedBefore
  <2>4. CASE ~Joined(t)
    <3>1. PICK j \in 1 .. k : Awaits(todo[j], t)
      BY <2>2, <2>4 DEF AwaitedBefore
    <3>2. j \in 1 .. Len(todo)
      BY <2>1
    <3>3. j - 1 \in 1 .. k - 1 /\ Awaits(todo[j - 1], t)'
      BY <1>3, <2>4, <3>1, <3>2
    <3> QED BY <3>3 DEF AwaitedBefore
  <2> QED BY <2>3, <2>4
<1>5. ASSUME NEW t \in Threads, ~Joined(t)'
      PROVE  \E j \in 1 .. Len(todo') : Awaits(todo[j], t)'
  <2>1. PICK j \in 1 .. Len(todo) : Awaits(todo[j], t)
    BY <1>2, <1>5 DEF WayInv, AllAwaited
  <2> QED BY <1>2, <1>3, <1>5, <2>1
<1> QED BY <1>4, <1>5 DEF AwaitedFirst, AllAwaited, ToldNothing, Up

(* Stop of a thread that runs puts its join in front of everything else.        *)
LEMMA StopBegun ==
    ASSUME TypeOK, WayInv, StopSignal, running[Call.thread]
    PROVE  AwaitedFirst' /\ AllAwaited' /\ ToldNothing'
<1>s. PICK s : s = Call.thread
  OBVIOUS
<1>n. PICK n : n = Len(Rest(s))
  OBVIOUS
<1>m. PICK m : m = IF s = MS THEN 2 ELSE 1
  OBVIOUS
<1>1. todo # <<>> /\ main = "down" /\ main' = "down" /\ UNCHANGED thread
  BY DEF StopSignal, threadVars
<1>2. Call \in Calls /\ Call = todo[1] /\ s \in Threads
  <2>1. Call \in Calls /\ Call = todo[1]
    BY <1>1 DEF TypeOK, Call
  <2> QED BY <1>s, <2>1 DEF Calls
<1>3. todo' = Rest(s) \o Tail(todo) /\ running' = [running EXCEPT ![s] = FALSE]
  BY <1>s DEF StopSignal, Rest
<1>4. /\ Rest(s) \in Seq(Calls)
      /\ \A i \in 1 .. Len(Rest(s)) : Rest(s)[i].thread = s
      /\ s = MS => /\ n = 3
                   /\ Rest(s)[1].do = "shutdown" /\ Rest(s)[2].do = "join" /\ Rest(s)[3].do = "close"
      /\ s # MS => n = 1 /\ Rest(s)[1].do = "join"
  BY <1>n, <1>2, RestShape
<1>5. /\ n \in Nat /\ Len(todo) \in Nat \ {0} /\ Len(todo') = n + Len(todo) - 1
      /\ \A i \in 1 .. n : todo'[i] = Rest(s)[i]
      /\ \A i \in n + 1 .. Len(todo') : todo'[i] = todo[i - n + 1] /\ i - n + 1 \in 2 .. Len(todo)
      /\ \A i \in 2 .. Len(todo) : todo'[i + n - 1] = todo[i] /\ i + n - 1 \in n + 1 .. Len(todo')
  <2>1. Tail(todo) \in Seq(Calls) /\ Len(Tail(todo)) = Len(todo) - 1 /\ Len(todo) \in Nat \ {0}
        /\ \A i \in 1 .. Len(todo) - 1 : Tail(todo)[i] = todo[i + 1]
    BY <1>1 DEF TypeOK
  <2> DEFINE p == Rest(s)
             q == Tail(todo)
  <2>2. p \in Seq(Calls) /\ q \in Seq(Calls) /\ todo' = p \o q /\ n = Len(p)
    BY <1>n, <1>3, <1>4, <2>1
  <2> HIDE DEF p, q
  <2>3. /\ Len(todo') = Len(p) + Len(q) /\ Len(p) \in Nat /\ Len(q) \in Nat
        /\ \A i \in 1 .. Len(p) : todo'[i] = p[i]
        /\ \A i \in Len(p) + 1 .. Len(todo') : todo'[i] = q[i - Len(p)]
    BY <2>2
  <2>4. Len(q) = Len(todo) - 1 /\ \A i \in 1 .. Len(todo) - 1 : q[i] = todo[i + 1]
    BY <2>1 DEF q
  <2>5. \A i \in 1 .. n : todo'[i] = Rest(s)[i]
    BY <2>2, <2>3 DEF p
  <2>6. \A i \in n + 1 .. Len(todo') : todo'[i] = todo[i - n + 1] /\ i - n + 1 \in 2 .. Len(todo)
    <3>1. ASSUME NEW i \in n + 1 .. Len(todo')
          PROVE  todo'[i] = todo[i - n + 1] /\ i - n + 1 \in 2 .. Len(todo)
      <4>1. i - n \in 1 .. Len(todo) - 1 /\ i \in Len(p) + 1 .. Len(todo')
        BY <2>1, <2>2, <2>3, <2>4
      <4>2. todo'[i] = q[i - n] /\ q[i - n] = todo[(i - n) + 1]
        BY <2>2, <2>3, <2>4, <4>1
      <4>3. (i - n) + 1 = i - n + 1 /\ i - n + 1 \in 2 .. Len(todo)
        BY <2>1, <2>2, <2>3, <4>1
      <4> QED BY <4>2, <4>3
    <3> QED BY <3>1
  <2>7. \A i \in 2 .. Len(todo) : todo'[i + n - 1] = todo[i] /\ i + n - 1 \in n + 1 .. Len(todo')
    <3>1. ASSUME NEW i \in 2 .. Len(todo)
          PROVE  todo'[i + n - 1] = todo[i] /\ i + n - 1 \in n + 1 .. Len(todo')
      <4>1. i + n - 1 \in n + 1 .. Len(todo')
        BY <2>1, <2>2, <2>3, <2>4
      <4>2. todo'[i + n - 1] = todo[(i + n - 1) - n + 1]
        BY <2>6, <4>1
      <4>3. (i + n - 1) - n + 1 = i
        BY <2>2, <2>3
      <4> QED BY <4>1, <4>2, <4>3
    <3> QED BY <3>1
  <2> QED BY <2>1, <2>2, <2>3, <2>4, <2>5, <2>6, <2>7
<1>6. m \in 1 .. n /\ Awaits(todo[m], s)'
  <2>1. m \in 1 .. n /\ Rest(s)[m].do = "join"
    BY <1>m, <1>4
  <2>2. todo'[m] = Rest(s)[m] /\ Rest(s)[m].thread = s
    BY <1>n, <1>4, <1>5, <2>1
  <2> QED BY <2>1, <2>2 DEF Awaits
<1>7. \A t \in Threads : Joined(t)' <=> Joined(t)
  BY <1>1 DEF Joined
<1>8. ASSUME NEW t \in Threads, t # s, NEW j \in 1 .. Len(todo), Awaits(todo[j], t)
      PROVE  j \in 2 .. Len(todo) /\ Awaits(todo[j + n - 1], t)'
  <2>1. j # 1
    <3>1. todo[1].thread = s
      BY <1>s, <1>2
    <3> QED BY <1>8, <3>1 DEF Awaits
  <2>2. j \in 2 .. Len(todo) /\ todo'[j + n - 1] = todo[j]
    BY <1>5, <2>1
  <2>3. running'[t] = running[t]
    BY <1>2, <1>3, <1>8 DEF TypeOK
  <2> QED BY <1>8, <2>2, <2>3 DEF Awaits
<1>9. ASSUME NEW k \in 1 .. Len(todo'), NEW t \in Threads, Needs(todo[k], t)'
      PROVE  AwaitedBefore(k, t)'
  <2>1. CASE k \in 1 .. n
    <3>1. todo'[k] = Rest(s)[k]
      BY <1>5, <2>1
    <3>2. s = MS /\ k = 3 /\ t = MS
      BY <1>4, <1>9, <2>1, <3>1 DEF Needs
    <3> QED BY <1>m, <1>6, <3>2 DEF AwaitedBefore
  <2>2. CASE k \notin 1 .. n
    <3> DEFINE h == k - n + 1
    <3>1. h \in 2 .. Len(todo) /\ todo'[k] = todo[h] /\ k = h + n - 1
      BY <1>5, <2>2
    <3> HIDE DEF h
    <3>2. AwaitedBefore(h, t)
      BY <1>1, <1>9, <3>1 DEF WayInv, AwaitedFirst, Needs
    <3>3. CASE Joined(t)
      BY <1>7, <3>3 DEF AwaitedBefore
    <3>4. CASE t = s
      <4>1. m \in 1 .. k - 1
        BY <1>5, <1>6, <2>2
      <4> QED BY <1>6, <3>4, <4>1 DEF AwaitedBefore
    <3>5. CASE t # s /\ ~Joined(t)
      <4>1. PICK j \in 1 .. h - 1 : Awaits(todo[j], t)
        BY <3>2, <3>5 DEF AwaitedBefore
      <4>2. j \in 1 .. Len(todo)
        BY <3>1
      <4>3. j \in 2 .. Len(todo) /\ Awaits(todo[j + n - 1], t)'
        BY <1>8, <3>5, <4>1, <4>2
      <4>4. j + n - 1 \in 1 .. k - 1
        BY <1>5, <3>1, <4>1, <4>3
      <4> QED BY <4>3, <4>4 DEF AwaitedBefore
    <3> QED BY <3>3, <3>4, <3>5
  <2> QED BY <2>1, <2>2
<1>10. ASSUME NEW t \in Threads, ~Joined(t)'
       PROVE  \E j \in 1 .. Len(todo') : Awaits(todo[j], t)'
  <2>1. CASE t = s
    <3>1. m \in 1 .. Len(todo')
      BY <1>5, <1>6
    <3> QED BY <1>6, <2>1, <3>1
  <2>2. CASE t # s
    <3>1. PICK j \in 1 .. Len(todo) : Awaits(todo[j], t)
      BY <1>1, <1>7, <1>10 DEF WayInv, AllAwaited
    <3>2. j \in 2 .. Len(todo) /\ Awaits(todo[j + n - 1], t)'
      BY <1>8, <2>2, <3>1
    <3>3. j + n - 1 \in 1 .. Len(todo')
      BY <1>5, <3>2
    <3> QED BY <3>2, <3>3
  <2> QED BY <2>1, <2>2
<1> QED BY <1>1, <1>9, <1>10 DEF AwaitedFirst, AllAwaited, ToldNothing, Up

(* No thread outlives what it uses, from whatever step main goes down, and the  *)
(* process does not exit before all threads have ended (main.cpp:114).          *)
THEOREM WayDownOrdered == Spec => []WayInv
<1>1. Init => WayInv
  BY DEF Init, WayInv, Built, ToldNothing, AwaitedFirst, AllAwaited, NoDanglingUse, Up, Joined
<1>2. TypeOK /\ WayInv /\ [Next]_vars => WayInv'
  <2> SUFFICES ASSUME TypeOK, WayInv, [Next]_vars
               PROVE  WayInv'
    OBVIOUS
  <2>a. \A t \in Threads : Uses(t) \subseteq Objects
    BY UsersOf
  <2>b. AllStops(<<>>) /\ <<>> \in Seq(Calls)
    BY DEF AllStops
  <2>c. \A t \in Threads : ~Joined(t) => Uses(t) \subseteq alive
    BY DEF WayInv, NoDanglingUse, Joined
  <2>d. ASSUME Fail, Up, UNCHANGED <<thread, running>>, alive \subseteq alive'
        PROVE  WayInv'
    <3>1. AwaitedFirst' /\ AllAwaited' /\ ToldNothing'
      BY <2>b, <2>d, GoingDown DEF Fail
    <3>2. main' = "down"
      BY <2>d DEF Fail, GoDown
    <3>3. Built'
      BY <3>2 DEF Built, Up
    <3>4. NoDanglingUse'
      BY <2>d DEF WayInv, NoDanglingUse
    <3> QED BY <3>1, <3>3, <3>4 DEF WayInv
  <2>e. main' # "down" /\ main' # "exited" => AwaitedFirst' /\ AllAwaited'
    BY DEF AwaitedFirst, AllAwaited
  <2>1. CASE StartMetrics
    <3>1. CASE Fail /\ UNCHANGED <<thread, running>>
      BY <2>d, <2>1, <3>1 DEF StartMetrics, Up
    <3>2. CASE main' = "Init" /\ running' = [running EXCEPT ![MS] = TRUE] /\ thread' = [thread EXCEPT ![MS] = "check"]
      <4>1. alive' = alive /\ main = "ms.Start" /\ "ms" \in alive
        BY <2>1 DEF StartMetrics, WayInv, Built, Up
      <4>2. Uses(MS) \subseteq {"ms"}
        BY UsersOf DEF Objects, Threads, NetThreads, GameThreads, MS
      <4>3. NoDanglingUse'
        BY <2>c, <3>2, <4>1, <4>2 DEF TypeOK, NoDanglingUse, Joined
      <4>4. ToldNothing'
        BY <3>2, <4>1 DEF TypeOK, WayInv, ToldNothing, Joined, Up
      <4> QED BY <2>e, <3>2, <4>1, <4>3, <4>4 DEF WayInv, Built
    <3> QED BY <2>1, <3>1, <3>2 DEF StartMetrics
  <2>2. CASE InitPools
    <3>1. UNCHANGED <<thread, running>> /\ alive' = alive \cup {"sessions", "dirty", "rooms"} /\ main = "Init"
      BY <2>2 DEF InitPools, threadVars
    <3>2. CASE Fail
      BY <2>d, <3>1, <3>2 DEF Up
    <3>3. CASE main' = "net.Start"
      <4>1. Built' /\ ToldNothing' /\ NoDanglingUse'
        BY <3>1, <3>3 DEF WayInv, Built, ToldNothing, NoDanglingUse, Joined, Up
      <4> QED BY <2>e, <3>3, <4>1 DEF WayInv
    <3> QED BY <2>2, <3>2, <3>3 DEF InitPools
  <2>3. CASE StartNetWorker
    <3>1. PICK t \in NetThreads :
               /\ main = "net.Start" /\ alive' = alive \cup {"net"}
               /\ \/ Fail /\ UNCHANGED <<thread, running>>
                  \/ /\ running' = [running EXCEPT ![t] = TRUE]
                     /\ thread' = [thread EXCEPT ![t] = "loop"]
                     /\ UNCHANGED <<main, todo, exitCode>>
      BY <2>3, StartNetEffect
    <3>2. CASE Fail /\ UNCHANGED <<thread, running>>
      BY <2>d, <3>1, <3>2 DEF Up
    <3>3. CASE running' = [running EXCEPT ![t] = TRUE] /\ thread' = [thread EXCEPT ![t] = "loop"]
               /\ UNCHANGED main
      <4>1. Built'
        BY <3>1, <3>3 DEF WayInv, Built, Up
      <4>2. ToldNothing'
        BY <3>1, <3>3 DEF TypeOK, WayInv, ToldNothing, Joined, Up
      <4>3. t \in Threads /\ Uses(t) \subseteq {"net", "sessions", "dirty", "rooms"}
        BY UsersOf DEF Objects, Threads, NetThreads, GameThreads, MS
      <4>4. {"sessions", "dirty", "rooms"} \subseteq alive
        BY <3>1 DEF WayInv, Built
      <4>5. NoDanglingUse'
        BY <2>c, <3>1, <3>3, <4>3, <4>4 DEF TypeOK, NoDanglingUse, Joined
      <4> QED BY <2>e, <3>1, <3>3, <4>1, <4>2, <4>5 DEF WayInv
    <3> QED BY <3>1, <3>2, <3>3
  <2>4. CASE NetStarted
    <3>1. Built' /\ ToldNothing' /\ NoDanglingUse' /\ main' = "game.Start"
      BY <2>4 DEF NetStarted, threadVars, WayInv, Built, ToldNothing, NoDanglingUse, Joined, Up
    <3> QED BY <2>e, <3>1 DEF WayInv
  <2>5. CASE StartGameWorkers
    <3>1. alive' = alive /\ main = "game.Start"
      BY <2>5 DEF StartGameWorkers
    <3>2. CASE Fail /\ UNCHANGED <<thread, running>>
      BY <2>d, <3>1, <3>2 DEF Up
    <3>3. CASE /\ running' = [t \in Threads |-> running[t] \/ t \in GameThreads]
               /\ thread' = [t \in Threads |-> IF t \in GameThreads THEN "loop" ELSE thread[t]]
               /\ main' = "serve"
      <4>1. Built'
        BY <3>1, <3>3 DEF WayInv, Built, Up
      <4>2. ToldNothing'
        BY <3>1, <3>3 DEF TypeOK, WayInv, ToldNothing, Joined, Up
      <4>3. Objects \subseteq alive
        BY <3>1 DEF WayInv, Built, Up, Objects
      <4>4. NoDanglingUse'
        BY <2>a, <3>1, <4>3 DEF NoDanglingUse
      <4> QED BY <2>e, <3>3, <4>1, <4>2, <4>4 DEF WayInv
    <3> QED BY <2>5, <3>2, <3>3 DEF StartGameWorkers
  <2>6. CASE RunSecsOver
    <3>1. UNCHANGED <<thread, running>> /\ alive' = alive /\ main = "serve" /\ main' = "down"
      BY <2>6 DEF RunSecsOver, threadVars, GoDown
    <3>2. AllStops(ExplicitStops) /\ ExplicitStops \in Seq(Calls)
      BY StopsJoined, ExplicitStopsType
    <3>3. AwaitedFirst' /\ AllAwaited' /\ ToldNothing'
      BY <2>6, <3>1, <3>2, GoingDown DEF RunSecsOver, Up
    <3>4. Built' /\ NoDanglingUse'
      BY <3>1 DEF Built, Up, WayInv, NoDanglingUse
    <3> QED BY <3>3, <3>4 DEF WayInv
  <2>f. main = "down" /\ UNCHANGED main => Built'
    BY DEF Built, Up
  <2>g. UNCHANGED <<thread, alive>> => NoDanglingUse'
    BY DEF WayInv, NoDanglingUse
  <2>7. CASE StopSignal
    <3>1. /\ main = "down" /\ todo # <<>> /\ UNCHANGED <<main, thread, alive>> /\ Call.do = "stop"
          /\ running' = [running EXCEPT ![Call.thread] = FALSE]
          /\ ~running[Call.thread] => todo' = Tail(todo)
      BY <2>7 DEF StopSignal, threadVars
    <3>2. Call = todo[1] /\ Call \in Calls
      BY <3>1 DEF Call, TypeOK
    <3>3. CASE running[Call.thread]
      BY <2>7, <2>f, <2>g, <3>1, <3>3, StopBegun DEF WayInv
    <3>4. CASE ~running[Call.thread]
      <4>1. Call.thread \in Threads
        BY <3>2 DEF Calls
      <4>2. running' = running
        BY <3>1, <3>4, <4>1 DEF TypeOK
      <4>3. \A t \in Threads : ~Awaits(todo[1], t)
        BY <3>1, <3>2, <3>4 DEF Awaits
      <4>4. AwaitedFirst' /\ AllAwaited' /\ ToldNothing'
        BY <3>1, <3>4, <4>2, <4>3, CallDone
      <4> QED BY <2>f, <2>g, <3>1, <4>4 DEF WayInv
    <3> QED BY <3>3, <3>4
  <2>8. CASE StopShutdown
    <3>1. /\ main = "down" /\ todo # <<>> /\ UNCHANGED <<main, thread, alive, running>> /\ Call.do = "shutdown"
          /\ todo' = Tail(todo) /\ Call = todo[1]
      BY <2>8 DEF StopShutdown, threadVars, Call, TypeOK
    <3>2. AwaitedFirst' /\ AllAwaited' /\ ToldNothing'
      BY <3>1, CallDone DEF Awaits
    <3> QED BY <2>f, <2>g, <3>1, <3>2 DEF WayInv
  <2>9. CASE StopJoin
    <3>1. /\ main = "down" /\ todo # <<>> /\ UNCHANGED <<main, thread, alive, running>>
          /\ Joined(Call.thread) /\ todo' = Tail(todo) /\ Call = todo[1]
      BY <2>9 DEF StopJoin, threadVars, Call, TypeOK
    <3>2. AwaitedFirst' /\ AllAwaited' /\ ToldNothing'
      BY <3>1, CallDone DEF Awaits
    <3> QED BY <2>f, <2>g, <3>1, <3>2 DEF WayInv
  <2>10. CASE StopClose
    <3>1. /\ main = "down" /\ todo # <<>> /\ UNCHANGED <<main, thread, alive, running>> /\ Call.do = "close"
          /\ todo' = Tail(todo) /\ Call = todo[1]
      BY <2>10 DEF StopClose, Call, TypeOK
    <3>2. AwaitedFirst' /\ AllAwaited' /\ ToldNothing'
      BY <3>1, CallDone DEF Awaits
    <3> QED BY <2>f, <2>g, <3>1, <3>2 DEF WayInv
  <2>11. CASE Destroy
    <3>1. /\ main = "down" /\ todo # <<>> /\ UNCHANGED <<main, thread, running>> /\ Call.do = "free"
          /\ todo' = Tail(todo) /\ alive' = alive \ {Call.object}
      BY <2>11 DEF Destroy, threadVars
    <3>2. Call = todo[1] /\ Len(todo) \in Nat \ {0}
      BY <3>1 DEF TypeOK, Call
    <3>3. AwaitedFirst' /\ AllAwaited' /\ ToldNothing'
      BY <3>1, <3>2, CallDone DEF Awaits
    <3>4. ASSUME NEW t \in Threads, Call.object \in Uses(t)
          PROVE  Joined(t)
      <4>1. Needs(todo[1], t) /\ 1 \in 1 .. Len(todo)
        BY <3>1, <3>2, <3>4 DEF Needs
      <4>2. AwaitedBefore(1, t)
        BY <3>1, <4>1 DEF WayInv, AwaitedFirst
      <4> QED BY <4>2 DEF AwaitedBefore
    <3>5. NoDanglingUse'
      BY <2>c, <3>1, <3>4 DEF NoDanglingUse, Joined
    <3> QED BY <2>f, <3>1, <3>3, <3>5 DEF WayInv
  <2>12. CASE Exit
    <3>1. main = "down" /\ todo = <<>> /\ main' = "exited" /\ UNCHANGED <<thread, alive>>
      BY <2>12 DEF Exit, threadVars
    <3>2. \A t \in Threads : Joined(t)
      BY <3>1 DEF WayInv, AllAwaited
    <3>3. AwaitedFirst' /\ AllAwaited' /\ ToldNothing' /\ Built'
      BY <3>1, <3>2 DEF AwaitedFirst, AllAwaited, ToldNothing, Built, Up, Joined
    <3> QED BY <2>g, <3>1, <3>3 DEF WayInv
  <2>13. CASE MsCheck \/ MsAccept \/ MsAcceptFails \/ MsFailed \/ MsServe
    <3>1. UNCHANGED mainVars /\ \A t \in Threads : Joined(t) => Joined(t)'
      BY <2>13 DEF MsCheck, MsAccept, MsAcceptFails, MsFailed, MsServe, Goes, Joined, TypeOK
    <3> QED BY <3>1, ThreadStepOnWay
  <2>14. ASSUME NEW t \in NetThreads, NetAccept(t) \/ NetDisconnect(t) \/ NetEnds(t)
         PROVE  WayInv'
    <3>1. UNCHANGED mainVars /\ \A x \in Threads : Joined(x) => Joined(x)'
      BY <2>14 DEF NetAccept, NetDisconnect, NetEnds, Goes, Joined, TypeOK
    <3> QED BY <3>1, ThreadStepOnWay
  <2>15. ASSUME NEW t \in GameThreads, GameEnds(t)
         PROVE  WayInv'
    <3>1. UNCHANGED mainVars /\ \A x \in Threads : Joined(x) => Joined(x)'
      BY <2>15 DEF GameEnds, Goes, Joined, TypeOK
    <3> QED BY <3>1, ThreadStepOnWay
  <2>16. CASE UNCHANGED vars
    <3>1. UNCHANGED mainVars /\ \A t \in Threads : Joined(t) => Joined(t)'
      BY <2>16 DEF vars, mainVars, Joined
    <3> QED BY <3>1, ThreadStepOnWay
  <2> QED
    BY <2>1, <2>2, <2>3, <2>4, <2>5, <2>6, <2>7, <2>8, <2>9, <2>10, <2>11, <2>12, <2>13,
       <2>14, <2>15, <2>16
       DEF Next, MainStep, ThreadRuns
<1> QED BY <1>1, <1>2, LifecycleTyped, PTL DEF Spec

(* The pools, the services and the metrics server outlive the threads that use  *)
(* them (main.cpp:114).                                                         *)
THEOREM NoDanglingUseHolds == Spec => []NoDanglingUse
<1>1. WayInv => NoDanglingUse
  BY DEF WayInv
<1> QED BY <1>1, WayDownOrdered, PTL

--------------------------------------------------------------------------------
(* The descriptors.                                                             *)

(* Descriptor n is free, or open for one who will close it; a descriptor that   *)
(* nobody closes is left only by a start that failed.                           *)
Owned(n) ==
    \/ fds[n] = Nobody
    \/ fds[n] = MS /\ n = listenFd
    \/ fds[n] = Scrape /\ thread[MS] = "serve" /\ n = conn
    \/ fds[n] = Leaked /\ exitCode = 1
    \/ \E t \in NetThreads : thread[t] = "loop" /\ fds[n] \in {t, Session(t)}

(* While the metrics thread runs, its listener is open and its own.             *)
Listening == ~Joined(MS) => listenFd \in Fds /\ fds[listenFd] = MS

(* A scrape that is being served has a descriptor of its own.                   *)
Serving == thread[MS] = "serve" => conn \in Fds /\ fds[conn] = Scrape

(* The call c closes the listener, or leads to the call that does.              *)
Closes(c) == c.do = "close" \/ (c.do = "stop" /\ c.thread = MS /\ running[MS])

(* The listener is closed on the way down, by the Stop of its thread.           *)
Closing ==
    /\ main = "ms.Start" => listenFd = None
    /\ Up /\ listenFd # None => running[MS]
    /\ main = "down" /\ listenFd # None => \E k \in 1 .. Len(todo) : Closes(todo[k])
    /\ main = "exited" => listenFd = None

(* The exit code is set when main goes down.                                    *)
Undecided == Up => exitCode = None

(* The inductive invariant of the descriptors.                                  *)
FdInv == (\A n \in Fds : Owned(n)) /\ Listening /\ Serving /\ Closing /\ Undecided

(* The kinds of owners of a descriptor are told apart.                          *)
LEMMA OwnersApart ==
    /\ \A t \in NetThreads : t # MS /\ Session(t) # MS /\ t # Scrape /\ Session(t) # Scrape
                             /\ t # Nobody /\ Session(t) # Nobody /\ t # Leaked /\ Session(t) # Leaked
    /\ \A t, u \in NetThreads : t # Session(u) /\ (Session(t) = Session(u) => t = u)
    /\ MS # Scrape /\ MS # Nobody /\ MS # Leaked /\ Scrape # Nobody /\ Scrape # Leaked /\ Leaked # Nobody
    /\ MS \in Threads /\ NetThreads \subseteq Threads /\ MS \notin NetThreads
    /\ MS \notin GameThreads /\ NetThreads \cap GameThreads = {}
    /\ None \notin Fds
BY CountAssumption DEF NetThreads, GameThreads, Threads, MS, Scrape, Nobody, Leaked, Session, None, Fds

(* A step that leaves the descriptors, the metrics thread's connection and the  *)
(* listener alone, ends no epoll worker that has descriptors open.              *)
LEMMA FdsAlone ==
    ASSUME FdInv, UNCHANGED <<fds, conn, listenFd>>,
           exitCode = 1 => exitCode' = 1,
           \A t \in NetThreads : thread[t] = "loop" => thread'[t] = "loop",
           thread[MS] = "serve" <=> thread'[MS] = "serve",
           Joined(MS) => Joined(MS)'
    PROVE  (\A n \in Fds : Owned(n)') /\ Listening' /\ Serving'
<1>1. \A n \in Fds : Owned(n)'
  BY DEF FdInv, Owned
<1>2. Listening' /\ Serving'
  BY DEF FdInv, Listening, Serving
<1> QED BY <1>1, <1>2

(* Only main touches the listener and the list of calls.                        *)
LEMMA ListenerAlone ==
    ASSUME Closing, UNCHANGED <<main, todo, running, listenFd>>
    PROVE  Closing'
BY DEF Closing, Up, Closes

(* On every way down the listener's thread is stopped, which closes it.         *)
LEMMA ClosingDown ==
    ASSUME TypeOK, Closing, Up, UNCHANGED <<running, listenFd>>, NEW code,
           NEW calls \in Seq(Calls), AllStops(calls), GoDown(code, calls)
    PROVE  Closing'
<1> DEFINE d == Destructors(alive')
<1>1. d \in Seq(Calls) /\ StopsFirst(d) /\ Has(d, MS)
  BY DestructorsStopFirst DEF Threads
<1> HIDE DEF d
<1>2. Has(calls \o d, MS)
  BY <1>1, StopsInFront DEF Threads
<1>3. Has(todo', MS) /\ main' = "down"
  BY <1>2 DEF GoDown, d
<1> QED BY <1>3 DEF Closing, Closes, Has, Up

(* A call that closes no listener is done.                                      *)
LEMMA CallKeepsListener ==
    ASSUME TypeOK, Closing, main = "down", todo # <<>>, todo' = Tail(todo),
           UNCHANGED <<main, listenFd>>, running'[MS] = running[MS], ~Closes(todo[1])
    PROVE  Closing'
<1>1. /\ Len(todo') = Len(todo) - 1 /\ Len(todo) \in Nat
      /\ \A k \in 1 .. Len(todo') : todo'[k] = todo[k + 1]
  BY DEF TypeOK
<1>2. ASSUME listenFd # None
      PROVE  \E k \in 1 .. Len(todo') : Closes(todo[k])'
  <2>1. PICK k \in 1 .. Len(todo) : Closes(todo[k])
    BY <1>2 DEF Closing
  <2>2. k - 1 \in 1 .. Len(todo') /\ todo'[k - 1] = todo[k]
    <3>1. k # 1
      BY <2>1
    <3>2. k - 1 \in 1 .. Len(todo')
      BY <1>1, <3>1
    <3> QED BY <1>1, <3>2
  <2>3. Closes(todo[k - 1])'
    BY <2>1, <2>2 DEF Closes
  <2> QED BY <2>2, <2>3
<1> QED BY <1>2 DEF Closing, Up

(* Every open descriptor has an owner that will close it; the metrics thread's  *)
(* listener is its own.                                                         *)
THEOREM DescriptorsOwned == Spec => []FdInv
<1>1. Init => FdInv
  BY DEF Init, FdInv, Owned, Listening, Serving, Closing, Undecided, Up, Joined, Threads
<1>2. TypeOK /\ WayInv /\ FdInv /\ [Next]_vars => FdInv'
  <2> SUFFICES ASSUME TypeOK, WayInv, FdInv, [Next]_vars
               PROVE  FdInv'
    OBVIOUS
  <2>a. AllStops(<<>>) /\ <<>> \in Seq(Calls)
    BY DEF AllStops
  <2>b. ASSUME Fail, Up, UNCHANGED <<running, listenFd>>
        PROVE  Closing' /\ Undecided' /\ exitCode' = 1
    BY <2>a, <2>b, ClosingDown DEF Fail, GoDown, FdInv, Undecided, Up
  <2>c. /\ UNCHANGED <<main, todo, running, listenFd>> => Closing'
        /\ UNCHANGED <<main, exitCode>> => Undecided'
    BY ListenerAlone DEF FdInv, Undecided, Up
  <2>d. Free # {} => Lowest \in Fds /\ fds[Lowest] = Nobody
    BY LowestIsFree DEF Free
  <2>1. CASE StartMetrics
    <3>1. CASE Fail /\ UNCHANGED <<thread, running, fds, listenFd>>
      <4>1. Closing' /\ Undecided' /\ exitCode' = 1 /\ UNCHANGED conn
        BY <2>b, <2>1, <3>1 DEF StartMetrics, Up
      <4>2. (\A n \in Fds : Owned(n)') /\ Listening' /\ Serving'
        BY <3>1, <4>1, FdsAlone DEF Joined
      <4> QED BY <4>1, <4>2 DEF FdInv
    <3>2. CASE /\ ~TableFull
               /\ fds' = [fds EXCEPT ![Lowest] = MS] /\ listenFd' = Lowest
               /\ running' = [running EXCEPT ![MS] = TRUE]
               /\ thread' = [thread EXCEPT ![MS] = "check"]
               /\ main' = "Init" /\ UNCHANGED <<todo, exitCode>>
      <4>1. listenFd = None /\ exitCode = None /\ UNCHANGED conn
        BY <2>1 DEF StartMetrics, FdInv, Closing, Undecided, Up
      <4>2. Joined(MS)
        BY <4>1, OwnersApart DEF FdInv, Listening
      <4>3. Lowest \in Fds /\ fds[Lowest] = Nobody
        BY <2>d, <3>2 DEF TableFull
      <4>4. ASSUME NEW n \in Fds
            PROVE  Owned(n)'
        <5>1. CASE n = Lowest
          BY <3>2, <4>3, <5>1 DEF TypeOK, Owned
        <5>2. CASE n # Lowest
          <6>1. fds'[n] = fds[n] /\ Owned(n)
            BY <3>2, <4>3, <5>2 DEF TypeOK, FdInv
          <6>2. fds[n] # MS
            BY <4>1, OwnersApart DEF FdInv, Owned
          <6>3. \A t \in NetThreads : thread'[t] = thread[t]
            BY <3>2, OwnersApart DEF TypeOK
          <6>4. fds[n] # Scrape
            BY <4>2, OwnersApart DEF Joined, FdInv, Owned
          <6> QED BY <3>2, <4>1, <6>1, <6>2, <6>3, <6>4 DEF Owned
        <5> QED BY <5>1, <5>2
      <4>5. Listening' /\ Serving'
        BY <3>2, <4>3, OwnersApart DEF TypeOK, Listening, Serving
      <4>6. Closing' /\ Undecided'
        BY <3>2, <4>1, OwnersApart DEF TypeOK, Closing, Undecided, Up
      <4> QED BY <4>4, <4>5, <4>6 DEF FdInv
    <3> QED BY <2>1, <3>1, <3>2 DEF StartMetrics
  <2>2. CASE InitPools
    <3>1. UNCHANGED <<thread, running, fds, conn, listenFd>> /\ main = "Init" /\ exitCode = None
      BY <2>2 DEF InitPools, threadVars, FdInv, Undecided, Up
    <3>2. (\A n \in Fds : Owned(n)') /\ Listening' /\ Serving'
      BY <3>1, FdsAlone DEF Joined, None
    <3>3. CASE Fail
      BY <2>b, <3>1, <3>2, <3>3 DEF FdInv, Up
    <3>4. CASE main' = "net.Start" /\ UNCHANGED <<todo, exitCode>>
      BY <3>1, <3>2, <3>4 DEF FdInv, Closing, Undecided, Up
    <3> QED BY <2>2, <3>3, <3>4 DEF InitPools
  <2>3. CASE StartNetWorker
    <3>1. PICK t \in NetThreads :
               /\ main = "net.Start" /\ UNCHANGED <<listenFd, shut, conn>>
               /\ fds' \in [Fds -> FdOwners]
               /\ \/ /\ Fail /\ UNCHANGED <<thread, running>>
                     /\ \A n \in Fds : fds'[n] = fds[n] \/ (fds[n] = Nobody /\ fds'[n] = Leaked)
                  \/ /\ running' = [running EXCEPT ![t] = TRUE]
                     /\ thread' = [thread EXCEPT ![t] = "loop"]
                     /\ UNCHANGED <<main, todo, exitCode>>
                     /\ \A n \in Fds : fds'[n] = fds[n] \/ (fds[n] = Nobody /\ fds'[n] = t)
      BY <2>3, StartNetEffect
    <3>2. \A n \in Fds : fds[n] # Nobody => fds'[n] = fds[n]
      BY <3>1
    <3>3. CASE /\ Fail /\ UNCHANGED <<thread, running>>
               /\ \A n \in Fds : fds'[n] = fds[n] \/ (fds[n] = Nobody /\ fds'[n] = Leaked)
      <4>1. Closing' /\ Undecided' /\ exitCode' = 1
        BY <2>b, <3>1, <3>3 DEF Up
      <4>2. \A n \in Fds : Owned(n)'
        BY <3>1, <3>3, <4>1 DEF FdInv, Owned
      <4>3. Listening' /\ Serving'
        BY <3>1, <3>2, <3>3, OwnersApart DEF FdInv, Listening, Serving, Joined
      <4> QED BY <4>1, <4>2, <4>3 DEF FdInv
    <3>4. CASE /\ running' = [running EXCEPT ![t] = TRUE]
               /\ thread' = [thread EXCEPT ![t] = "loop"]
               /\ UNCHANGED <<main, todo, exitCode>>
               /\ \A n \in Fds : fds'[n] = fds[n] \/ (fds[n] = Nobody /\ fds'[n] = t)
      <4>1. t \in Threads /\ t # MS /\ thread'[MS] = thread[MS] /\ thread'[t] = "loop"
            /\ \A u \in NetThreads : thread[u] = "loop" => thread'[u] = "loop"
        BY <3>4, OwnersApart DEF TypeOK
      <4>2. \A n \in Fds : Owned(n)'
        BY <3>1, <3>4, <4>1 DEF FdInv, Owned
      <4>3. Listening' /\ Serving'
        BY <3>1, <3>2, <4>1, OwnersApart DEF FdInv, Listening, Serving, Joined
      <4>4. running'[MS] = running[MS]
        BY <3>4, <4>1, OwnersApart DEF TypeOK
      <4>5. Closing' /\ Undecided'
        BY <3>1, <3>4, <4>4 DEF FdInv, Closing, Undecided, Up
      <4> QED BY <4>2, <4>3, <4>5 DEF FdInv
    <3> QED BY <3>1, <3>3, <3>4
  <2>4. CASE NetStarted
    <3>1. UNCHANGED <<thread, running, fds, conn, listenFd, exitCode>> /\ main = "net.Start" /\ main' = "game.Start"
      BY <2>4 DEF NetStarted, threadVars
    <3>2. (\A n \in Fds : Owned(n)') /\ Listening' /\ Serving'
      BY <3>1, FdsAlone DEF Joined
    <3> QED BY <3>1, <3>2 DEF FdInv, Closing, Undecided, Up
  <2>5. CASE StartGameWorkers
    <3>1. UNCHANGED <<fds, conn, listenFd>> /\ main = "game.Start" /\ exitCode = None
      BY <2>5 DEF StartGameWorkers, FdInv, Undecided, Up
    <3>2. CASE Fail /\ UNCHANGED <<thread, running>>
      <4>1. (\A n \in Fds : Owned(n)') /\ Listening' /\ Serving'
        BY <3>1, <3>2, FdsAlone DEF Joined, None
      <4> QED BY <2>b, <3>1, <3>2, <4>1 DEF FdInv, Up
    <3>3. CASE /\ running' = [t \in Threads |-> running[t] \/ t \in GameThreads]
               /\ thread' = [t \in Threads |-> IF t \in GameThreads THEN "loop" ELSE thread[t]]
               /\ main' = "serve" /\ UNCHANGED <<todo, exitCode>>
      <4>1. \A t \in NetThreads \cup {MS} : thread'[t] = thread[t] /\ running'[MS] = running[MS]
        BY <3>3, OwnersApart DEF TypeOK
      <4>2. (\A n \in Fds : Owned(n)') /\ Listening' /\ Serving'
        BY <3>1, <3>3, <4>1, FdsAlone DEF Joined
      <4> QED BY <3>1, <3>3, <4>1, <4>2 DEF FdInv, Closing, Undecided, Up
    <3> QED BY <2>5, <3>2, <3>3 DEF StartGameWorkers
  <2>6. CASE RunSecsOver
    <3>1. UNCHANGED <<thread, running, fds, conn, listenFd>> /\ main = "serve" /\ exitCode = None /\ main' = "down"
      BY <2>6 DEF RunSecsOver, threadVars, GoDown, FdInv, Undecided, Up
    <3>2. (\A n \in Fds : Owned(n)') /\ Listening' /\ Serving'
      BY <3>1, FdsAlone DEF Joined, None
    <3>3. Closing'
      BY <2>6, <3>1, StopsJoined, ExplicitStopsType, ClosingDown DEF RunSecsOver, FdInv, Up
    <3> QED BY <3>1, <3>2, <3>3 DEF FdInv, Undecided, Up
  <2>7. CASE StopSignal
    <3>1. /\ main = "down" /\ todo # <<>> /\ Call.do = "stop" /\ Call = todo[1] /\ Call \in Calls
          /\ UNCHANGED <<main, exitCode, thread, fds, conn, listenFd>>
          /\ running' = [running EXCEPT ![Call.thread] = FALSE]
          /\ todo' = IF running[Call.thread] THEN Rest(Call.thread) \o Tail(todo) ELSE Tail(todo)
      BY <2>7 DEF StopSignal, threadVars, Rest, Call, TypeOK
    <3>2. (\A n \in Fds : Owned(n)') /\ Listening' /\ Serving' /\ Undecided'
      BY <2>c, <3>1, FdsAlone DEF Joined
    <3>3. Call.thread \in Threads
      BY <3>1 DEF Calls
    <3>4. CASE ~running[Call.thread]
      <4>1. running' = running
        BY <3>1, <3>3, <3>4 DEF TypeOK
      <4>2. ~Closes(todo[1])
        BY <3>1, <3>4 DEF Closes
      <4>3. Closing'
        BY <3>1, <3>4, <4>1, <4>2, CallKeepsListener DEF FdInv
      <4> QED BY <3>2, <4>3 DEF FdInv
    <3>5. CASE running[Call.thread]
      <4>1. PICK p \in Seq(Calls) : p = Rest(Call.thread)
        BY <3>3, RestShape
      <4>2. PICK q \in Seq(Calls) : q = Tail(todo)
        <5>1. Tail(todo) \in Seq(Calls)
          BY <3>1 DEF TypeOK
        <5> QED BY <5>1
      <4>3. todo' = p \o q
        BY <3>1, <3>5, <4>1, <4>2
      <4>4. /\ todo' = p \o q /\ Len(todo') = Len(p) + Len(q) /\ Len(p) \in Nat /\ Len(q) \in Nat
            /\ \A k \in 1 .. Len(p) : todo'[k] = p[k] /\ k \in 1 .. Len(todo')
            /\ \A k \in 1 .. Len(q) : todo'[Len(p) + k] = q[k] /\ Len(p) + k \in 1 .. Len(todo')
        BY <4>3
      <4>5. CASE Call.thread = MS
        <5>1. 3 \in 1 .. Len(p) /\ p[3].do = "close"
          BY <3>3, <4>1, <4>5, RestShape
        <5>2. 3 \in 1 .. Len(todo') /\ Closes(todo[3])'
          BY <4>4, <5>1 DEF Closes
        <5>3. Closing'
          BY <3>1, <5>2 DEF Closing, Up
        <5> QED BY <3>2, <5>3 DEF FdInv
      <4>6. CASE Call.thread # MS
        <5>1. running'[MS] = running[MS]
          BY <3>1, <3>3, <4>6, OwnersApart DEF TypeOK
        <5>2. ASSUME listenFd # None
              PROVE  \E k \in 1 .. Len(todo') : Closes(todo[k])'
          <6>1. PICK k \in 1 .. Len(todo) : Closes(todo[k])
            BY <3>1, <5>2 DEF FdInv, Closing
          <6>2. k # 1
            BY <3>1, <4>6, <6>1 DEF Closes
          <6>3. k - 1 \in 1 .. Len(q) /\ q[k - 1] = todo[k]
            BY <3>1, <4>2, <6>2 DEF TypeOK
          <6>4. Len(p) + (k - 1) \in 1 .. Len(todo') /\ todo'[Len(p) + (k - 1)] = todo[k]
            BY <4>4, <6>3
          <6>5. PICK h \in 1 .. Len(todo') : todo'[h] = todo[k]
            BY <6>4
          <6>6. Closes(todo[h])'
            BY <5>1, <6>1, <6>5 DEF Closes
          <6> QED BY <6>6
        <5>3. Closing'
          BY <3>1, <5>2 DEF Closing, Up
        <5> QED BY <3>2, <5>3 DEF FdInv
      <4> QED BY <4>5, <4>6
    <3> QED BY <3>4, <3>5
  <2>8. CASE StopShutdown
    <3>1. /\ main = "down" /\ todo # <<>> /\ Call.do = "shutdown" /\ Call = todo[1] /\ todo' = Tail(todo)
          /\ UNCHANGED <<main, exitCode, running, thread, fds, conn, listenFd>>
      BY <2>8 DEF StopShutdown, threadVars, Call, TypeOK
    <3>2. (\A n \in Fds : Owned(n)') /\ Listening' /\ Serving' /\ Undecided'
      BY <2>c, <3>1, FdsAlone DEF Joined
    <3>3. Closing'
      BY <3>1, CallKeepsListener DEF FdInv, Closes
    <3> QED BY <3>2, <3>3 DEF FdInv
  <2>9. CASE StopJoin
    <3>1. /\ main = "down" /\ todo # <<>> /\ Call.do = "join" /\ Call = todo[1] /\ todo' = Tail(todo)
          /\ UNCHANGED <<main, exitCode, running, thread, fds, conn, listenFd>>
      BY <2>9 DEF StopJoin, threadVars, Call, TypeOK
    <3>2. (\A n \in Fds : Owned(n)') /\ Listening' /\ Serving' /\ Undecided'
      BY <2>c, <3>1, FdsAlone DEF Joined
    <3>3. Closing'
      BY <3>1, CallKeepsListener DEF FdInv, Closes
    <3> QED BY <3>2, <3>3 DEF FdInv
  <2>10. CASE StopClose
    <3>1. /\ main = "down" /\ todo # <<>> /\ Call.do = "close" /\ Call = todo[1] /\ Len(todo) \in Nat \ {0}
          /\ fds' = Close({listenFd}) /\ listenFd' = None
          /\ UNCHANGED <<main, exitCode, thread, conn>>
      BY <2>10 DEF StopClose, Call, TypeOK
    <3>2. Joined(MS)
      <4>1. Needs(todo[1], MS) /\ 1 \in 1 .. Len(todo) /\ MS \in Threads
        BY <3>1, OwnersApart DEF Needs
      <4>2. AwaitedBefore(1, MS)
        BY <3>1, <4>1 DEF WayInv, AwaitedFirst
      <4> QED BY <4>2 DEF AwaitedBefore
    <3>3. \A n \in Fds : fds'[n] = IF n = listenFd THEN Nobody ELSE fds[n]
      BY <3>1 DEF Close
    <3>4. \A n \in Fds : Owned(n)'
      BY <3>1, <3>3 DEF FdInv, Owned
    <3>5. Listening' /\ Serving'
      BY <3>1, <3>2 DEF Listening, Serving, Joined
    <3>6. Closing' /\ Undecided'
      BY <3>1 DEF Closing, Undecided, Up
    <3> QED BY <3>4, <3>5, <3>6 DEF FdInv
  <2>11. CASE Destroy
    <3>1. /\ main = "down" /\ todo # <<>> /\ Call.do = "free" /\ Call = todo[1] /\ todo' = Tail(todo)
          /\ UNCHANGED <<main, exitCode, running, thread, fds, conn, listenFd>>
      BY <2>11 DEF Destroy, threadVars, Call, TypeOK
    <3>2. (\A n \in Fds : Owned(n)') /\ Listening' /\ Serving' /\ Undecided'
      BY <2>c, <3>1, FdsAlone DEF Joined
    <3>3. Closing'
      BY <3>1, CallKeepsListener DEF FdInv, Closes
    <3> QED BY <3>2, <3>3 DEF FdInv
  <2>12. CASE Exit
    <3>1. main = "down" /\ todo = <<>> /\ main' = "exited" /\ UNCHANGED <<exitCode, thread, fds, conn, listenFd>>
      BY <2>12 DEF Exit, threadVars
    <3>2. (\A n \in Fds : Owned(n)') /\ Listening' /\ Serving'
      BY <3>1, FdsAlone DEF Joined
    <3>3. listenFd = None
      BY <3>1 DEF FdInv, Closing
    <3> QED BY <3>1, <3>2, <3>3 DEF FdInv, Closing, Undecided, Up
  <2>13. CASE MsCheck \/ MsAcceptFails \/ MsFailed
    <3>1. /\ UNCHANGED <<main, todo, exitCode, running, fds, conn, listenFd>>
          /\ thread[MS] \in {"check", "accept", "failed"} /\ thread'[MS] # "serve"
          /\ \A t \in NetThreads : thread'[t] = thread[t]
      BY <2>13, OwnersApart DEF MsCheck, MsAcceptFails, MsFailed, Goes, mainVars, TypeOK
    <3>2. (\A n \in Fds : Owned(n)') /\ Listening' /\ Serving'
      BY <3>1, FdsAlone DEF Joined
    <3> QED BY <2>c, <3>1, <3>2 DEF FdInv
  <2>14. CASE MsAccept
    <3>1. /\ UNCHANGED <<main, todo, exitCode, running, listenFd>>
          /\ thread[MS] = "accept" /\ thread'[MS] = "serve" /\ ~TableFull
          /\ \A t \in NetThreads : thread'[t] = thread[t]
          /\ conn' = Lowest /\ fds' = [fds EXCEPT ![Lowest] = Scrape]
      BY <2>14, OwnersApart DEF MsAccept, Goes, mainVars, TypeOK
    <3>2. Lowest \in Fds /\ fds[Lowest] = Nobody
      BY <2>d, <3>1 DEF TableFull
    <3>3. \A n \in Fds : fds'[n] = IF n = Lowest THEN Scrape ELSE fds[n]
      BY <3>1, <3>2 DEF TypeOK
    <3>4. \A n \in Fds : Owned(n)'
      BY <3>1, <3>2, <3>3 DEF FdInv, Owned
    <3>5. Listening' /\ Serving'
      BY <3>1, <3>2, <3>3, OwnersApart DEF FdInv, Listening, Serving, Joined
    <3> QED BY <2>c, <3>1, <3>4, <3>5 DEF FdInv
  <2>15. CASE MsServe
    <3>1. /\ UNCHANGED <<main, todo, exitCode, running, listenFd>>
          /\ thread[MS] = "serve" /\ thread'[MS] = "check"
          /\ \A t \in NetThreads : thread'[t] = thread[t]
          /\ \A n \in Fds : fds'[n] = IF n = conn THEN Nobody ELSE fds[n]
      BY <2>15, OwnersApart DEF MsServe, Goes, mainVars, TypeOK, Close
    <3>2. \A n \in Fds : Owned(n)'
      BY <3>1 DEF FdInv, Owned
    <3>3. Listening' /\ Serving'
      BY <3>1, OwnersApart DEF FdInv, Listening, Serving, Joined
    <3> QED BY <2>c, <3>1, <3>2, <3>3 DEF FdInv
  <2>16. ASSUME NEW t \in NetThreads, NetAccept(t)
         PROVE  FdInv'
    <3>1. /\ UNCHANGED <<main, todo, exitCode, running, thread, conn, listenFd>>
          /\ thread[t] = "loop" /\ ~TableFull /\ fds' = [fds EXCEPT ![Lowest] = Session(t)]
      BY <2>16 DEF NetAccept, mainVars
    <3>2. Lowest \in Fds /\ fds[Lowest] = Nobody
      BY <2>d, <3>1 DEF TableFull
    <3>3. \A n \in Fds : fds'[n] = IF n = Lowest THEN Session(t) ELSE fds[n]
      BY <3>1, <3>2 DEF TypeOK
    <3>4. \A n \in Fds : Owned(n)'
      BY <3>1, <3>3 DEF FdInv, Owned
    <3>5. Listening' /\ Serving'
      BY <3>1, <3>2, <3>3, OwnersApart DEF FdInv, Listening, Serving, Joined
    <3> QED BY <2>c, <3>1, <3>4, <3>5 DEF FdInv
  <2>17. ASSUME NEW t \in NetThreads, NetDisconnect(t)
         PROVE  FdInv'
    <3>1. UNCHANGED <<main, todo, exitCode, running, thread, conn, listenFd>>
      BY <2>17 DEF NetDisconnect, mainVars
    <3>2. PICK m \in Fds : fds[m] = Session(t) /\ \A n \in Fds : fds'[n] = IF n = m THEN Nobody ELSE fds[n]
      BY <2>17 DEF NetDisconnect, OpenBy, Close
    <3>3. \A n \in Fds : Owned(n)'
      BY <3>1, <3>2 DEF FdInv, Owned
    <3>4. Listening' /\ Serving'
      BY <3>1, <3>2, OwnersApart DEF FdInv, Listening, Serving, Joined
    <3> QED BY <2>c, <3>1, <3>3, <3>4 DEF FdInv
  <2>18. ASSUME NEW t \in NetThreads, NetEnds(t)
         PROVE  FdInv'
    <3>1. /\ UNCHANGED <<main, todo, exitCode, running, conn, listenFd>>
          /\ thread'[MS] = thread[MS] /\ \A u \in NetThreads : u # t => thread'[u] = thread[u]
          /\ \A n \in Fds : fds'[n] = IF fds[n] \in {t, Session(t)} THEN Nobody ELSE fds[n]
      BY <2>18, OwnersApart DEF NetEnds, Goes, mainVars, TypeOK, CleanedUp, OpenBy, Close
    <3>2. ASSUME NEW n \in Fds
          PROVE  Owned(n)'
      <4>1. CASE fds[n] \in {t, Session(t)}
        BY <3>1, <4>1 DEF Owned
      <4>2. CASE \E u \in NetThreads : thread[u] = "loop" /\ fds[n] \in {u, Session(u)} /\ fds[n] \notin {t, Session(t)}
        BY <3>1, <4>2 DEF Owned
      <4> QED BY <3>1, <4>1, <4>2 DEF FdInv, Owned
    <3>3. Listening' /\ Serving'
      BY <3>1, OwnersApart DEF FdInv, Listening, Serving, Joined
    <3> QED BY <2>c, <3>1, <3>2, <3>3 DEF FdInv
  <2>19. ASSUME NEW t \in GameThreads, GameEnds(t)
         PROVE  FdInv'
    <3>1. /\ UNCHANGED <<main, todo, exitCode, running, fds, conn, listenFd>>
          /\ \A u \in NetThreads \cup {MS} : thread'[u] = thread[u]
      BY <2>19, OwnersApart DEF GameEnds, Goes, mainVars, TypeOK
    <3>2. (\A n \in Fds : Owned(n)') /\ Listening' /\ Serving'
      BY <3>1, FdsAlone DEF Joined
    <3> QED BY <2>c, <3>1, <3>2 DEF FdInv
  <2>20. CASE UNCHANGED vars
    <3>1. UNCHANGED <<main, todo, exitCode, running, thread, fds, conn, listenFd>>
      BY <2>20 DEF vars
    <3>2. (\A n \in Fds : Owned(n)') /\ Listening' /\ Serving'
      BY <3>1, FdsAlone DEF Joined
    <3> QED BY <2>c, <3>1, <3>2 DEF FdInv
  <2> QED
    BY <2>1, <2>2, <2>3, <2>4, <2>5, <2>6, <2>7, <2>8, <2>9, <2>10, <2>11, <2>12, <2>13,
       <2>14, <2>15, <2>16, <2>17, <2>18, <2>19, <2>20
       DEF Next, MainStep, ThreadRuns
<1> QED BY <1>1, <1>2, LifecycleTyped, WayDownOrdered, PTL DEF Spec

(* The metrics thread never accepts on a number that was closed, however main   *)
(* goes down (Metrics.cpp:237).                                                 *)
THEOREM OwnListenerHolds == Spec => []OwnListener
<1>1. FdInv => OwnListener
  BY OwnersApart DEF FdInv, Listening, OwnListener, Joined
<1> QED BY <1>1, DescriptorsOwned, PTL

(* A run that ends as planned has ended every thread and closed everything it   *)
(* opened; only a start that failed may leave a descriptor behind.              *)
CleanExit ==
    main = "exited" => /\ \A t \in Threads : Joined(t)
                       /\ exitCode # 1 => Free = Fds

(* main does not exit before its threads, and a run that ends as planned closes *)
(* what it opened (main.cpp:160, EpollWorker.cpp:120, Metrics.cpp:231).         *)
THEOREM CleanExitHolds == Spec => []CleanExit
<1>1. WayInv /\ FdInv => CleanExit
  <2> SUFFICES ASSUME WayInv, FdInv, main = "exited"
               PROVE  (\A t \in Threads : Joined(t)) /\ (exitCode # 1 => Free = Fds)
    BY DEF CleanExit
  <2>1. \A t \in Threads : Joined(t)
    BY DEF WayInv, AllAwaited
  <2>2. listenFd = None
    BY DEF FdInv, Closing
  <2>3. thread[MS] # "serve" /\ \A t \in NetThreads : thread[t] # "loop"
    BY <2>1, OwnersApart DEF Joined
  <2>4. \A n \in Fds : exitCode # 1 => fds[n] = Nobody
    BY <2>2, <2>3, OwnersApart DEF FdInv, Owned
  <2> QED BY <2>1, <2>4 DEF Free
<1> QED BY <1>1, WayDownOrdered, DescriptorsOwned, PTL

================================================================================
