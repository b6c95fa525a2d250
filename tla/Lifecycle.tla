------------------------------- MODULE Lifecycle -------------------------------
(* How the server comes up and goes down: main (main.cpp), the metrics server   *)
(* with its thread (Metrics.cpp), and Start and Stop of the epoll workers       *)
(* (EpollWorker.cpp) and game workers (GameWorker.cpp).                         *)
(*                                                                              *)
(* main starts the parts in order and may fail at each of them; it goes down    *)
(* by Stop calls, by the destructors of what it has built, or by both.  What a  *)
(* worker does between start and stop is the subject of the other modules; here *)
(* it uses the shared objects, and opens and closes descriptors.                *)
EXTENDS Integers, Sequences, FiniteSets, FiniteSetsExt

CONSTANTS
    NetCount, GameCount,      \* epoll workers and game workers
    MaxFd                     \* descriptors 0 .. MaxFd can be open (RLIMIT_NOFILE)

ASSUME CountAssumption == NetCount \in Nat /\ GameCount \in Nat /\ MaxFd \in Nat

MS          == <<"ms", 0>>
NetThreads  == {"net"} \X (1 .. NetCount)
GameThreads == {"game"} \X (1 .. GameCount)
Threads     == {MS} \cup NetThreads \cup GameThreads
Objects     == {"ms", "sessions", "dirty", "rooms", "net", "game"}
Session(t)  == <<"session", t[2]>>    \* who opened a descriptor, if not a thread
Scrape      == <<"scrape", 0>>
Leaked      == <<"leaked", 0>>
Nobody      == <<"nobody", 0>>
None        == -1
Fds         == 0 .. MaxFd

VARIABLES
    main,        \* main's place: what it starts next, "serve", "down", "exited"
    todo,        \* the calls main makes on its way down
    exitCode,
    alive,       \* the objects that are constructed and not destroyed
    thread,      \* each thread's place
    running,     \* _running of each worker and of the metrics server
    fds,         \* the kernel's descriptor table: number -> who opened it
    listenFd,    \* _listenFd of the metrics server
    shut,        \* the metrics listener has been shut down
    conn         \* the metrics thread's accepted connection

vars == <<main, todo, exitCode, alive, thread, running, fds, listenFd, shut, conn>>
mainVars   == <<main, todo, exitCode, alive, running>>
threadVars == <<thread, fds, conn>>

Free == {n \in Fds : fds[n] = Nobody}
OpenBy(who) == {n \in Fds : fds[n] = who}

(* Mutant of TableFull: the limit is overlooked.                                *)
TableFull_Never == FALSE

(* socket, epoll_create1 and accept fail when the table is full.                *)
TableFull == Free = {}

(* The kernel hands out the lowest number.                                      *)
Lowest == IF Free = {} THEN MaxFd + 1 ELSE Min(Free)

Close(ns) == [n \in Fds |-> IF n \in ns THEN Nobody ELSE fds[n]]

Init ==
    /\ main = "ms.Start" /\ todo = <<>> /\ exitCode = None
    /\ alive = {"ms"}
    /\ thread = [t \in Threads |-> "none"]
    /\ running = [t \in Threads |-> FALSE]
    /\ fds = [n \in Fds |-> Nobody]
    /\ listenFd = None /\ shut = FALSE /\ conn = None

--------------------------------------------------------------------------------
(* The way down.                                                                *)

Calls    == [do : {"stop", "shutdown", "join", "close", "free"}, thread : Threads, object : Objects]
Stop(t)  == [do |-> "stop", thread |-> t, object |-> "ms"]
Freed(o) == [do |-> "free", thread |-> MS, object |-> o]
Stops(who, n) == [i \in 1 .. n |-> Stop(<<who, i>>)]

Frees(o, built) == IF o \in built THEN <<Freed(o)>> ELSE <<>>

(* Mutant of Destructors: the pools are declared after the services.            *)
Destructors_PoolsFirst(built) ==
    Frees("rooms", built) \o Frees("dirty", built) \o Frees("sessions", built)
    \o Stops("game", GameCount) \o Frees("game", built)
    \o Stops("net", NetCount) \o Frees("net", built)
    \o <<Stop(MS)>> \o Frees("ms", built)

(* main's locals, those that are built, are destroyed in reverse order; a       *)
(* service's destructor stops its workers first.                                *)
Destructors(built) ==
    Stops("game", GameCount) \o Frees("game", built)
    \o Stops("net", NetCount) \o Frees("net", built)
    \o Frees("rooms", built) \o Frees("dirty", built) \o Frees("sessions", built)
    \o <<Stop(MS)>> \o Frees("ms", built)

ExplicitStops == Stops("game", GameCount) \o Stops("net", NetCount) \o <<Stop(MS)>>

GoDown(code, calls) ==
    /\ main' = "down" /\ exitCode' = code
    /\ todo' = calls \o Destructors(alive')

(* A start that fails: main returns 1.                                          *)
Fail == GoDown(1, <<>>)

--------------------------------------------------------------------------------
(* The way up.                                                                  *)

(* Server::Start: socket, bind and listen, then the thread.                     *)
StartMetrics ==
    /\ main = "ms.Start"
    /\ alive' = alive
    /\ \/ /\ Fail
          /\ UNCHANGED <<thread, running, fds, listenFd>>
       \/ /\ ~TableFull
          /\ fds' = [fds EXCEPT ![Lowest] = MS] /\ listenFd' = Lowest
          /\ running' = [running EXCEPT ![MS] = TRUE]
          /\ thread' = [thread EXCEPT ![MS] = "check"]
          /\ main' = "Init"
          /\ UNCHANGED <<todo, exitCode>>
    /\ UNCHANGED <<shut, conn>>

InitPools ==
    /\ main = "Init"
    /\ alive' = alive \cup {"sessions", "dirty", "rooms"}
    /\ Fail \/ (main' = "net.Start" /\ UNCHANGED <<todo, exitCode>>)
    /\ UNCHANGED <<running, threadVars, listenFd, shut>>

(* The next epoll worker to start.                                              *)
NextNet == Cardinality({t \in NetThreads : thread[t] # "none"}) + 1

(* EpollWorker::Start takes two descriptors.  When it fails, the descriptors    *)
(* taken so far stay open: the destructor only stops the thread.                *)
StartNetWorker ==
    LET t   == <<"net", NextNet>>
        ep  == Lowest
        ls  == Min(Free \ {ep})
    IN  /\ main = "net.Start" /\ NextNet <= NetCount
        /\ alive' = alive \cup {"net"}
        /\ \/ /\ Fail
              /\ \/ UNCHANGED fds
                 \/ Free # {} /\ fds' = [fds EXCEPT ![ep] = Leaked]
                 \/ Cardinality(Free) > 1 /\ fds' = [fds EXCEPT ![ep] = Leaked, ![ls] = Leaked]
              /\ UNCHANGED <<thread, running>>
           \/ /\ Cardinality(Free) > 1
              /\ fds' = [fds EXCEPT ![ep] = t, ![ls] = t]
              /\ running' = [running EXCEPT ![t] = TRUE]
              /\ thread' = [thread EXCEPT ![t] = "loop"]
              /\ UNCHANGED <<main, todo, exitCode>>
        /\ UNCHANGED <<listenFd, shut, conn>>

NetStarted ==
    /\ main = "net.Start" /\ NextNet > NetCount
    /\ main' = "game.Start"
    /\ alive' = alive \cup {"net", "game"}
    /\ UNCHANGED <<todo, exitCode, running, threadVars, listenFd, shut>>

(* GameService::Start fails only before its first worker (too many of them).    *)
StartGameWorkers ==
    /\ main = "game.Start"
    /\ alive' = alive
    /\ \/ /\ Fail
          /\ UNCHANGED <<thread, running>>
       \/ /\ running' = [t \in Threads |-> running[t] \/ t \in GameThreads]
          /\ thread' = [t \in Threads |-> IF t \in GameThreads THEN "loop" ELSE thread[t]]
          /\ main' = "serve"
          /\ UNCHANGED <<todo, exitCode>>
    /\ UNCHANGED <<fds, listenFd, shut, conn>>

(* --run-secs is over.                                                          *)
RunSecsOver ==
    /\ main = "serve"
    /\ alive' = alive
    /\ GoDown(0, ExplicitStops)
    /\ UNCHANGED <<running, threadVars, listenFd, shut>>

--------------------------------------------------------------------------------
(* Stop and the destructors.                                                    *)

Call == Head(todo)

(* Mutant of StopCalls: the listener is closed while its thread may be using it.*)
StopCalls_CloseFirst(t) == IF t = MS THEN <<"shutdown", "close", "join">> ELSE <<"join">>

(* What Stop does once _running is false.                                       *)
StopCalls(t) == IF t = MS THEN <<"shutdown", "join", "close">> ELSE <<"join">>

(* Only the first Stop of a running thread does anything.                       *)
StopSignal ==
    LET t == Call.thread
        rest == [i \in 1 .. Len(StopCalls(t)) |-> [Stop(t) EXCEPT !.do = StopCalls(t)[i]]]
    IN  /\ main = "down" /\ todo # <<>> /\ Call.do = "stop"
        /\ todo' = IF running[t] THEN rest \o Tail(todo) ELSE Tail(todo)
        /\ running' = [running EXCEPT ![t] = FALSE]
        /\ UNCHANGED <<main, exitCode, alive, threadVars, listenFd, shut>>

(* Mutant of Shutdown: an accept that waits is not woken.                       *)
Shutdown_Nothing == shut

(* shutdown(_listenFd) wakes an accept, and makes every later one fail.         *)
Shutdown == TRUE

StopShutdown ==
    /\ main = "down" /\ todo # <<>> /\ Call.do = "shutdown"
    /\ shut' = Shutdown
    /\ todo' = Tail(todo)
    /\ UNCHANGED <<main, exitCode, alive, running, threadVars, listenFd>>

Joined(t) == thread[t] \in {"none", "ended"}

StopJoin ==
    /\ main = "down" /\ todo # <<>> /\ Call.do = "join"
    /\ Joined(Call.thread)
    /\ todo' = Tail(todo)
    /\ UNCHANGED <<main, exitCode, alive, running, threadVars, listenFd, shut>>

StopClose ==
    /\ main = "down" /\ todo # <<>> /\ Call.do = "close"
    /\ fds' = Close({listenFd})
    /\ listenFd' = None
    /\ todo' = Tail(todo)
    /\ UNCHANGED <<main, exitCode, alive, running, thread, conn, shut>>

Destroy ==
    /\ main = "down" /\ todo # <<>> /\ Call.do = "free"
    /\ alive' = alive \ {Call.object}
    /\ todo' = Tail(todo)
    /\ UNCHANGED <<main, exitCode, running, threadVars, listenFd, shut>>

Exit ==
    /\ main = "down" /\ todo = <<>>
    /\ main' = "exited"
    /\ UNCHANGED <<todo, exitCode, alive, running, threadVars, listenFd, shut>>

MainStep ==
    \/ StartMetrics \/ InitPools \/ StartNetWorker \/ NetStarted \/ StartGameWorkers
    \/ StopSignal \/ StopShutdown \/ StopJoin \/ StopClose \/ Destroy \/ Exit

--------------------------------------------------------------------------------
(* The metrics thread (Server::Loop).                                           *)

Goes(t, pc) == thread' = [thread EXCEPT ![t] = pc]

MsCheck ==
    /\ thread[MS] = "check"
    /\ Goes(MS, IF running[MS] THEN "accept" ELSE "ended")
    /\ UNCHANGED <<mainVars, fds, listenFd, shut, conn>>

(* A scrape arrives.                                                            *)
MsAccept ==
    /\ thread[MS] = "accept" /\ ~shut /\ ~TableFull
    /\ conn' = Lowest
    /\ fds' = [fds EXCEPT ![Lowest] = Scrape]
    /\ Goes(MS, "serve")
    /\ UNCHANGED <<mainVars, listenFd, shut>>

(* accept fails: the listener is shut down, or the table is full.               *)
MsAcceptFails ==
    /\ thread[MS] = "accept"
    /\ shut \/ TableFull
    /\ Goes(MS, "failed")
    /\ UNCHANGED <<mainVars, fds, listenFd, shut, conn>>

MsFailed ==
    /\ thread[MS] = "failed"
    /\ Goes(MS, IF running[MS] THEN "check" ELSE "ended")
    /\ UNCHANGED <<mainVars, fds, listenFd, shut, conn>>

(* Reading is bounded by SO_RCVTIMEO; the dump is written and the scrape closed.*)
MsServe ==
    /\ thread[MS] = "serve"
    /\ fds' = Close({conn})
    /\ conn' = None
    /\ Goes(MS, "check")
    /\ UNCHANGED <<mainVars, listenFd, shut>>

--------------------------------------------------------------------------------
(* The workers, coarsely.                                                       *)

(* An epoll worker accepts a session or closes one.                             *)
NetAccept(t) ==
    /\ thread[t] = "loop" /\ running[t] /\ ~TableFull
    /\ fds' = [fds EXCEPT ![Lowest] = Session(t)]
    /\ UNCHANGED <<mainVars, thread, conn, listenFd, shut>>

NetDisconnect(t) ==
    /\ thread[t] = "loop"
    /\ \E n \in OpenBy(Session(t)) : fds' = Close({n})
    /\ UNCHANGED <<mainVars, thread, conn, listenFd, shut>>

(* CleanupInThread closes the sessions, the listener and the epoll descriptor.  *)
CleanedUp(t) == OpenBy(t) \cup OpenBy(Session(t))

NetEnds(t) ==
    /\ thread[t] = "loop" /\ ~running[t]
    /\ fds' = Close(CleanedUp(t))
    /\ Goes(t, "ended")
    /\ UNCHANGED <<mainVars, conn, listenFd, shut>>

GameEnds(t) ==
    /\ thread[t] = "loop" /\ ~running[t]
    /\ Goes(t, "ended")
    /\ UNCHANGED <<mainVars, fds, conn, listenFd, shut>>

--------------------------------------------------------------------------------

ThreadRuns ==
    \/ MsCheck \/ MsAcceptFails \/ MsFailed \/ MsServe

Next ==
    \/ MainStep \/ RunSecsOver
    \/ ThreadRuns \/ MsAccept
    \/ \E t \in NetThreads : NetAccept(t) \/ NetDisconnect(t) \/ NetEnds(t)
    \/ \E t \in GameThreads : GameEnds(t)

Spec == Init /\ [][Next]_vars

(* Every thread that can go on does; nobody has to scrape or connect, and the   *)
(* server may serve for ever.                                                   *)
FairSpec ==
    /\ Spec
    /\ WF_vars(MainStep) /\ WF_vars(ThreadRuns)
    /\ \A t \in NetThreads : WF_vars(NetEnds(t))
    /\ \A t \in GameThreads : WF_vars(GameEnds(t))

--------------------------------------------------------------------------------

Places == {"none", "check", "accept", "failed", "serve", "loop", "ended"}

TypeOK ==
    /\ main \in {"ms.Start", "Init", "net.Start", "game.Start", "serve", "down", "exited"}
    /\ todo \in Seq(Calls) /\ exitCode \in {None, 0, 1} /\ alive \subseteq Objects
    /\ thread \in [Threads -> Places] /\ running \in [Threads -> BOOLEAN]
    /\ fds \in [Fds -> Threads \cup {Session(t) : t \in NetThreads} \cup {Nobody, MS, Scrape, Leaked}]
    /\ {listenFd, conn} \subseteq Fds \cup {None} /\ shut \in BOOLEAN

(* A thread never outlives what it uses: on every way down, from whatever step  *)
(* of the start, the game workers and epoll workers have ended before the pools *)
(* they borrow from main are destroyed (main.cpp:114).                          *)
Uses(t) ==
    CASE t = MS           -> {"ms"}
      [] t \in NetThreads  -> {"net", "sessions", "dirty", "rooms"}
      [] t \in GameThreads -> {"game", "sessions", "dirty", "rooms"}

NoDanglingUse == \A t \in Threads : thread[t] \notin {"none", "ended"} => Uses(t) \subseteq alive

(* The metrics thread accepts on its own listener: the descriptor's number is   *)
(* never closed, and so never anybody else's, while it may still be used        *)
(* (Metrics.cpp:237).                                                           *)
OwnListener == thread[MS] = "accept" => listenFd # None /\ fds[listenFd] = MS

(* Once main goes down it exits: no join waits for ever, whatever a thread is   *)
(* doing when it is told to stop (Metrics.cpp:232).  A run that ends as planned *)
(* has closed everything it opened.                                             *)
ComesDown == main = "down" ~> main = "exited" /\ (exitCode = 0 => Free = Fds)

================================================================================
