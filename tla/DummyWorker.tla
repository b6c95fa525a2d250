------------------------------ MODULE DummyWorker ------------------------------
(* One worker thread of the load generator belt_dummy (dummy_main.cpp): its     *)
(* clients connect, join or echo, hold back what the kernel does not take,      *)
(* check what comes back, are cut and reconnect.                                *)
(*                                                                              *)
(* A message is two halves, so that a write may stop and a read may end in the  *)
(* middle of one.  Time is abstracted: a timer that is set may be due in any    *)
(* round of the loop.  The socket and the server are external: the server       *)
(* answers whole messages in order, and cuts a connection when its send ring is *)
(* full, or at any other time.  Of the counters only "active" is kept.          *)
EXTENDS Integers, Sequences

CONSTANTS
    Clients,         \* the clients of this worker
    Attackers,       \* the first --attack-sendq of them
    Options,         \* the command lines a run may be started with
    kPendMax,        \* halves a client may hold back
    OverSend,        \* --over-send: unanswered echoes allowed, 0 for no limit
    SndCap, RingCap, \* halves: kernel send buffer, server send ring and the way back
    MaxEcho,         \* bound: echoes per connection
    MaxConns         \* bound: connections per client

ASSUME OptionAssumption ==
    /\ Attackers \subseteq Clients
    /\ \A o \in Options :
         /\ o.mode \in {"game", "echo"}
         /\ o.churn \in BOOLEAN /\ o.attack \in BOOLEAN /\ o.slow \in BOOLEAN
ASSUME SizeAssumption ==
    /\ kPendMax \in Nat \ {0, 1} /\ OverSend \in Nat
    /\ SndCap \in Nat \ {0} /\ RingCap \in Nat \ {0, 1}
    /\ MaxEcho \in Nat /\ MaxConns \in Nat \ {0}

VARIABLES
    opt,        \* the command line
    cl,         \* Client, with its socket
    pc, todo,   \* where Loop is, and the clients it still has to look at there
    batch,      \* what epoll_wait reported
    conns       \* history: connections each client has had

vars == <<opt, cl, pc, todo, batch, conns>>

Half(kind, n, p) == [kind |-> kind, seq |-> n, part |-> p]
Msg(kind, n)     == <<Half(kind, n, 1), Half(kind, n, 2)>>
Halves == [kind : {"ECHO", "JOIN", "INPUT", "JOIN_OK", "JOIN_FAIL"},
           seq : 0 .. MaxEcho, part : {1, 2}]

Smaller(a, b) == IF a < b THEN a ELSE b

(* Client{}; act is its share of g_stats.active, alarm says whether it has      *)
(* reported a violation of integrity.                                           *)
NewClient ==
    [state |-> "Idle", fd |-> FALSE, want |-> FALSE, attacker |-> FALSE,
     pend |-> <<>>, recv |-> <<>>, echoSeq |-> 0, expectRecv |-> 1, pending |-> 0,
     churnAt |-> FALSE, reconnectAt |-> FALSE, nextRecv |-> FALSE,
     act |-> 0, alarm |-> FALSE,
     link |-> "none", reg |-> {}, out |-> <<>>, in |-> <<>>]

Client ==
    [state : {"Idle", "Connecting", "Joining", "Active", "Dead"},
     fd : BOOLEAN, want : BOOLEAN, attacker : BOOLEAN,
     pend : Seq(Halves), recv : Seq(Halves),
     echoSeq : 0 .. MaxEcho, expectRecv : 1 .. MaxEcho + 1, pending : 0 .. MaxEcho,
     churnAt : BOOLEAN, reconnectAt : BOOLEAN, nextRecv : BOOLEAN,
     act : {0, 1}, alarm : BOOLEAN,
     link : {"none", "syn", "up", "down"}, reg : SUBSET {"IN", "OUT"},
     out : Seq(Halves), in : Seq(Halves)]

(* No buffer holds more than it has room for.                                   *)
Fits(x) ==
    /\ Len(x.pend) <= kPendMax /\ Len(x.recv) <= 1
    /\ Len(x.out) <= SndCap /\ Len(x.in) <= RingCap

TypeOK ==
    /\ opt \in Options
    /\ cl \in [Clients -> Client] /\ \A c \in Clients : Fits(cl[c])
    /\ pc \in {"top", "wait", "events", "scan", "done"} /\ todo \subseteq Clients
    /\ batch \in [Clients -> SUBSET {"IN", "OUT", "HUP"}]
    /\ conns \in [Clients -> 0 .. MaxConns]

Init ==
    /\ opt \in Options
    /\ cl = [c \in Clients |-> NewClient]
    /\ pc = "top" /\ todo = {}
    /\ batch = [c \in Clients |-> {}]
    /\ conns = [c \in Clients |-> 0]

--------------------------------------------------------------------------------
(* Kill, connecting.                                                            *)

(* Mutant of RevivedByChurn: only a cut by the server is followed by a retry.   *)
RevivedByChurn_ByServer(x) == x.reconnectAt \/ (opt.churn /\ x.link = "down")

(* With churn every client that is cut, by whomever, will connect again.        *)
RevivedByChurn(x) == x.reconnectAt \/ opt.churn

(* Mutant of Uncounted: a client that is cut stays counted.                     *)
Uncounted_Not(x) == x.act

(* A client that was Active leaves the count.                                   *)
Uncounted(x) == IF x.state = "Active" THEN x.act - 1 ELSE x.act

Kill(x) ==
    IF x.state = "Dead" THEN x
    ELSE [x EXCEPT !.state = "Dead", !.fd = FALSE, !.act = Uncounted(x),
                   !.reconnectAt = RevivedByChurn(x),
                   !.link = "none", !.reg = {}, !.out = <<>>, !.in = <<>>]

(* Mutant of FreshEcho: the check of the order goes on from the last connection.*)
FreshEcho_Kept(x) == [x EXCEPT !.echoSeq = 0, !.pending = 0, !.recv = <<>>, !.pend = <<>>]

(* A new connection is a new session of the server: it counts from one again.   *)
FreshEcho(x) ==
    [x EXCEPT !.echoSeq = 0, !.expectRecv = 1, !.pending = 0, !.recv = <<>>, !.pend = <<>>]

(* StartConnect, when socket and connect succeed.  (want is not reset.)         *)
Connecting(c, x) ==
    [FreshEcho(x) EXCEPT
        !.state = "Connecting", !.fd = TRUE,
        !.attacker = opt.mode = "echo" /\ opt.attack /\ c \in Attackers,
        !.reconnectAt = FALSE, !.churnAt = opt.churn,
        !.link = "syn", !.reg = {"IN", "OUT"}]

(* StartConnect, when one of them fails.                                        *)
NotConnecting(x) == [x EXCEPT !.state = "Dead", !.fd = FALSE]

--------------------------------------------------------------------------------
(* Sending.                                                                     *)

(* The kernel takes what it has room for.                                       *)
Taken(x, data) == Smaller(Len(data), SndCap - Len(x.out))

(* A write to a connection the server has cut may fail.                         *)
MayFail(x) == IF x.link = "down" THEN {Kill(x)} ELSE {}

(* Mutant of Behind: a message overtakes what is held back.                     *)
Behind_Front(x, data) == [x EXCEPT !.pend = data \o @]

(* What is held back goes first.                                                *)
Behind(x, data) == [x EXCEPT !.pend = @ \o data]

SendBytes(x, data) ==
    IF x.pend # <<>>
      THEN {IF Len(x.pend) + Len(data) > kPendMax THEN Kill(x) ELSE Behind(x, data)}
      ELSE LET k == Taken(x, data)
           IN  {[x EXCEPT !.out = @ \o SubSeq(data, 1, k),
                          !.pend = SubSeq(data, k + 1, Len(data)),
                          !.want = @ /\ k = Len(data)]} \cup MayFail(x)

FlushPend(x) ==
    IF x.pend = <<>> THEN {x}
    ELSE LET k == Taken(x, x.pend)
         IN  {[x EXCEPT !.out = @ \o SubSeq(x.pend, 1, k),
                        !.pend = SubSeq(@, k + 1, Len(@))]} \cup MayFail(x)

(* Mutant of Interest: EPOLLOUT is never asked for.                             *)
Interest_NoOut(in, out) == IF in THEN {"IN"} ELSE {}

(* The events epoll_ctl is asked for, EPOLLRDHUP always among them.             *)
Interest(in, out) == (IF in THEN {"IN"} ELSE {}) \cup (IF out THEN {"OUT"} ELSE {})

UpdateWrite(x, want) ==
    IF x.want = want \/ ~x.fd THEN x
    ELSE [x EXCEPT !.reg = Interest(~x.attacker, want), !.want = want]

(* Mutant of Armed: nobody asks for EPOLLOUT after a short write.               *)
Armed_Not(x) == x

(* What is held back waits for EPOLLOUT.                                        *)
Armed(x) == IF x.pend # <<>> THEN UpdateWrite(x, TRUE) ELSE x

SendEcho(x) ==
    LET n == x.echoSeq + 1
    IN  {IF y.state = "Dead" THEN y ELSE [Armed(y) EXCEPT !.pending = @ + 1] :
            y \in SendBytes([x EXCEPT !.echoSeq = n], Msg("ECHO", n))}

--------------------------------------------------------------------------------
(* Receiving.                                                                   *)

(* Mutant of CheckEcho: an expected echo does not move the expectation on.      *)
CheckEcho_Stuck(x, h) == [x EXCEPT !.pending = IF @ > 0 THEN @ - 1 ELSE 0]

(* The order check: an echo that was skipped, or one that is not whole, is a    *)
(* violation; an old one is only late.                                          *)
CheckEcho(x, h) ==
    [x EXCEPT !.pending = IF @ > 0 THEN @ - 1 ELSE 0,
              !.alarm = @ \/ h.seq > x.expectRecv,
              !.expectRecv = IF h.seq < @ THEN @ ELSE h.seq + 1]

JoinOk(x) == IF x.state = "Joining" THEN [x EXCEPT !.state = "Active", !.act = @ + 1] ELSE x

(* A message, if its two halves belong together.                                *)
Frame(x, h, t) ==
    CASE x.state = "Dead"                              -> x
      [] x.state # "Dead" /\ t # [h EXCEPT !.part = 2] -> [x EXCEPT !.alarm = TRUE]
      [] x.state # "Dead" /\ t = [h EXCEPT !.part = 2] ->
           CASE h.kind = "ECHO"      -> CheckEcho(x, h)
             [] h.kind = "JOIN_OK"   -> JoinOk(x)
             [] h.kind = "JOIN_FAIL" -> Kill(x)
             [] OTHER                -> x

(* All whole messages are consumed, a half stays for the next read.             *)
ParseFrames(x) ==
    LET whole == Len(x.recv) \div 2
        f[k \in 0 .. whole] ==
            IF k = 0 THEN x ELSE Frame(f[k - 1], x.recv[2 * k - 1], x.recv[2 * k])
    IN  [f[whole] EXCEPT !.recv = SubSeq(x.recv, 2 * whole + 1, Len(x.recv))]

Slow(x) == x.attacker /\ opt.slow

(* What has arrived is read, the end of the stream ends the connection; a slow  *)
(* reader reads once, so it meets the end only when nothing else is there.      *)
OnReadable(x) ==
    LET Read(k) == ParseFrames([x EXCEPT !.recv = @ \o SubSeq(x.in, 1, k),
                                         !.in = SubSeq(@, k + 1, Len(@))])
        arrived == IF x.in = <<>> THEN {0} ELSE 1 .. Len(x.in)
        got     == {Read(k) : k \in arrived}
        ended   == {Kill(y) : y \in {z \in got : x.link = "down" /\ (Slow(x) => x.in = <<>>)}}
    IN  IF ~x.fd THEN {x} ELSE got \cup ended

(* A slow reader turns deaf again until its timer fires.                        *)
Deafened(x) ==
    IF Slow(x) /\ x.state = "Active"
      THEN [x EXCEPT !.reg = Interest(FALSE, x.want), !.nextRecv = TRUE] ELSE x

--------------------------------------------------------------------------------
(* Loop.                                                                        *)

(* The next client in todo has been looked at and is x now.                     *)
Done(c, x, next) ==
    /\ cl' = [cl EXCEPT ![c] = x]
    /\ todo' = IF todo = {c} THEN Clients ELSE todo \ {c}
    /\ pc' = IF todo = {c} THEN next ELSE pc

(* The head of a round: the run goes on, and the next client, if there is one,  *)
(* is connected.  (The code: up to --ramp clients per round.)                   *)
Ramp(c, x) ==
    /\ pc = "top"
    /\ \A d \in Clients : ~cl[d].alarm
    /\ cl[c].state = "Idle"
    /\ x \in {Connecting(c, cl[c]), NotConnecting(cl[c])}
    /\ cl' = [cl EXCEPT ![c] = x]
    /\ conns' = [conns EXCEPT ![c] = IF x.fd THEN @ + 1 ELSE @]
    /\ pc' = "wait"
    /\ UNCHANGED <<opt, todo, batch>>

RampDone ==
    /\ pc = "top"
    /\ \A c \in Clients : ~cl[c].alarm /\ cl[c].state # "Idle"
    /\ pc' = "wait"
    /\ UNCHANGED <<opt, cl, todo, batch, conns>>

(* The deadline has passed, or a violation was found: all clients are cut.      *)
Finish ==
    /\ pc = "top"
    /\ cl' = [c \in Clients |-> Kill(cl[c])]
    /\ pc' = "done"
    /\ UNCHANGED <<opt, todo, batch, conns>>

(* What epoll_wait would report of a socket.                                    *)
Ready(x) ==
    CASE x.link \in {"none", "syn"} -> {}
      [] x.link = "down"            -> {"HUP"} \cup x.reg
      [] x.link = "up"              ->
           {e \in x.reg : \/ e = "IN" /\ x.in # <<>>
                          \/ e = "OUT" /\ Len(x.out) < SndCap}

EpollWait ==
    /\ pc = "wait"
    /\ batch' = [c \in Clients |-> Ready(cl[c])]
    /\ pc' = "events" /\ todo' = Clients
    /\ UNCHANGED <<opt, cl, conns>>

(* The four ways through OnEvent.                                               *)
Event(c, x) ==
    /\ pc = "events" /\ c \in todo
    /\ Done(c, x, "scan")
    /\ UNCHANGED <<opt, batch, conns>>

OnNothing(c) ==
    /\ cl[c].state = "Dead" \/ batch[c] = {}
    /\ Event(c, cl[c])

OnHup(c) ==
    /\ cl[c].state # "Dead" /\ "HUP" \in batch[c]
    /\ Event(c, Kill(cl[c]))

(* An attacker stops to read for good, or until its timer fires.  In game mode  *)
(* the state is set after the JOIN was sent, whatever became of it.             *)
OnConnected(c) ==
    /\ cl[c].state = "Connecting" /\ "OUT" \in batch[c] /\ "HUP" \notin batch[c]
    /\ \/ /\ opt.mode = "echo"
          /\ LET x == [cl[c] EXCEPT !.state = "Active", !.act = @ + 1]
             IN  Event(c, IF x.attacker
                            THEN [x EXCEPT !.reg = {}, !.want = FALSE, !.nextRecv = opt.slow]
                            ELSE UpdateWrite(x, x.pend # <<>>))
       \/ /\ opt.mode = "game"
          /\ \E y \in SendBytes(cl[c], Msg("JOIN", 0)) :
               Event(c, UpdateWrite([y EXCEPT !.state = "Joining"], y.pend # <<>>))

OnReady(c) ==
    /\ cl[c].state \notin {"Dead", "Connecting"} /\ cl[c].fd
    /\ batch[c] # {} /\ "HUP" \notin batch[c]
    /\ \E y \in (IF "OUT" \in batch[c] THEN FlushPend(cl[c]) ELSE {cl[c]}) :
         LET z == IF "OUT" \in batch[c] /\ y.pend = <<>> THEN UpdateWrite(y, FALSE) ELSE y
         IN  \/ "IN" \notin batch[c] /\ Event(c, z)
             \/ "IN" \in batch[c] /\ \E w \in OnReadable(z) : Event(c, Deafened(w))

(* The pass over all clients after the events.                                  *)
Scan(c, x) ==
    /\ pc = "scan" /\ c \in todo
    /\ Done(c, x, "top")
    /\ UNCHANGED <<opt, batch>>

(* A client that was cut connects again when its wait is over.                  *)
ScanReconnect(c, x) ==
    /\ cl[c].state = "Dead" /\ cl[c].reconnectAt
    /\ conns[c] < MaxConns
    /\ x \in {Connecting(c, cl[c]), NotConnecting(cl[c])}
    /\ Scan(c, x)
    /\ conns' = [conns EXCEPT ![c] = IF x.fd THEN @ + 1 ELSE @]

(* A client whose time is over cuts itself.                                     *)
ScanChurn(c) ==
    /\ cl[c].state = "Active" /\ cl[c].churnAt
    /\ Scan(c, Kill(cl[c]))
    /\ UNCHANGED conns

MaySend(x) == x.echoSeq < MaxEcho

(* A slow reader whose timer fires listens again.                               *)
Listening(x) == [x EXCEPT !.reg = Interest(TRUE, x.want), !.nextRecv = FALSE]

(* An attacker sends in every round, unless it is cut.                          *)
ScanAttack(c) ==
    LET x == cl[c]
    IN  /\ x.state = "Active" /\ x.attacker
        /\ \E y \in {x} \cup (IF opt.slow /\ x.nextRecv THEN {Listening(x)} ELSE {}) :
             \E z \in (IF MaySend(x) THEN SendEcho(y) ELSE {y}) : Scan(c, z)
        /\ UNCHANGED conns

(* A client that is due sends its echo, when its window allows, or its input.   *)
ScanSend(c) ==
    LET x == cl[c]
    IN  /\ x.state = "Active" /\ ~x.attacker
        /\ \/ /\ opt.mode = "echo" /\ MaySend(x)
              /\ OverSend > 0 => x.pending < OverSend
              /\ \E y \in SendEcho(x) : Scan(c, y)
           \/ /\ opt.mode = "game"
              /\ \E y \in SendBytes(x, Msg("INPUT", 0)) :
                   Scan(c, IF y.state = "Dead" THEN y ELSE Armed(y))
        /\ UNCHANGED conns

(* Nothing is due.                                                              *)
ScanQuiet(c) ==
    /\ ~(cl[c].state = "Active" /\ cl[c].attacker)
    /\ Scan(c, cl[c])
    /\ UNCHANGED conns

LoopStep ==
    \/ RampDone \/ EpollWait
    \/ \E c \in Clients :
         \/ \E x \in {Connecting(c, cl[c]), NotConnecting(cl[c])} : Ramp(c, x) \/ ScanReconnect(c, x)
         \/ OnNothing(c) \/ OnHup(c) \/ OnConnected(c) \/ OnReady(c)
         \/ ScanChurn(c) \/ ScanAttack(c) \/ ScanSend(c) \/ ScanQuiet(c)

--------------------------------------------------------------------------------
(* The network and the server (external).                                       *)

Outside(c, x) ==
    /\ cl' = [cl EXCEPT ![c] = x]
    /\ UNCHANGED <<opt, pc, todo, batch, conns>>

Handshake(c) ==
    /\ cl[c].link = "syn"
    /\ \E l \in {"up", "down"} : Outside(c, [cl[c] EXCEPT !.link = l])

(* The server takes a whole message and answers it, or cuts the connection when *)
(* the answer does not fit.                                                     *)
Serve(c) ==
    LET x == cl[c]
        Answer(msg) == IF Len(x.in) + 2 > RingCap
                         THEN [x EXCEPT !.link = "down"]
                         ELSE [x EXCEPT !.out = SubSeq(@, 3, Len(@)), !.in = @ \o msg]
    IN  /\ x.link = "up" /\ Len(x.out) >= 2
        /\ \/ x.out[1].kind = "ECHO" /\ Outside(c, Answer(SubSeq(x.out, 1, 2)))
           \/ x.out[1].kind = "JOIN"
              /\ \E k \in {"JOIN_OK", "JOIN_FAIL"} : Outside(c, Answer(Msg(k, 0)))
           \/ x.out[1].kind = "INPUT"
              /\ Outside(c, [x EXCEPT !.out = SubSeq(@, 3, Len(@))])

Cut(c) ==
    /\ cl[c].link = "up"
    /\ Outside(c, [cl[c] EXCEPT !.link = "down"])

Next ==
    \/ LoopStep
    \/ Finish
    \/ \E c \in Clients : Handshake(c) \/ Serve(c) \/ Cut(c)

Spec == Init /\ [][Next]_vars

(* The thread runs, and ends when a violation was found; the network answers a  *)
(* connect, the server reads; a wait for a reconnect ends, and the process does *)
(* not run out of descriptors for ever.                                         *)
FairSpec ==
    /\ Spec
    /\ WF_vars(LoopStep \/ (Finish /\ \E c \in Clients : cl[c].alarm))
    /\ \A c \in Clients :
         /\ WF_vars(Handshake(c)) /\ WF_vars(Serve(c))
         /\ SF_vars(ScanReconnect(c, Connecting(c, cl[c])))

--------------------------------------------------------------------------------

(* Everything on its way from the client to the client, oldest first.           *)
Pipe(x) == x.recv \o x.in \o x.out \o x.pend

(* The echoes first to last, two halves each.                                   *)
Echoes(first, last) ==
    [k \in 1 .. 2 * (last - first + 1) |-> Half("ECHO", first + (k - 1) \div 2, 1 + ((k - 1) % 2))]

(* The echo pipe of a live connection holds exactly the messages that are still *)
(* unanswered, whole and in order, whatever short writes, short reads and       *)
(* earlier connections there were; pending counts them (dummy_main.cpp:600-619, *)
(* 483-598 and the reset in 366-372).                                           *)
EchoPipe ==
    \A c \in Clients :
        LET x == cl[c]
        IN  opt.mode = "echo" /\ x.state = "Active"
            => /\ Pipe(x) = Echoes(x.expectRecv, x.echoSeq)
               /\ x.pending = x.echoSeq + 1 - x.expectRecv

(* With a server that answers in order the verification never reports a         *)
(* violation (dummy_main.cpp:541-588): an alarm stops the whole run.            *)
NoFalseAlarm == \A c \in Clients : ~cl[c].alarm

(* Bytes that are held back always have EPOLLOUT to bring them out, also when a *)
(* slow reader turns deaf or listens (dummy_main.cpp:600-640, 446-452, 743-751). *)
HeldBackIsArmed ==
    \A c \in Clients : cl[c].fd /\ cl[c].pend # <<>> /\ cl[c].state # "Connecting"
                       => "OUT" \in cl[c].reg

(* A slow reader listens, or a timer is set for it to listen again: "OnEvent    *)
(* will set it again after the next receive" (dummy_main.cpp:750).              *)
SlowReaderReturns ==
    \A c \in Clients : Slow(cl[c]) /\ cl[c].state = "Active"
                       => "IN" \in cl[c].reg \/ cl[c].nextRecv

(* An echo that was sent comes back, or its connection ends.                    *)
EchoReturns ==
    \A c \in Clients, n \in 1 .. MaxEcho :
        cl[c].state = "Active" /\ ~cl[c].attacker /\ cl[c].echoSeq = n
          ~> cl[c].expectRecv > n \/ cl[c].state # "Active"

(* With churn a client that was cut, by the server or by itself, connects again *)
(* (dummy_main.cpp:652).                                                        *)
CutComesBack ==
    \A c \in Clients :
        opt.churn /\ cl[c].state = "Dead" /\ conns[c] \in 1 .. MaxConns - 1
          ~> cl[c].state = "Connecting" \/ pc = "done"

================================================================================
