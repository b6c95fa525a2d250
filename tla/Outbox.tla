-------------------------------- MODULE Outbox ---------------------------------
(* What the send path promises, without dirty bits, short writes, EPOLLOUT and  *)
(* reference counts: every connection has a queue of its own, what is put into  *)
(* it leaves it in the order it was put, and nothing is lost or handed to       *)
(* another connection but by cutting the connection.  EpollWorker implements it *)
(* (EpollWorker!SendContract).                                                  *)
EXTENDS Integers, Sequences

CONSTANTS Sess, Down      \* session slots; "no connection"

VARIABLES
    conn,                 \* the connection a slot serves: its generation, or Down
    queue                 \* what has been put and not yet sent

vars == <<conn, queue>>

Init ==
    /\ conn  = [s \in Sess |-> Down]
    /\ queue = [s \in Sess |-> <<>>]

(* A connection begins with nothing to send.                                    *)
Open(s) ==
    /\ conn[s] = Down /\ conn'[s] # Down
    /\ conn' = [conn EXCEPT ![s] = conn'[s]]
    /\ UNCHANGED queue

(* A message is put at the end, and only for the connection it was made for.    *)
Put(s) ==
    /\ conn[s] # Down
    /\ queue'[s] # <<>>
    /\ LET m == queue'[s][Len(queue'[s])]
       IN  m.gen = conn[s] /\ queue' = [queue EXCEPT ![s] = Append(@, m)]
    /\ UNCHANGED conn

(* Messages leave from the front.                                               *)
Take(s) ==
    /\ \E n \in 1 .. Len(queue[s]) : queue' = [queue EXCEPT ![s] = SubSeq(@, n + 1, Len(@))]
    /\ UNCHANGED conn

Cut(s) ==
    /\ conn[s] # Down
    /\ conn'  = [conn EXCEPT ![s] = Down]
    /\ queue' = [queue EXCEPT ![s] = <<>>]

Next == \E s \in Sess : Open(s) \/ Put(s) \/ Take(s) \/ Cut(s)

Spec == Init /\ [][Next]_vars

================================================================================
