------------------------------ MODULE SeatService ------------------------------
(* What the room manager promises, without threads, locks, queues or reference  *)
(* counts: who is online, and who has which seat.  RoomManager implements it    *)
(* (RoomManager!SeatContract).                                                  *)
EXTENDS Integers

CONSTANTS Sess, Rooms, Seats

VARIABLES
    online,               \* the slot serves a connection
    seatsOf               \* the seats a slot holds: none or one

vars == <<online, seatsOf>>

Init ==
    /\ online  = [s \in Sess |-> FALSE]
    /\ seatsOf = [s \in Sess |-> {}]

Taken(r) == {i \in Seats : \E s \in Sess : <<r, i>> \in seatsOf[s]}

(* A slot is handed to a new connection when nothing is left of the last one.   *)
Connect(s) ==
    /\ ~online[s] /\ seatsOf[s] = {}
    /\ online' = [online EXCEPT ![s] = TRUE]
    /\ UNCHANGED seatsOf

Disconnect(s) ==
    /\ online[s]
    /\ online' = [online EXCEPT ![s] = FALSE]
    /\ UNCHANGED seatsOf

(* A connection without a seat takes the lowest vacant seat of some room.       *)
TakeSeat(s, r, i) ==
    /\ online[s] /\ seatsOf[s] = {}
    /\ i \notin Taken(r) /\ \A j \in Seats \ Taken(r) : i <= j
    /\ seatsOf' = [seatsOf EXCEPT ![s] = {<<r, i>>}]
    /\ UNCHANGED online

(* Only a slot whose connection is gone loses its seat.                         *)
GiveUp(s) ==
    /\ ~online[s] /\ seatsOf[s] # {}
    /\ seatsOf' = [seatsOf EXCEPT ![s] = {}]
    /\ UNCHANGED online

(* A party moves to an empty room as one, every player to its own seat there.   *)
MoveParty(r, q) ==
    /\ Taken(r) # {} /\ Taken(q) = {}
    /\ seatsOf' = [s \in Sess |-> {<<IF h[1] = r THEN q ELSE h[1], h[2]>> : h \in seatsOf[s]}]
    /\ UNCHANGED online

SeatStep ==
    \/ \E s \in Sess : GiveUp(s)
    \/ \E s \in Sess, r \in Rooms, i \in Seats : TakeSeat(s, r, i)
    \/ \E r, q \in Rooms : MoveParty(r, q)

(* (The inequations are implied by what follows them; TLC decides them faster.) *)
Next ==
    \/ online' # online /\ \E s \in Sess : Connect(s) \/ Disconnect(s)
    \/ seatsOf' # seatsOf /\ SeatStep

Spec == Init /\ [][Next]_vars

--------------------------------------------------------------------------------

(* The contract rules out double booking: a slot has at most one seat, a seat   *)
(* belongs to at most one slot, however parties join, leave and move rooms      *)
(* (RoomManager.cpp:132, 254, 494).                                             *)
NoDoubleBooking ==
    /\ seatsOf \in [Sess -> SUBSET (Rooms \X Seats)]
    /\ \A s \in Sess : \A h, k \in seatsOf[s] : h = k
    /\ \A s, t \in Sess : seatsOf[s] \cap seatsOf[t] # {} => s = t

================================================================================
