------------------------------ MODULE SessionPool ------------------------------
(* The session slot pool of Session.h.  A slot is kept alive by references:     *)
(* one netRef, held by the epoll worker that accepted the connection, and one   *)
(* gameRef, held by whichever queue entry or room seat names the session.  The  *)
(* slot goes back to the pool, with its generation raised, when the last        *)
(* reference is returned, on whatever thread that happens.                      *)
(*                                                                              *)
(* This module has no next-state relation of its own: its operators are the     *)
(* parts of actions that RoomManager composes.  Each runs under the pool's lock *)
(* or is one atomic instruction, so each is one step.                           *)
(*                                                                              *)
(* Left out: the order of the free list (Alloc hands out any free slot), the    *)
(* two rings of a slot, and the wrap-around of the 32-bit generation.           *)
EXTENDS Integers

CONSTANT Sess             \* the slots of the pool

VARIABLES free,           \* SessionPool::_free, the slots that may be handed out
          gen,            \* Session::gen
          refs,           \* Session::refs
          dead            \* Session::dead

poolVars == <<free, gen, refs, dead>>

PoolInit ==
    /\ free = Sess
    /\ gen  = [s \in Sess |-> 0]
    /\ refs = [s \in Sess |-> 0]
    /\ dead = [s \in Sess |-> FALSE]

PoolTypeOK ==
    /\ free \subseteq Sess
    /\ gen  \in [Sess -> Nat]
    /\ refs \in [Sess -> Int]
    /\ dead \in [Sess -> BOOLEAN]

Alloc(s) ==
    /\ s \in free
    /\ free' = free \ {s}
    /\ refs' = [refs EXCEPT ![s] = 1]
    /\ dead' = [dead EXCEPT ![s] = FALSE]
    /\ UNCHANGED gen

(* Mutant of AddRef: the queued entry takes no reference.                       *)
AddRef_Missing(s) == UNCHANGED poolVars

AddRef(s) ==
    /\ refs' = [refs EXCEPT ![s] = @ + 1]
    /\ UNCHANGED <<free, gen, dead>>

(* Mutant of Release: the generation goes down.                                 *)
Release_GenDown(s) ==
    /\ refs' = [refs EXCEPT ![s] = @ - 1]
    /\ IF refs[s] = 1
         THEN gen' = [gen EXCEPT ![s] = @ - 1] /\ free' = free \cup {s}
         ELSE UNCHANGED <<gen, free>>
    /\ UNCHANGED dead

Release(s) ==
    /\ refs' = [refs EXCEPT ![s] = @ - 1]
    /\ IF refs[s] = 1
         THEN /\ gen'  = [gen EXCEPT ![s] = @ + 1]
              /\ free' = free \cup {s}
         ELSE UNCHANGED <<gen, free>>
    /\ UNCHANGED dead

================================================================================
