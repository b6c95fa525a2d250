---------------------------- MODULE GameWorkerProofs ---------------------------
(* Proofs about the pacing of the game workers, for any number of workers, any  *)
(* tick length and any catch-up limit.  The properties of GameWorker that TLC   *)
(* checks are not inductive one by one: how far the schedule may be ahead of    *)
(* the clock depends on where the worker is in its loop, which Loops says.      *)
EXTENDS GameWorker, TLAPS

(* A worker asleep has published its schedule; one that runs ticks woke when    *)
(* the next tick was due, and runs another only if that is due as well; and     *)
(* after its first tick its schedule is at most one period ahead of the clock.  *)
Loops ==
    \A w \in Game :
        /\ pc[w] = "sleep" => nextTickAtNs[w] = next[w]
        /\ pc[w] = "tick"  => /\ now[w] <= clock
                              /\ next[w] <= now[w]
                              /\ nextTickAtNs[w] <= now[w]
        /\ ticks[w] > 0    => next[w] <= clock + kTickPeriodNs

IInv == TypeOK /\ TickLedger /\ DebtSettled /\ RemainBounded /\ Loops

(* Integer division by the tick length leaves a remainder below it.             *)
LEMMA DivBounds ==
    ASSUME NEW a \in Nat
    PROVE  /\ a \div kTickPeriodNs \in Nat
           /\ kTickPeriodNs * (a \div kTickPeriodNs) <= a
           /\ a < kTickPeriodNs * (a \div kTickPeriodNs) + kTickPeriodNs
BY PeriodAssumption, SMTT(30)

(* The first tick of a worker is at an integer time.                            *)
LEMMA FirstTickInt == ASSUME NEW w \in Game PROVE FirstTick(w) \in Int
<1>1. kTickPeriodNs \div WorkerCount \in Int
  BY PeriodAssumption, WorkerAssumption
<1>. QED
  BY <1>1, TimeAssumption, WorkerAssumption DEF FirstTick, Game

(* Running a tick keeps the ledger: one more tick is one more period.           *)
LEMMA OnePeriodMore ==
    ASSUME NEW t \in Nat, NEW s \in Nat
    PROVE  kTickPeriodNs * (t + 1 + s) = kTickPeriodNs * (t + s) + kTickPeriodNs
BY PeriodAssumption

(* A rebase keeps the ledger: the schedule moves from n by the tick just run,   *)
(* the ticks counted as skipped, and a remainder of less than a period.         *)
LEMMA RebaseRemainder ==
    ASSUME NEW n \in Int, NEW woke \in Int, woke >= n + kTickPeriodNs,
           NEW t \in Nat, NEW s \in Nat
    PROVE  LET k == Skipped(woke - n - kTickPeriodNs)
               d == woke + kTickPeriodNs - n - (kTickPeriodNs * (t + 1 + (s + k)) - kTickPeriodNs * (t + s))
           IN  k \in Nat /\ 0 <= d /\ d <= kTickPeriodNs - 1
<1>. DEFINE late == woke - n - kTickPeriodNs
            q == late \div kTickPeriodNs
<1>1. late \in Nat
  BY PeriodAssumption
<1>2. /\ q \in Nat
      /\ kTickPeriodNs * q <= late
      /\ late < kTickPeriodNs * q + kTickPeriodNs
  BY <1>1, DivBounds
<1>. HIDE DEF q
<1>3. kTickPeriodNs * (t + 1 + (s + (q + 1)))
        = kTickPeriodNs * (t + s) + kTickPeriodNs * q + kTickPeriodNs + kTickPeriodNs
  BY <1>2, PeriodAssumption
<1>4. Skipped(late) = q + 1
  BY DEF Skipped, q
<1>5. kTickPeriodNs * (t + s) \in Int /\ kTickPeriodNs * q \in Int
  BY <1>2, PeriodAssumption
<1>. QED
  BY <1>2, <1>3, <1>4, <1>5, PeriodAssumption

(* The invariant holds at the start.                                            *)
LEMMA InitInv == Init => IInv
<1>. SUFFICES ASSUME Init PROVE IInv
  OBVIOUS
<1>1. TypeOK
  BY FirstTickInt DEF Init, TypeOK
<1>2. TickLedger
  <2>. SUFFICES ASSUME NEW w \in Game
                PROVE  0 <= Slip(w) /\ Slip(w) <= (kTickPeriodNs - 1) * rebases[w]
    BY DEF TickLedger
  <2>1. Slip(w) = 0
    BY FirstTickInt, PeriodAssumption DEF Init, Slip, Accounted
  <2>. QED
    BY <2>1, PeriodAssumption DEF Init
<1>3. DebtSettled /\ RemainBounded /\ Loops
  BY DEF Init, DebtSettled, RemainBounded, Loops
<1>. QED
  BY <1>1, <1>2, <1>3 DEF IInv

(* Types are kept by every step.                                                *)
LEMMA StepType == TypeOK /\ [Next]_vars => TypeOK'
<1>. SUFFICES ASSUME TypeOK, [Next]_vars PROVE TypeOK'
  OBVIOUS
<1>1. CASE Elapse
  BY <1>1 DEF TypeOK, Elapse, locals, stats
<1>2. ASSUME NEW w \in Game, Publish(w) PROVE TypeOK'
  BY <1>2 DEF TypeOK, Publish, stats
<1>3. ASSUME NEW w \in Game, Wake(w) PROVE TypeOK'
  BY <1>3 DEF TypeOK, Wake, stats
<1>4. ASSUME NEW w \in Game, CatchUp(w) PROVE TypeOK'
  BY <1>4, PeriodAssumption DEF TypeOK, CatchUp, RunTick
<1>5. ASSUME NEW w \in Game, LastTick(w) PROVE TypeOK'
  BY <1>5, PeriodAssumption DEF TypeOK, LastTick, RunTick
<1>6. ASSUME NEW w \in Game, Rebase(w) PROVE TypeOK'
  <2>1. now[w] \in Int /\ next[w] \in Int /\ now[w] >= next[w] + kTickPeriodNs
    BY <1>6 DEF TypeOK, Rebase, Behind
  <2>2. Skipped(now[w] - next[w] - kTickPeriodNs) \in Nat
    BY <2>1, RebaseRemainder DEF TypeOK
  <2>. QED
    BY <1>6, <2>1, <2>2, PeriodAssumption DEF TypeOK, Rebase, RunTick, Rebased
<1>7. CASE UNCHANGED vars
  BY <1>7 DEF TypeOK, vars, locals, stats
<1>. QED
  BY <1>1, <1>2, <1>3, <1>4, <1>5, <1>6, <1>7 DEF Next, Step

(* A step leaves the ledger of every worker alone but that of the worker that   *)
(* runs a tick.                                                                 *)
LEMMA OtherSlip ==
    ASSUME NEW v \in Game, next'[v] = next[v], ticks'[v] = ticks[v],
           skippedTicks'[v] = skippedTicks[v]
    PROVE  Slip(v)' = Slip(v)
BY DEF Slip, Accounted, FirstTick

(* The tick ledger is kept by every step.                                       *)
LEMMA StepLedger == TypeOK /\ TickLedger /\ [Next]_vars => TickLedger'
<1>. SUFFICES ASSUME TypeOK, TickLedger, [Next]_vars, NEW v \in Game
              PROVE  0 <= Slip(v)' /\ Slip(v)' <= (kTickPeriodNs - 1) * rebases'[v]
  BY DEF TickLedger
<1>. /\ next[v] \in Int /\ now[v] \in Int
     /\ ticks[v] \in Nat /\ skippedTicks[v] \in Nat /\ rebases[v] \in Nat
     /\ FirstTick(v) \in Int
  BY FirstTickInt DEF TypeOK
<1>0. 0 <= Slip(v) /\ Slip(v) <= (kTickPeriodNs - 1) * rebases[v]
  BY DEF TickLedger
<1>1. CASE UNCHANGED <<next, ticks, skippedTicks, rebases>>
  BY <1>0, <1>1, OtherSlip
<1>2. ASSUME NEW w \in Game, CatchUp(w) \/ LastTick(w) PROVE 0 <= Slip(v)' /\ Slip(v)' <= (kTickPeriodNs - 1) * rebases'[v]
  <2>. next' = [next EXCEPT ![w] = @ + kTickPeriodNs] /\ ticks' = [ticks EXCEPT ![w] = @ + 1]
       /\ UNCHANGED <<skippedTicks, rebases>>
    BY <1>2 DEF CatchUp, LastTick, RunTick
  <2>1. CASE v # w
    BY <1>0, <2>1, OtherSlip DEF TypeOK
  <2>2. CASE v = w
    <3>1. next'[v] = next[v] + kTickPeriodNs /\ ticks'[v] = ticks[v] + 1
      BY <2>2 DEF TypeOK
    <3>2. Accounted(v)' = Accounted(v) + kTickPeriodNs
      BY <3>1, OnePeriodMore DEF Accounted
    <3>3. Slip(v)' = Slip(v)
      BY <3>1, <3>2, PeriodAssumption DEF Slip, FirstTick, Accounted
    <3>. QED
      BY <1>0, <3>3
  <2>. QED
    BY <2>1, <2>2
<1>3. ASSUME NEW w \in Game, Rebase(w) PROVE 0 <= Slip(v)' /\ Slip(v)' <= (kTickPeriodNs - 1) * rebases'[v]
  <2>1. CASE v # w
    BY <1>0, <1>3, <2>1, OtherSlip DEF TypeOK, Rebase, RunTick
  <2>2. CASE v = w
    <3>. DEFINE k == Skipped(now[v] - next[v] - kTickPeriodNs)
                d == now[v] + kTickPeriodNs - next[v]
                       - (kTickPeriodNs * (ticks[v] + 1 + (skippedTicks[v] + k))
                            - kTickPeriodNs * (ticks[v] + skippedTicks[v]))
    <3>1. /\ next'[v] = now[v] + kTickPeriodNs /\ ticks'[v] = ticks[v] + 1
          /\ skippedTicks'[v] = skippedTicks[v] + k /\ rebases'[v] = rebases[v] + 1
      BY <1>3, <2>2 DEF TypeOK, Rebase, RunTick, Rebased
    <3>2. k \in Nat /\ 0 <= d /\ d <= kTickPeriodNs - 1
      BY <1>3, <2>2, RebaseRemainder DEF Rebase, Behind
    <3>. HIDE DEF k
    <3>3. Slip(v)' = Slip(v) + d
      BY <3>1, <3>2, PeriodAssumption DEF Slip, Accounted, FirstTick
    <3>4. (kTickPeriodNs - 1) * (rebases[v] + 1)
            = (kTickPeriodNs - 1) * rebases[v] + (kTickPeriodNs - 1)
      BY PeriodAssumption
    <3>5. Slip(v) \in Int /\ d \in Int /\ (kTickPeriodNs - 1) * rebases[v] \in Int
      BY <3>2, PeriodAssumption DEF Slip, Accounted
    <3>. HIDE DEF d
    <3>. QED
      BY <1>0, <3>1, <3>2, <3>3, <3>4, <3>5, PeriodAssumption
  <2>. QED
    BY <2>1, <2>2
<1>4. CASE Elapse \/ (\E w \in Game : Publish(w) \/ Wake(w)) \/ UNCHANGED vars
  BY <1>1, <1>4 DEF Elapse, Publish, Wake, stats, locals, vars
<1>. QED
  BY <1>2, <1>3, <1>4 DEF Next, Step

(* Where a worker is in its loop bounds its schedule: kept by every step.       *)
LEMMA StepLoops ==
    TypeOK /\ DebtSettled /\ RemainBounded /\ Loops /\ [Next]_vars
    => DebtSettled' /\ RemainBounded' /\ Loops'
<1>. SUFFICES ASSUME TypeOK, DebtSettled, RemainBounded, Loops, [Next]_vars
              PROVE  DebtSettled' /\ RemainBounded' /\ Loops'
  OBVIOUS
<1>. USE PeriodAssumption DEF TypeOK, DebtSettled, RemainBounded, Loops
<1>1. CASE Elapse
  BY <1>1 DEF Elapse, locals, stats
<1>2. ASSUME NEW w \in Game, Publish(w) PROVE DebtSettled' /\ RemainBounded' /\ Loops'
  BY <1>2 DEF Publish, stats
<1>3. ASSUME NEW w \in Game, Wake(w) PROVE DebtSettled' /\ RemainBounded' /\ Loops'
  BY <1>3 DEF Wake, stats
<1>4. ASSUME NEW w \in Game, CatchUp(w) PROVE DebtSettled' /\ RemainBounded' /\ Loops'
  BY <1>4 DEF CatchUp, RunTick, MoreSteps, Behind
<1>5. ASSUME NEW w \in Game, LastTick(w) PROVE DebtSettled' /\ RemainBounded' /\ Loops'
  BY <1>5 DEF LastTick, RunTick, MoreSteps, Behind
<1>6. ASSUME NEW w \in Game, Rebase(w) PROVE DebtSettled' /\ RemainBounded' /\ Loops'
  BY <1>6 DEF Rebase, RunTick, Rebased
<1>7. CASE UNCHANGED vars
  BY <1>7 DEF vars, locals, stats
<1>. QED
  BY <1>1, <1>2, <1>3, <1>4, <1>5, <1>6, <1>7 DEF Next, Step

(* A schedule that has slipped only forward and is at most a period ahead of    *)
(* the clock has not run too many ticks.                                        *)
LEMMA InvNeverAhead == IInv => NeverAhead
<1>. SUFFICES ASSUME IInv, NEW w \in Game, ticks[w] > 0
              PROVE  FirstTick(w) + Accounted(w) <= clock + kTickPeriodNs
  BY DEF NeverAhead
<1>1. 0 <= Slip(w) /\ next[w] <= clock + kTickPeriodNs
  BY DEF IInv, TickLedger, Loops
<1>2. FirstTick(w) \in Int /\ Accounted(w) \in Int /\ next[w] \in Int /\ clock \in Int
  BY FirstTickInt, PeriodAssumption DEF IInv, TypeOK, Accounted
<1>. QED
  BY <1>1, <1>2, PeriodAssumption DEF Slip

(* The pacing invariant of Loop: the worker's types, its ledger, its debt, what *)
(* it publishes, and where it is.                                               *)
THEOREM PacingInv == Spec => []IInv
<1>1. IInv /\ [Next]_vars => IInv'
  BY StepType, StepLedger, StepLoops DEF IInv
<1>. QED
  BY InitInv, <1>1, PTL DEF Spec

(* Type correctness of the pacing loop (GameWorker.cpp Loop).                   *)
THEOREM PacingTyped == Spec => []TypeOK
<1>1. IInv => TypeOK
  BY DEF IInv
<1>. QED
  BY PacingInv, <1>1, PTL

(* skippedTicks and ticks account for every period of the schedule, up to less  *)
(* than one period for each rebase (GameWorker.cpp Loop, the rebase branch).    *)
THEOREM LedgerExact == Spec => []TickLedger
<1>1. IInv => TickLedger
  BY DEF IInv
<1>. QED
  BY PacingInv, <1>1, PTL

(* No catch-up runs the game ahead of real time (GameWorker.cpp Loop, the       *)
(* do-while condition).                                                         *)
THEOREM RealTime == Spec => []NeverAhead
<1>. QED
  BY PacingInv, InvNeverAhead, PTL

(* What GetPingInfo reads of the published schedule is at most one period away. *)
THEOREM PublishedSoon == Spec => []RemainBounded
<1>1. IInv => RemainBounded
  BY DEF IInv
<1>. QED
  BY PacingInv, <1>1, PTL

(* A worker never goes back to sleep owing a tick (GameWorker.cpp Loop: catch-up*)
(* or rebase).                                                                  *)
THEOREM NoDebt == Spec => []DebtSettled
<1>1. IInv => DebtSettled
  BY DEF IInv
<1>. QED
  BY PacingInv, <1>1, PTL

================================================================================
