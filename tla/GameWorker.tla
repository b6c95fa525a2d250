------------------------------ MODULE GameWorker -------------------------------
(* The pacing of the game workers: Loop of GameWorker.cpp.  A worker sleeps     *)
(* until the absolute time of its next tick, runs one tick, catches up with at  *)
(* most kMaxCatchupSteps ticks per wake and, if it is still behind, counts the  *)
(* ticks it skips and restarts its schedule from the time it woke.              *)
(*                                                                              *)
(* Time is a counter that moves on its own, between any two steps of a worker:  *)
(* a wake that comes late, and a tick that takes long, are both Elapse steps.   *)
(* What a tick does to the rooms is RoomManager's and RoomInput's subject.      *)
(* Times are 64-bit nanoseconds in the code and do not overflow.                *)
EXTENDS Integers

CONSTANTS
    WorkerCount,          \* GameWorker::_total
    kTickPeriodNs,        \* the length of a tick
    kMaxCatchupSteps,     \* ticks one wake may run
    T0,                   \* GameWorker::_t0Ns, the common start of the schedules
    MaxTime               \* bound: the clock stops here

ASSUME WorkerAssumption == WorkerCount \in Nat \ {0}
ASSUME PeriodAssumption == kTickPeriodNs \in Nat \ {0} /\ kMaxCatchupSteps \in Nat \ {0}
ASSUME TimeAssumption   == T0 \in Nat /\ MaxTime \in Nat

Game == 0 .. WorkerCount - 1

VARIABLES
    clock,                \* CLOCK_MONOTONIC (external)
    pc,                   \* where a worker is in its loop
    next, now, steps,     \* its local variables
    nextTickAtNs,         \* g_nextTickAtNs, which PONG reads
    ticks, skippedTicks, rebases        \* GameWorkerStats

locals == <<pc, next, now, steps>>
stats  == <<ticks, skippedTicks, rebases>>
vars   == <<clock, locals, nextTickAtNs, stats>>

(* The worker's first tick: the workers' phases are spread over one period.     *)
FirstTick(w) == T0 + w * (kTickPeriodNs \div WorkerCount)

TypeOK ==
    /\ clock \in Nat
    /\ pc \in [Game -> {"publish", "sleep", "tick"}]
    /\ next \in [Game -> Int] /\ now \in [Game -> Int] /\ steps \in [Game -> Nat]
    /\ nextTickAtNs \in [Game -> Int]
    /\ ticks \in [Game -> Nat] /\ skippedTicks \in [Game -> Nat] /\ rebases \in [Game -> Nat]

Init ==
    /\ clock = 0
    /\ pc = [w \in Game |-> "publish"]
    /\ next = [w \in Game |-> FirstTick(w)]
    /\ now = [w \in Game |-> 0] /\ steps = [w \in Game |-> 0]
    /\ nextTickAtNs = [w \in Game |-> 0]
    /\ ticks = [w \in Game |-> 0] /\ skippedTicks = [w \in Game |-> 0]
    /\ rebases = [w \in Game |-> 0]

(* Time passes.                                                                 *)
Elapse ==
    /\ clock < MaxTime
    /\ clock' = clock + 1
    /\ UNCHANGED <<locals, nextTickAtNs, stats>>

(* The head of the loop: the time of the next tick is published.                *)
Publish(w) ==
    /\ pc[w] = "publish"
    /\ nextTickAtNs' = [nextTickAtNs EXCEPT ![w] = next[w]]
    /\ pc' = [pc EXCEPT ![w] = "sleep"]
    /\ UNCHANGED <<clock, next, now, steps, stats>>

(* SleepUntilNs returns, on time or late.                                       *)
Wake(w) ==
    /\ pc[w] = "sleep"
    /\ clock >= next[w]
    /\ now' = [now EXCEPT ![w] = clock]
    /\ steps' = [steps EXCEPT ![w] = 0]
    /\ pc' = [pc EXCEPT ![w] = "tick"]
    /\ UNCHANGED <<clock, next, nextTickAtNs, stats>>

(* Is the schedule, after the tick just run, still behind the wake-up time?     *)
Behind(w) == now[w] >= next[w] + kTickPeriodNs

(* Mutant of MoreSteps: a catch-up tick is run although the next is not due.    *)
MoreSteps_Ahead(w) == steps[w] + 1 < kMaxCatchupSteps

(* The condition of the do-while loop.                                          *)
MoreSteps(w) == Behind(w) /\ steps[w] + 1 < kMaxCatchupSteps

(* One turn of the do-while loop: TickOnce, and the schedule moves on.          *)
RunTick(w) ==
    /\ pc[w] = "tick"
    /\ ticks' = [ticks EXCEPT ![w] = @ + 1]
    /\ steps' = [steps EXCEPT ![w] = @ + 1]
    /\ UNCHANGED <<clock, now, nextTickAtNs>>

CatchUp(w) ==
    /\ RunTick(w)
    /\ MoreSteps(w)
    /\ next' = [next EXCEPT ![w] = @ + kTickPeriodNs]
    /\ UNCHANGED <<pc, skippedTicks, rebases>>

LastTick(w) ==
    /\ RunTick(w)
    /\ ~MoreSteps(w) /\ ~Behind(w)
    /\ next' = [next EXCEPT ![w] = @ + kTickPeriodNs]
    /\ pc' = [pc EXCEPT ![w] = "publish"]
    /\ UNCHANGED <<skippedTicks, rebases>>

(* Mutants of Skipped: the tick under way is not counted; the subtraction is    *)
(* the wrong way round.                                                         *)
Skipped_RoundedDown(late) == late \div kTickPeriodNs
Skipped_Swapped(late) == (0 - late) \div kTickPeriodNs + 1

(* The ticks given up by a worker that is "late" behind its schedule.           *)
Skipped(late) == late \div kTickPeriodNs + 1

(* Mutants of Rebased: the schedule restarts one period too late; it is left    *)
(* where it was.                                                                *)
Rebased_TwoPeriods(w) == now[w] + 2 * kTickPeriodNs
Rebased_Not(w) == next[w] + kTickPeriodNs

(* Where the schedule restarts.                                                 *)
Rebased(w) == now[w] + kTickPeriodNs

Rebase(w) ==
    /\ RunTick(w)
    /\ ~MoreSteps(w) /\ Behind(w)
    /\ skippedTicks' = [skippedTicks EXCEPT ![w] = @ + Skipped(now[w] - next[w] - kTickPeriodNs)]
    /\ rebases' = [rebases EXCEPT ![w] = @ + 1]
    /\ next' = [next EXCEPT ![w] = Rebased(w)]
    /\ pc' = [pc EXCEPT ![w] = "publish"]

Step(w) == Publish(w) \/ Wake(w) \/ CatchUp(w) \/ LastTick(w) \/ Rebase(w)

Next == Elapse \/ \E w \in Game : Step(w)

Spec == Init /\ [][Next]_vars

--------------------------------------------------------------------------------

(* Ticks run and ticks skipped, as time.                                        *)
Accounted(w) == kTickPeriodNs * (ticks[w] + skippedTicks[w])

(* What the rebases have moved the schedule by.                                 *)
Slip(w) == next[w] - FirstTick(w) - Accounted(w)

(* The tick ledger is exact: the schedule is the first tick plus one period for *)
(* every tick run or counted as skipped, plus less than a period for each       *)
(* rebase.  So skippedTicks neither hides nor invents a lost tick, whatever     *)
(* mixture of late wakes, catch-ups and rebases led here.                       *)
TickLedger == \A w \in Game : 0 <= Slip(w) /\ Slip(w) <= (kTickPeriodNs - 1) * rebases[w]

(* The game never runs ahead of real time: when the n-th tick has been run, its *)
(* scheduled time has come, also in the middle of a catch-up.                   *)
NeverAhead ==
    \A w \in Game : ticks[w] > 0 =>
        FirstTick(w) + Accounted(w) <= clock + kTickPeriodNs

(* What PONG tells a client is at most one period: once a worker has run its    *)
(* first tick, the published time of the next one is never further off.         *)
RemainBounded ==
    \A w \in Game : ticks[w] > 0 => nextTickAtNs[w] <= clock + kTickPeriodNs

(* A worker that goes back to sleep has settled its debt: everything due at the *)
(* time it woke has been run or counted as skipped.                             *)
DebtSettled ==
    \A w \in Game : pc[w] # "tick" /\ ticks[w] > 0 => now[w] < next[w]

================================================================================
