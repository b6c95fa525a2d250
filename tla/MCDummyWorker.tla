----------------------------- MODULE MCDummyWorker -----------------------------
(* DummyWorker for TLC: the command lines of tools/echo-verify.sh and of a game *)
(* run.                                                                         *)
EXTENDS DummyWorker

Game   == [mode |-> "game", churn |-> FALSE, attack |-> FALSE, slow |-> FALSE]
Echo   == [mode |-> "echo", churn |-> FALSE, attack |-> FALSE, slow |-> FALSE]
Churn  == [Echo EXCEPT !.churn = TRUE]
Attack == [Echo EXCEPT !.attack = TRUE]
SlowReader == [Attack EXCEPT !.slow = TRUE]
Soak   == [SlowReader EXCEPT !.churn = TRUE]

AllRuns  == {Game, Echo, Churn, Attack, SlowReader, Soak}
SlowRuns == {SlowReader}
================================================================================
