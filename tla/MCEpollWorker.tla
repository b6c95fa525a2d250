----------------------------- MODULE MCEpollWorker -----------------------------
(* EpollWorker for TLC.                                                         *)
EXTENDS EpollWorker
================================================================================
