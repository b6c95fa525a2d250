------------------------------ MODULE MCGameWorker -----------------------------
(* GameWorker for TLC.                                                          *)
EXTENDS GameWorker
================================================================================
