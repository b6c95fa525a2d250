------------------------------ MODULE MCLifecycle ------------------------------
(* Lifecycle for TLC.                                                           *)
EXTENDS Lifecycle
================================================================================
