---------------------------- MODULE MCMediaQueue ----------------------------
(* A small receive path: the clock starts just before a timestamp wraps.   *)
EXTENDS MediaQueue
=============================================================================
