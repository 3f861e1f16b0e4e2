------------------------------- MODULE MCMrp -------------------------------
(* Two attributes of different types: "talker" is only received, "listener"   *)
(* is requested here and joined again from the indication.                     *)
EXTENDS Mrp, TLC

CONSTANTS talker, listener

Attributes2 == {talker, listener}
Types2 == {{talker}, {listener}}
Requested == {listener}
Echo2 == {listener}
=============================================================================
