--------------------------- MODULE MCMrpPreemption ---------------------------
(* Two attributes share the join timer, so that one can arm it for the other.  *)
EXTENDS MrpPreemption, TLC
CONSTANTS stream, domain
Attributes == {stream, domain}
==============================================================================
