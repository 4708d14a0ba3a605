----------------------------- MODULE MCReadiness -----------------------------
(***************************************************************************)
(* Two recipients, a pair of managers and one without code, a good pool    *)
(* and one whose ticks are not aligned, two values of the hook data.       *)
(***************************************************************************)
EXTENDS Readiness

CONSTANTS team, v4, nocode, unset, ownpair, empty, other, elsewhere

Good == [hooks |-> 0, fee |-> 3, spacing |-> 2, lower |-> -2, upper |-> 2]

Misaligned == [Good EXCEPT !.lower = -1]

MCPools == {Good, Misaligned}

=============================================================================
