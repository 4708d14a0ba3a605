------------------------- MODULE MCDeploymentRecord -------------------------
(***************************************************************************)
(* Two processes that start up to four commands between them, or one that  *)
(* runs up to five, on a network that starts empty or with a factory from  *)
(* before hooks had proxies.                                               *)
(***************************************************************************)
EXTENDS DeploymentRecord, TLC

CONSTANTS c1, c2

Symmetry == Permutations(Commands)

=============================================================================
