---------------------------- MODULE MCSepoliaSell ----------------------------
(***************************************************************************)
(* Wallets of up to nine units, with and without the allowances, a token   *)
(* with and without a limit, the smallest backoff two units.               *)
(***************************************************************************)
EXTENDS SepoliaSell

=============================================================================
