--------------------------- MODULE MigrationTarget ---------------------------
(***************************************************************************)
(* What a UniswapV4MintPositionTarget requires of a migration: the checks  *)
(* of its base contract, of MigrationData and its own, as predicates over  *)
(* the decoded data.  A target is known by its immutables: the venue (pool *)
(* and position manager), the recipient of the position, the pool and the  *)
(* hash of the hook data, for which the hook data itself stands.           *)
(*                                                                         *)
(* A pool is a record [hooks, fee, spacing, lower, upper].                 *)
(***************************************************************************)
EXTENDS Integers

(***************************************************************************)
(* MigrationData.decodeAndValidate, the part about the pool.               *)
(***************************************************************************)
ValidPool(pool) ==
    /\ pool.fee # 0
    /\ pool.spacing > 0
    /\ pool.lower < pool.upper
    /\ pool.lower % pool.spacing = 0
    /\ pool.upper % pool.spacing = 0

ValidRecipient(data, target) == data.lpRecipient = target.lpRecipient

_validatePoolAllowlist(data, target) ==
    /\ data.pool = target.pool
    /\ data.hookData = target.hookData

(***************************************************************************)
(* All that a target checks of a migration but its amounts and its time.   *)
(***************************************************************************)
AcceptsConfig(data, target) ==
    /\ ValidPool(data.pool)
    /\ data.liquidity # 0
    /\ ValidRecipient(data, target)
    /\ _validatePoolAllowlist(data, target)

(***************************************************************************)
(* migrate: there is something to migrate, no more of it than the data     *)
(* allow, and the deadline has not passed.                                 *)
(***************************************************************************)
AcceptsAmounts(data, okbAmount, tokenAmount) ==
    /\ okbAmount # 0 /\ tokenAmount # 0
    /\ data.amount0Max # 0 /\ data.amount1Max # 0
    /\ okbAmount <= data.amount0Max
    /\ tokenAmount <= data.amount1Max

=============================================================================
