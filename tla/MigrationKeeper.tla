-------------------------- MODULE MigrationKeeper --------------------------
(***************************************************************************)
(* cli/migrate-liquidity.ts against a launch that has graduated.  The      *)
(* command reads four values in four requests, computes from them what the *)
(* migration may use at most and until when, and sends that; before the    *)
(* transaction is mined others sell, donate, claim fees and time passes.   *)
(* The target then compares what the hook sends with what the data allow.  *)
(*                                                                         *)
(* The command gives up when the node does not answer in time, but its     *)
(* transaction stays in the pool, in front of those of later attempts.     *)
(*                                                                         *)
(* The configuration is one the target accepts (Readiness), amounts are    *)
(* small numbers, and time is what is left until the deadline.             *)
(***************************************************************************)
EXTENDS MigrationTarget, Sequences

CONSTANTS
    K,              \* the supply cap
    TaxBefore,      \* tax burnt before graduation
    Reserves,       \* initial reserves
    Amounts,        \* amounts of sells and donations
    Deadline,       \* MIGRATION_DEADLINE_SECONDS
    MaxMoves,       \* bound: steps of others
    MaxPending      \* bound: transactions in the pool

ASSUME LaunchAssumption ==
    /\ K \in Nat /\ TaxBefore \in 0..K
    /\ Reserves \subseteq Nat
    /\ Amounts \subseteq Nat \ {0}
    /\ Deadline \in Nat

ASSUME BoundsAssumption == MaxMoves \in Nat /\ MaxPending \in Nat \ {0}

VARIABLES
    balance,        \* OKB of the hook
    claimable,      \* claimableFeeOkb
    supply,         \* total supply of the token
    taxBurned,      \* taxBurnedTokens
    migrated,       \* liquidityMigrated
    keeper,         \* the running command
    pool,           \* its transactions, and those of earlier runs, in order
    reported,       \* what the last command that ended well printed
    moves           \* steps of others so far

launch == <<balance, claimable, supply, taxBurned, migrated>>
vars == <<launch, keeper, pool, reported, moves>>

Fields == {"claimable", "balance", "supply", "block"}

(***************************************************************************)
(* What a command knows: the values read so far, and, as history, whether  *)
(* a claim came between its reading of the fees and of the balance, what   *)
(* was donated since it read the balance and sold since it read the supply.*)
(***************************************************************************)
Seen == [fields : SUBSET Fields, claimable : Nat, balance : Nat, supply : Nat, left : Int,
         claimed : BOOLEAN, donated : BOOLEAN, sold : Nat]

Nothing == [fields |-> {}, claimable |-> 0, balance |-> 0, supply |-> 0, left |-> Deadline,
            claimed |-> FALSE, donated |-> FALSE, sold |-> 0]

Data == [amount0Max : Nat, amount1Max : Nat]

Transactions == [data : Data, seen : Seen]

Steps == {"idle", "read", "ready", "sent", "mined"}

TypeOK ==
    /\ balance \in Nat /\ claimable \in 0..balance /\ supply \in Nat /\ taxBurned \in Nat
    /\ migrated \in BOOLEAN
    /\ keeper \in [step : Steps, seen : Seen]
    /\ pool \in Seq(Transactions)
    /\ Len(pool) <= MaxPending
    /\ reported \in {"nothing", "migrated", "not migrated"}
    /\ moves \in 0..MaxMoves

Idle == [step |-> "idle", seen |-> Nothing]

Init ==
    /\ balance \in Reserves
    /\ claimable = 0
    /\ supply \in 0..(K - TaxBefore)
    /\ taxBurned = TaxBefore
    /\ migrated = FALSE
    /\ keeper = Idle
    /\ pool = <<>>
    /\ reported = "nothing"
    /\ moves = 0

-----------------------------------------------------------------------------
(* The contracts.                                                          *)

\* EulrHook.migrateLiquidity: what it sends to the target.
okbAmount == balance - claimable

tokenAmount == IF K - taxBurned > supply THEN K - taxBurned - supply ELSE 0

(***************************************************************************)
(* The hook's call to the target does not revert for amounts or time.      *)
(***************************************************************************)
Accepted(tx) ==
    /\ ~migrated
    /\ AcceptsAmounts(tx.data, okbAmount, tokenAmount)
    /\ tx.seen.left >= 0

-----------------------------------------------------------------------------
(* The command.                                                            *)

(***************************************************************************)
(* Promise.all: four requests on their way, answered in any order.  An     *)
(* answer is the state at that moment.                                     *)
(***************************************************************************)
StartMigrate ==
    /\ keeper.step = "idle"
    /\ keeper' = [keeper EXCEPT !.step = "read"]
    /\ UNCHANGED <<launch, pool, reported, moves>>

Read(field) ==
    /\ keeper.step = "read"
    /\ field \notin keeper.seen.fields
    /\ LET fields == keeper.seen.fields \cup {field}
       IN  keeper' = [step |-> IF fields = Fields THEN "ready" ELSE "read",
                      seen |-> [keeper.seen EXCEPT
                          !.fields    = fields,
                          !.claimable = IF field = "claimable" THEN claimable ELSE @,
                          !.balance   = IF field = "balance" THEN balance ELSE @,
                          !.supply    = IF field = "supply" THEN supply ELSE @]]
    /\ UNCHANGED <<launch, pool, reported, moves>>

KeeperOkb(seen) == seen.balance - seen.claimable

\* Altered form: the hook's own formula.
HooksFormula(seen) == IF K - taxBurned > seen.supply THEN K - taxBurned - seen.supply ELSE 0

KeeperTokens(seen) == IF K > seen.supply THEN K - seen.supply ELSE 0

(***************************************************************************)
(* The data.  A negative amount cannot be encoded.                         *)
(***************************************************************************)
Encodable(seen) == KeeperOkb(seen) >= 0

MigrationDataOf(seen) == [amount0Max |-> KeeperOkb(seen), amount1Max |-> KeeperTokens(seen)]

(***************************************************************************)
(* writeContract asks the node for an estimate first, which fails when the *)
(* call would revert now.                                                  *)
(***************************************************************************)
SendMigration ==
    /\ keeper.step = "ready"
    /\ Encodable(keeper.seen)
    /\ LET tx == [data |-> MigrationDataOf(keeper.seen), seen |-> keeper.seen]
       IN  /\ Accepted(tx)
           /\ Len(pool) < MaxPending
           /\ pool' = Append(pool, tx)
    /\ keeper' = [keeper EXCEPT !.step = "sent"]
    /\ UNCHANGED <<launch, reported, moves>>

\* Altered form: the next attempt starts from what this one has read.
Cached(seen) == [step |-> "idle", seen |-> seen]

\* The next run of the command knows nothing of this one.
Exit(seen) == Idle

(***************************************************************************)
(* The command fails before it sends anything.                             *)
(***************************************************************************)
Refused ==
    /\ keeper.step = "ready"
    /\ ~(Encodable(keeper.seen) /\ Accepted([data |-> MigrationDataOf(keeper.seen),
                                             seen |-> keeper.seen]))
    /\ keeper' = Exit(keeper.seen)
    /\ UNCHANGED <<launch, pool, reported, moves>>

(***************************************************************************)
(* The node has no receipt in time; the transaction stays where it is.     *)
(***************************************************************************)
TimeOut ==
    /\ keeper.step = "sent"
    /\ keeper' = Exit(keeper.seen)
    /\ UNCHANGED <<launch, pool, reported, moves>>

\* Altered form: the status of a receipt is not looked at.
AnyReceipt(ok) == TRUE

waitForSuccessfulTransactionReceipt(ok) == ok

(***************************************************************************)
(* The first transaction of the pool is mined: settled is whether the      *)
(* position manager leaves nothing behind.  The command, if it still waits *)
(* for this one, sees the receipt.                                         *)
(***************************************************************************)
Mine(settled) ==
    LET tx  == pool[1]
        ok  == Accepted(tx) /\ settled
        own == Len(pool) = 1 /\ keeper.step = "sent"
    IN  /\ pool # <<>>
        /\ pool' = Tail(pool)
        /\ IF ok
           THEN /\ migrated' = TRUE
                /\ balance' = claimable
                /\ supply' = supply + tokenAmount
           ELSE UNCHANGED <<migrated, balance, supply>>
        /\ keeper' = IF ~own THEN keeper
                     ELSE IF waitForSuccessfulTransactionReceipt(ok)
                          THEN [keeper EXCEPT !.step = "mined"]
                          ELSE Exit(keeper.seen)
        /\ UNCHANGED <<claimable, taxBurned, reported, moves>>

printJson ==
    /\ keeper.step = "mined"
    /\ reported' = IF migrated THEN "migrated" ELSE "not migrated"
    /\ keeper' = Idle
    /\ UNCHANGED <<launch, pool, moves>>

-----------------------------------------------------------------------------
(* Others.                                                                 *)

\* All that is known of the past takes note of a step of somebody else.
Note(seen) == [seen EXCEPT
    !.claimed = @ \/ (claimable' < claimable /\ "claimable" \in seen.fields
                                             /\ "balance" \notin seen.fields),
    !.donated = @ \/ (balance' - claimable' > balance - claimable /\ "balance" \in seen.fields),
    !.sold    = @ + IF supply' < supply /\ "supply" \in seen.fields
                    THEN supply - supply' ELSE 0]

Elsewhere ==
    /\ moves < MaxMoves
    /\ moves' = moves + 1
    /\ keeper' = [keeper EXCEPT !.seen = Note(@)]
    /\ pool' = [i \in DOMAIN pool |-> [pool[i] EXCEPT !.seen = Note(@)]]
    /\ UNCHANGED <<migrated, reported>>

\* Altered form: fees are not set aside.
BalanceSuffices(gross) == gross <= balance

ReserveSuffices(gross) == gross <= balance - claimable

\* EulrHook.sell: all the tokens are burnt, tax of them as a tax, and gross OKB
\* leaves the curve, of which fee stays in the hook.
Sell(tokens, tax, gross, fee) ==
    /\ tokens <= supply /\ tax <= tokens /\ ReserveSuffices(gross) /\ fee <= gross
    /\ supply' = supply - tokens
    /\ taxBurned' = taxBurned + tax
    /\ balance' = balance - (gross - fee)
    /\ claimable' = claimable + fee
    /\ Elsewhere

ClaimFees ==
    /\ claimable > 0
    /\ balance' = balance - claimable
    /\ claimable' = 0
    /\ UNCHANGED <<supply, taxBurned>>
    /\ Elsewhere

Donate(amount) ==
    /\ balance' = balance + amount
    /\ UNCHANGED <<claimable, supply, taxBurned>>
    /\ Elsewhere

(***************************************************************************)
(* Time: every deadline that is known comes nearer, or has passed.         *)
(***************************************************************************)
Sooner(seen) == [seen EXCEPT !.left = IF "block" \in seen.fields /\ @ >= 0 THEN @ - 1 ELSE @]

Tick ==
    /\ moves < MaxMoves
    /\ moves' = moves + 1
    /\ keeper' = [keeper EXCEPT !.seen = Sooner(@)]
    /\ pool' = [i \in DOMAIN pool |-> [pool[i] EXCEPT !.seen = Sooner(@)]]
    /\ UNCHANGED <<launch, reported>>

(***************************************************************************)
(* A request fails, or somebody stops the command.                         *)
(***************************************************************************)
Interrupt ==
    /\ keeper.step # "idle"
    /\ moves < MaxMoves
    /\ moves' = moves + 1
    /\ keeper' = Exit(keeper.seen)
    /\ UNCHANGED <<launch, pool, reported>>

-----------------------------------------------------------------------------
Others ==
    \/ \E tokens \in Amounts, tax, gross, fee \in Amounts \cup {0} :
          Sell(tokens, tax, gross, fee)
    \/ ClaimFees
    \/ \E amount \in Amounts : Donate(amount)
    \/ Tick
    \/ Interrupt

Command ==
    \/ StartMigrate
    \/ \E field \in Fields : Read(field)
    \/ SendMigration
    \/ Refused \/ TimeOut
    \/ printJson

Next == Command \/ Others \/ \E settled \in BOOLEAN : Mine(settled)

Spec == Init /\ [][Next]_vars

(***************************************************************************)
(* The operator repeats the command until it succeeds, the command works,  *)
(* blocks are produced, and a transaction that keeps being acceptable is   *)
(* one day mined while the position manager can take all of it.  The bound *)
(* on the moves says that from some moment on an attempt is not disturbed: *)
(* the market rests and the deadline is longer than an attempt.  A node    *)
(* that never answers in time is no obstacle.                              *)
(***************************************************************************)
Fairness ==
    /\ WF_vars(StartMigrate)
    /\ \A field \in Fields : WF_vars(Read(field))
    /\ WF_vars(SendMigration)
    /\ WF_vars(Refused)
    /\ WF_vars(\E settled \in BOOLEAN : Mine(settled))
    /\ SF_vars(Mine(TRUE) /\ migrated')

FairSpec == Spec /\ Fairness

-----------------------------------------------------------------------------
(* Properties.                                                             *)

(***************************************************************************)
(* When a migration the command sent is refused for what it allows, then   *)
(* it was overtaken: the launch was migrated, the deadline passed, OKB was *)
(* donated after the balance was read, fees were claimed between the       *)
(* reading of the fees and of the balance, or more was sold since the      *)
(* supply was read than all the tax burnt so far, which the command does   *)
(* not take into account.                                                  *)
(* Nothing else in a busy launch makes it fail, and claims and small sells *)
(* after the reading do not.                                               *)
(***************************************************************************)
Overtaken(tx) ==
    \/ migrated
    \/ tx.seen.left < 0
    \/ tx.seen.donated \/ tx.seen.claimed
    \/ tx.seen.sold > taxBurned
    \/ okbAmount = 0

RefusedOnlyIfOvertaken ==
    \A i \in DOMAIN pool : Accepted(pool[i]) \/ Overtaken(pool[i])

(***************************************************************************)
(* A command that ends well has migrated, whatever else was in the pool.   *)
(***************************************************************************)
SuccessMeansMigrated ==
    /\ keeper.step = "mined" => migrated
    /\ reported # "not migrated"

(***************************************************************************)
(* Repeating the command gets a launch migrated in the end, through late   *)
(* answers, expired deadlines and what is left of earlier attempts, unless *)
(* there is nothing to migrate.                                            *)
(***************************************************************************)
KeeperMigrates == <>[](migrated \/ okbAmount = 0 \/ tokenAmount = 0)

=============================================================================
