---------------------------- MODULE SepoliaSell ----------------------------
(***************************************************************************)
(* cli/swap-sepolia-v4-sell.ts: a wallet sells its tokens into a pool      *)
(* through the Universal Router and Permit2, in chunks, in one swap, or an *)
(* amount.  Before each swap the script simulates it and halves the amount *)
(* while the token refuses the transfer; then it sees to the two           *)
(* allowances, and then it swaps.  Between any two of these requests the   *)
(* wallet may receive or spend tokens and the allowance may expire.        *)
(*                                                                         *)
(* The token, Permit2, the router and the pool are external: the token     *)
(* refuses transfers above a limit, and the pool pays one unit for one.    *)
(***************************************************************************)
EXTENDS Integers

CONSTANTS
    Balances,               \* initial balances of the wallet
    Limits,                 \* limits of the token
    Allowances,             \* allowances the wallet may have given before
    Chunks,                 \* values of --chunk-wei or its default
    Dusts,                  \* values of --dust-wei
    Quotes,                 \* values of --quote-weth-wei
    slippageBps,            \* --slippage-bps
    MIN_SELL_BACKOFF_WEI,
    MaxAttempts,            \* 48 simulations
    max,                    \* maxUint256, and Permit2's largest amount
    MaxMoves                \* bound: steps of others

ASSUME ArgumentsAssumption ==
    /\ Balances \cup Limits \cup Allowances \cup Dusts \cup Quotes \subseteq Nat
    /\ Chunks \subseteq Nat \ {0}
    /\ slippageBps \in 0..10000
    /\ MIN_SELL_BACKOFF_WEI \in Nat \ {0}
    /\ MaxAttempts \in Nat \ {0}

ASSUME BoundsAssumption ==
    /\ max \in Nat /\ MaxMoves \in Nat
    /\ \A n \in Balances \cup Limits \cup Allowances : n <= max

VARIABLES
    args,       \* how the script was called
    limit,      \* the token's limit
    balance,    \* tokens of the wallet
    erc20,      \* what Permit2 may take of them
    permit2,    \* what the router may take through Permit2, and whether still
    script,     \* step, amount asked for, amount of this attempt, attempts
    moves       \* steps of others

wallet == <<balance, erc20, permit2>>
vars == <<args, limit, wallet, script, moves>>

Modes == {"chunked", "single", "amount"}

Args == [mode : Modes, amount : Nat, chunk : Chunks, dust : Dusts, quote : Quotes,
         dryRun : BOOLEAN, skipPrecall : BOOLEAN]

Steps == {"balance", "check", "try", "call", "erc20", "permit2", "swap", "done", "failed"}

TypeOK ==
    /\ args \in Args
    /\ limit \in Limits
    /\ balance \in 0..max
    /\ erc20 \in 0..max
    /\ permit2 \in [amount : 0..max, valid : BOOLEAN]
    /\ script \in [step : Steps, want : Nat, attempt : Nat, tries : 0..MaxAttempts]
    /\ moves \in 0..MaxMoves

Init ==
    /\ limit \in Limits
    /\ balance \in Balances
    /\ erc20 \in Allowances
    /\ permit2 \in [amount : Allowances, valid : BOOLEAN]
    /\ args \in [mode : Modes, amount : 1..balance, chunk : Chunks, dust : Dusts,
                 quote : Quotes, dryRun : BOOLEAN, skipPrecall : BOOLEAN]
    /\ script = [step |-> "balance", want |-> 0, attempt |-> 0, tries |-> 0]
    /\ moves = 0

-----------------------------------------------------------------------------
(* The token, Permit2 and the pool.                                        *)

Least(a, b) == IF a < b THEN a ELSE b

minEthOut == (args.quote * (10000 - slippageBps)) \div 10000

(***************************************************************************)
(* The token, as Permit2 uses it, reverts with TRANSFER_FROM_FAILED.       *)
(***************************************************************************)
TransferFails(amount) == amount > limit \/ amount > balance \/ amount > erc20

(***************************************************************************)
(* Permit2 looks at its own allowance first; the router compares what the  *)
(* pool pays with the least it was asked for.                              *)
(***************************************************************************)
OtherwiseFails(amount) ==
    \/ ~permit2.valid \/ amount > permit2.amount
    \/ ~TransferFails(amount) /\ amount < minEthOut

Fails(amount) == TransferFails(amount) \/ OtherwiseFails(amount)

\* An unlimited allowance stays unlimited.
Spent(allowance, amount) == IF allowance = max THEN max ELSE allowance - amount

-----------------------------------------------------------------------------
(* The script.                                                             *)

applySellAllWeiMargin(have, rawWant) ==
    LET v == Least(rawWant, have)
    IN  IF v = have /\ have > 1 THEN have - 1 ELSE v

Go(step) == script' = [script EXCEPT !.step = step]

(***************************************************************************)
(* The head of the chunked loop: the balance is read, and the script is    *)
(* done once it is dust.                                                   *)
(***************************************************************************)
NextChunk ==
    /\ script.step = "balance"
    /\ args.mode = "chunked"
    /\ LET want == applySellAllWeiMargin(balance, Least(balance, args.chunk))
       IN  script' = IF balance <= args.dust \/ want = 0
                     THEN [script EXCEPT !.step = "done"]
                     ELSE [script EXCEPT !.step = "check", !.want = want]
    /\ UNCHANGED <<args, limit, wallet, moves>>

(***************************************************************************)
(* --single-tx or --amount-wei: one swap.                                  *)
(***************************************************************************)
OneSwap ==
    /\ script.step = "balance"
    /\ args.mode # "chunked"
    /\ LET want == IF args.mode = "amount" THEN args.amount
                   ELSE applySellAllWeiMargin(balance, balance)
       IN  script' = IF want = 0 \/ want > balance
                     THEN [script EXCEPT !.step = "failed"]
                     ELSE [script EXCEPT !.step = "check", !.want = want]
    /\ UNCHANGED <<args, limit, wallet, moves>>

(***************************************************************************)
(* runOne reads the balance again; a dry run ends the script there.        *)
(***************************************************************************)
runOne ==
    /\ script.step = "check"
    /\ script' = IF script.want > balance THEN [script EXCEPT !.step = "failed"]
                 ELSE IF args.dryRun THEN [script EXCEPT !.step = "done"]
                 ELSE [script EXCEPT !.step = "try", !.attempt = script.want, !.tries = 0]
    /\ UNCHANGED <<args, limit, wallet, moves>>

(***************************************************************************)
(* One round of the loop: balance and swap of this attempt.                *)
(***************************************************************************)
Attempt ==
    LET attempt == Least(script.attempt, balance)
    IN  /\ script.step = "try"
        /\ script' =
              IF script.tries = MaxAttempts \/ attempt = 0
              THEN [script EXCEPT !.step = "failed"]
              ELSE [script EXCEPT !.step = IF args.skipPrecall THEN "erc20" ELSE "call",
                                  !.attempt = attempt, !.tries = @ + 1]
        /\ UNCHANGED <<args, limit, wallet, moves>>

\* Altered form: the last round of the backoff is never tried.
LeavesOutLast(attempt) == attempt < 2 * MIN_SELL_BACKOFF_WEI

BackedOff(attempt) == attempt <= MIN_SELL_BACKOFF_WEI

Half(attempt) ==
    IF attempt \div 2 < MIN_SELL_BACKOFF_WEI THEN MIN_SELL_BACKOFF_WEI ELSE attempt \div 2

(***************************************************************************)
(* eth_call of the swap.                                                   *)
(***************************************************************************)
Simulate ==
    /\ script.step = "call"
    /\ script' =
          IF ~Fails(script.attempt) THEN [script EXCEPT !.step = "erc20"]
          ELSE IF OtherwiseFails(script.attempt) \/ BackedOff(script.attempt)
               THEN [script EXCEPT !.step = "failed"]
               ELSE [script EXCEPT !.step = "try", !.attempt = Half(@)]
    /\ UNCHANGED <<args, limit, wallet, moves>>

\* Altered form: any allowance will do.
SomeAllowance(allowance, needed) == allowance > 0

Suffices(allowance, needed) == allowance >= needed

ensureErc20Approval ==
    /\ script.step = "erc20"
    /\ erc20' = IF Suffices(erc20, script.attempt) THEN erc20 ELSE max
    /\ Go("permit2")
    /\ UNCHANGED <<args, limit, balance, permit2, moves>>

ensurePermit2RouterAllowance ==
    /\ script.step = "permit2"
    /\ permit2' = IF Suffices(permit2.amount, script.attempt) /\ permit2.valid THEN permit2
                  ELSE [amount |-> max, valid |-> TRUE]
    /\ Go("swap")
    /\ UNCHANGED <<args, limit, balance, erc20, moves>>

\* Altered form: the whole amount is booked whatever was swapped.
Wanted == script.want

Swapped == script.attempt

Swap ==
    /\ script.step = "swap"
    /\ IF Fails(script.attempt)
       THEN /\ Go("failed")
            /\ UNCHANGED wallet
       ELSE /\ balance' = balance - Swapped
            /\ erc20' = Spent(erc20, script.attempt)
            /\ permit2' = [permit2 EXCEPT !.amount = Spent(@, script.attempt)]
            /\ Go(IF args.mode = "chunked" THEN "balance" ELSE "done")
    /\ UNCHANGED <<args, limit, moves>>

-----------------------------------------------------------------------------
(* Others: a transfer to or from the wallet, time.                         *)

Move ==
    /\ script.step \notin {"done", "failed"}
    /\ moves < MaxMoves
    /\ moves' = moves + 1
    /\ UNCHANGED <<args, limit, script>>

TransferTokens ==
    /\ balance' \in {balance - 1, balance + 1} \cap 0..max
    /\ UNCHANGED <<erc20, permit2>>
    /\ Move

Expire ==
    /\ permit2' = [permit2 EXCEPT !.valid = FALSE]
    /\ UNCHANGED <<balance, erc20>>
    /\ Move

Main ==
    \/ NextChunk \/ OneSwap
    \/ runOne \/ Attempt \/ Simulate
    \/ ensureErc20Approval \/ ensurePermit2RouterAllowance \/ Swap

Next == Main \/ TransferTokens \/ Expire

\* The script runs until it ends; nothing is asked of others.
Spec == Init /\ [][Next]_vars /\ WF_vars(Main)

-----------------------------------------------------------------------------
(* Properties.                                                             *)

(***************************************************************************)
(* When the script sends a swap, both allowances cover it, after all the   *)
(* halving and whatever earlier chunks have used up; only an expiry, or an *)
(* owner who spends tokens, can make a simulated swap fail.                *)
(***************************************************************************)
SwapIsCovered ==
    script.step = "swap" =>
        /\ script.attempt <= erc20 /\ script.attempt <= permit2.amount
        /\ script.attempt <= script.want
        /\ moves = 0 /\ ~args.skipPrecall => ~Fails(script.attempt)

(***************************************************************************)
(* With the allowances given and no price demanded, the backoff overcomes  *)
(* every limit down to its smallest amount: the chunked script sells all   *)
(* but dust, the others end well.                                          *)
(***************************************************************************)
Favourable ==
    /\ limit >= MIN_SELL_BACKOFF_WEI
    /\ erc20 = max /\ permit2 = [amount |-> max, valid |-> TRUE]
    /\ args.quote = 0 /\ ~args.dryRun /\ ~args.skipPrecall
    /\ balance > 0
    /\ balance <= MIN_SELL_BACKOFF_WEI * 2^(MaxAttempts - 1)

LimitsAreOvercome ==
    Favourable /\ [](moves = 0) =>
        <>(script.step = "done" /\ (args.mode = "chunked" => balance <= args.dust))

-----------------------------------------------------------------------------
(* What the repository says, and the code does not do.                     *)

(***************************************************************************)
(* The head of the script: sell-all makes "chunked swaps until balance <=  *)
(* --dust-wei", halving an amount whose transfer fails "until the call     *)
(* succeeds".  But the allowances are seen to after the simulation, which  *)
(* cannot succeed without them.                                            *)
(***************************************************************************)
SellAllSells ==
    args.mode = "chunked" /\ ~args.dryRun => <>(balance <= args.dust)

=============================================================================
