# Eulr: a verification project

TLA+ models of the Eulr launchpad in this repository, TLC runs that check them
on small instances, and proofs, checked by TLAPS, of the same properties for
every value of the parameters. Paths such as `src/hook/EulrHook.sol` are
relative to the repository.

## 1. The system

Eulr launches ERC-20 tokens on a bonding curve. A launch is three contracts
made by a factory: a token, a hook that owns the curve, the fees and the
reserve, and a router its traders call. Once the curve has minted 80% of the
supply cap the launch *graduates*: buys close for good, sells stay open, and
anyone may start the one migration that hands the reserve and the remaining
tokens to a Uniswap v4 target. TypeScript commands deploy, create, trade,
claim, migrate and upgrade, and keep a JSON record per network.

| Component | State | Operations | Module |
| --- | --- | --- | --- |
| Curve library (`src/curve`) | none | quoteBuy, quoteSell, totalMinted, okbAtMinted, burnTaxBps, isSelfDeprecated | `Curve` |
| Fixed point library (`lib/prb-math`) | none | exp, ln, mul, div | `UD60x18` |
| Hook (`src/hook`) | okbCum, claimableFeeOkb, taxBurnedTokens, selfDeprecated, liquidityMigrated, lastBuyBlock, its OKB | buy, sell, claimFees, migrateLiquidity, receive | `EulrHook` |
| Token, router (`src/token`, `src/router`) | supply, balances; none | mint, burn, transfer; buy, buyFor, sell | `EulrToken`, `EulrHook` |
| Factory (`src/factory`) | registry, implementations, owners | createToken, createTokenAndBuy, set*Implementation | `DeploymentRecord`, `TradeCommands`, `Readiness` |
| Migration targets (`src/migration`) | immutables | migrate | `MigrationTarget`, `EulrHook` |
| Keeper (`ts/cli/migrate-liquidity`) | four values it has read | read, estimate, send, wait | `MigrationKeeper`, `Readiness` |
| Traders' commands (`ts/cli/buy, sell, claim-fees, create-token-and-buy, simulate-graduation`) | a quote held between two calls | read, approve, send, wait | `TradeCommands` |
| Quote mirror (`ts/lib/curve-quote`) | none | quoteBuyAtOkbCum, quoteSellAtOkbCum, minTokensOut | `CurveQuote` |
| Records and upgrades (`ts/config`, `ts/deploy`, `ts/cli/create-token, upgrade-*`) | the JSON record of a network | read, several transactions, write | `DeploymentRecord` |
| Preflight, doctors, gate (`ts/lib`) | none | compare environment, records and chain | `Readiness`, `DeploymentRecord` |
| Export and smoke scripts (`ts/cli`) | exported files; none | write files; trade with many accounts | `DeploymentRecord`, `TradeCommands` |
| Pool sell (`ts/cli/swap-sepolia-v4-sell`) | amount and attempts | simulate, approve, swap | `SepoliaSell` |

### What is hard here

* **Control leaves the hook in the middle of three functions.** `sell` and
  `claimFees` pay OKB to an address that may be a contract, `migrateLiquidity`
  calls the target. The callee sees storage as it is at that moment, may move
  tokens and send OKB to the hook, may answer wrongly, and may revert, which
  undoes what was done before.
* **Two units of account are kept apart by arithmetic only.** Fees, curve and
  donated OKB share one balance; the reserve is the balance less the fees.
* **The life of a launch is long.** Buys and sells in any order, around the
  threshold; sells after graduation, and even after the migration, when the
  reserve is gone; the supply cap has to hold across all of it, with tax
  burnt along the way and a last mint in the migration.
* **Rounding.** `okbAtMinted` inverts `totalMinted` with rounding in both
  directions; fees and taxes are rounded separately; the mirror of the curve in
  TypeScript rounds differently again.
* **The commands act on what they read earlier**: quotes before transactions,
  four values before a migration, a simulation before a swap. Others go on in
  between, and a transaction whose receipt is late stays in the pool.
* **The record is read first and written last**, without a lock, by a write
  that truncates. Commands overlap and stop half-way; the chain keeps what was
  mined.
* **The gate is five commands, one after the other**, over an environment that
  may be edited and a node that may not answer.

`PROJECT.json` lists each hazard at its line, with the properties that would
catch it going wrong.

## 2. The modules

| Module | Models | Extends | Proofs |
| --- | --- | --- | --- |
| `UD60x18` | `exp`, `log2`, `ln` of the vendored library, for small instances | | |
| `Curve` | `src/curve/Curve.sol`, over tables `Exp` and `Ln` | | `CurveProofs` |
| `EulrToken` | the ledger of `src/token/EulrToken.sol` | | in `EulrHookProofs` |
| `EulrHook` | one launch: hook, token, router, their callers and callees | `Curve`, `EulrToken` | `EulrHookProofs` |
| `LaunchSpec` | what a launch promises, abstractly | | in `EulrHookProofs` |
| `CurveQuote` | `ts/lib/curve-quote.ts` | `Curve` | |
| `TradeCommands` | the commands that trade, composed with `EulrHook` | `EulrHook`, `CurveQuote` | `TradeCommandsProofs` |
| `MigrationTarget` | what a v4 target accepts | | |
| `MigrationKeeper` | `migrate-liquidity` against a busy launch | `MigrationTarget` | `MigrationKeeperProofs` |
| `Readiness` | environment, target and factory deployment, records, gate | `MigrationTarget` | `ReadinessProofs` |
| `DeploymentRecord` | every command that writes or publishes the record | | `DeploymentRecordProofs`, `UndisturbedProofs` |
| `SepoliaSell` | `swap-sepolia-v4-sell` | | `SepoliaSellProofs` |

`MC*` modules hold the values of a small instance. A definition that a comment
calls an *altered form* is a plausible slip of the code; `PROJECT.json` names,
for each property, the one under which TLC finds it violated.

### Curve, CurveQuote

Amounts are natural numbers in the smallest unit; `Unit` is the fixed point
one. `Exp` and `Ln` are constants: tables over the inputs the library accepts.
Outside of a table the code reverts, which is the definedness condition
(`ExpDefined`, `BuyQuotable`, `SellQuotable`) every caller has as a guard. The
assumptions name what the curve relies on in the library: `exp(0) = 1`, `exp`
does not fall, and the round trip `totalMinted(okbAtMinted(m))` is off by at most
`RoundTripDust` (for any finite tables such a bound exists; TLC computes that 4
is enough for the instance).

`CurveQuote` has the formulas of the mirror over tables of its own, because
decimal.js rounds where the chain truncates; `MirrorAssumption` bounds the
difference. `quote-create-buy` prints what `create-token-and-buy` computes, with
the same operator. That both sell quotes agree up to the bounds is an assumption
of `MCTradeCommands` (`MirrorsSell`), evaluated by TLC over every input of the
instance.

### EulrHook

One record, `world`, holds the storage and the balances of the launch, with the
names of the code, the venue the target has built, and two history fields:
`donated` (the OKB in the reserve that did not come through the curve) and
`sells`. `saved` is the state a revert falls back to. A transaction without an
outgoing call is one step (`Buy`, and a `Sell` with nothing to pay). One
with an outgoing call is a step up to the call (`Sell`, `ClaimFees`,
`MigrateLiquidity`), any number of steps of the callee (`Donate`,
`TransferTokens`), and one that ends it: `SellReturns`, `ClaimReturns`,
`MigrationReturns` for any pool and liquidity, or `CalleeReverts`. `call` says
which call is out; `nonReentrant` is the guard `NotEntered`. Between
transactions `world = saved`.

The router is folded into the hook's actions, because each of its functions is
one transaction with the hook's: `Buy(payer, recipient, ...)` covers `buy` (the
payer is the caller) and `buyFor` (the factory names the payer), `Sell` begins
with the pull of the seller's tokens into the hook. `Hook` is a possible recipient:
OKB paid to the hook itself comes back through `receive`. Left out: events,
zero-address checks, the role checks of `onlyRouter` and `onlyFeeRecipient` (a
call without the role changes nothing), and 256-bit overflow, which Solidity 0.8
turns into a revert far from any amount of OKB.

### LaunchSpec, and how EulrHook implements it

`LaunchSpec` has six variables: the phase (trading, graduated, migrated), the
curve's OKB, the fees owed, the OKB held, the supply and what the venue got. Its
steps are whole transactions: a buy, a buy that graduates, a sell, a claim, the
migration, a gift. `EulrHook` maps to it by its *committed* state `saved`, so
everything inside a transaction, and a transaction that reverts, stutters. The
property `LaunchImplemented` is the abstract specification under that mapping;
TLC checks it in the run `launch` and `EulrHookProofs` proves it.

Its steps say what moves: what a buyer pays goes to the curve and the fees, what
leaves the curve is paid out or becomes a fee and is covered by the reserve, a claim
takes the fees and no more, the venue gets all but the fees. They do not say that
the hook can pay, nor that amounts stay above zero; that follows from them
(`Solvent`, `TypeOK` of the module, in `StaysSolvent`).

### TradeCommands

A command of `buy`, `sell`, `claim-fees`, `create-token-and-buy`,
`simulate-graduation`, the inspection of `smoke-dynamic-tax-anvil` and the HashKey
smoke script is a process with the key of one account: it reads (`Start*`,
`ReadField`, `CheckGraduation`), approves (`Approve`), asks for an estimate
(`Send`, refused when the transaction would revert now), is mined (`Mine`), and
ends. The transactions are the actions of `EulrHook` themselves, with wallets and
allowances around them. `command[u].moved` is history: somebody else's
transaction came in since the command has shown something. The smoke script pays with the
owner's key, so its transfers also overtake a command the owner has running.
`Lacking` tells, for each outcome, whether what a command asked for was not there
to begin with. The smoke script
funds its accounts, runs them in chunks, and lets each wait for a block later
than its buy's.

A creation has a floor from `--min-out`, which its user names and nothing bounds,
or from the mirror's quote and `--slippage-bps`; a floor of zero needs
`--allow-zero-min-out`, in a creation, a buy and a sell. What it is to be named, its
URIs, its taxes and its recipient are one choice, `valid`: the command does not look
at them as the factory does, and a factory that refuses them
(`_validateTokenMetadata`, the zero address, `validateParams`), or that has no hook
implementation, reverts the creation (`FactoryTakes`).

`simulate-graduation` buys as often as it takes, with no bound of its own unless
`--max-buys` is given (`maxBuys`, `Unset` by default). It ends because every round
takes ten OKB from one purse: at the latest when that is empty, however far the
sells of others have taken the curve back. Each behaviour has finitely many commands
of others (`MaxCommands`), so the purse is filled finitely often too; a run in which
others filled it for ever would go on for ever in the code as well.

A node may hand out the receipt of an open block and estimate in it; this is why a
sell can come in the block of its own buy. The contracts are on the network's own
chain, as the deployment's chain check demands. The migration is left to
`MigrationKeeper`: none of these commands starts one, and what they show is
checked up to it. After a migration the inspection's assertion that supply and
burnt tax follow the curve (`smoke-dynamic-tax-anvil.ts:56-58`) fails of any
launch, because the migration mints what the curve never did. Of the smoke
inspection, what compares single values with each other is modelled, and the two
comparisons of quotes for one OKB and one token are not. Rows of the wallets file
have different addresses.

### MigrationKeeper, MigrationTarget

The launch is reduced to what the migration compares: balance, claimable fees,
supply and burnt tax, to which every sell adds. The command reads three values and
the block in any order (`Read`), computes its maxima, estimates and sends
(`SendMigration`, or `Refused`); its transaction sits in `pool` behind those of
attempts that have given up (`TimeOut`), and is mined in order (`Mine`). Others
sell, claim, donate and let time pass at any moment. What every reading and every
pending transaction has been through (a claim between two reads, a donation, sells)
is kept with it as history (`Note`). `--data`, the operator's own bytes, is left
out.

### Readiness

The environment, the targets and factories on the chain with their immutables,
the two records, the running `deploy:migration-target`, and the running gate.
`EditEnv` and both deployments may happen at any moment, also between two
commands of the gate, and the deployment of a target may stop before, while or
after its record is written. A doctor's node answers everything, only the first
questions, or nothing; answers that cannot be had are warnings, as in the code. The
gate's run keeps the environment it was started with. `touched` is history:
something has changed since. Empty hook data counts as set.

### DeploymentRecord

Each command that writes `latest.json` is a process that reads the record when it
starts, works on its copy with one transaction per step, truncates the file and
fills it; `Stop` ends it anywhere. Contracts are numbers in the order of creation,
so "has code" is a comparison. `deploy` (01 and 02), `create-token` and
`create-token-and-buy`, `upgrade-hooks`, `upgrade-routers`, `upgrade-factory`,
`upgrade-hook-architecture` and `export:abis` are there, two at a time. The
histories `last`, `solo`, `orderly` and `alone` say what was last written whole and
whether commands overlapped or stopped. `doctorDeployment` and `smokeHookUpgrade`
are the comparisons of those scripts, used in the properties.

### SepoliaSell

One process: read the balance, choose an amount, simulate and halve, see to both
allowances, swap, and again for the next chunk. Others move a token of the wallet
or let the router's allowance run out between any two steps. Token, Permit2,
router and pool are external: the token refuses transfers above a limit, and the
pool pays one for one.

## 3. The runs

| Run | Question | Result |
| --- | --- | --- |
| `launch` | do the books, the cap, graduation and the migration survive every interleaving, and is the abstract launch implemented? | holds, about 550,000 states |
| `launch_live` | do failed migrations and payouts leave room for a next try that succeeds? | holds, about 22,000 states |
| `trade_commands` | do commands deliver what they show and end, when several run at once? | holds, about 320,000 states |
| `migration_keeper` | what makes a keeper's migration fail, and does repeating it succeed? | holds, about 490,000 states |
| `readiness` | does a passed gate mean an accepted migration? | holds, about 940,000 states |
| `deployment_record` | what can two commands and a crash do to the record? | holds, about 1,390,000 states |
| `deployment_record_solo` | do commands one after the other keep record and chain together? | holds, about 820,000 states |
| `sepolia_sell` | are the swaps covered, and does the halving overcome a limit? | holds, about 1,400,000 states |
| `migration_fill`, `graduation_test`, `export_snapshot`, `sepolia_sell_all` | does the code do what a doc, a test or a comment says? | no, see the findings |

### What they show

* `launch`. `ReserveMatchesCurve`, `FeesCovered`: balance, fees and curve agree,
  also when seen by a callee. `OpenMeansBelowThreshold`, `GraduationFinal`:
  graduation is reached when it should be, and is final. `SupplyTracksCurve`,
  `SupplyCapped`: supply plus burnt tax follow the curve and stay under the cap,
  up to the rounding of each sell. `MigrationAllOrNothing`, `MigratedOnce`: what is
  committed is a whole migration, once. `CalleeCannotTouchBooks`: while a call is
  out the books stand still. `LaunchImplemented`: the refinement above.
* `launch_live`. `MigrationHappens`, `FeesGetClaimed`: retries succeed.
* `trade_commands`. `TradesAsShownUnlessOvertaken`: what is shown is what is paid,
  and a sent transaction reverts only if somebody came in between; the same
  for the values an inspection adds up. `SmokeSellsUnlessOvertaken`: no smoke
  account is refused because of its own buy. `CommandsEnd`: also a `simulate-graduation`
  without `--max-buys`, while others sell. `CreateRefusedOnlyByRounding`: a creation
  the factory takes is refused for a floor its user named and the first buy does not
  pay, for parameters the record has and the contract has not, or for a slippage
  within the difference of the two computations; for nothing else.
* `migration_keeper`. `RefusedOnlyIfOvertaken`: claims and small sells after the
  readings do not make a migration fail; a donation, a claim between two readings,
  sells beyond the burnt tax (which the command does not subtract and the hook
  does), the deadline or another migration do. `SuccessMeansMigrated`, also with
  earlier attempts in the pool. `KeeperMigrates`.
* `readiness`. `RecordDescribesTarget`: the one fact no doctor checks and all rely
  on. `OnlyHookDataCanBeWrong`: even without a gate a launch refuses what the
  keeper builds for it for its hook data only. `GateMeansAccepted`,
  `GateMeansCustody`: what the gate is for, although a doctor may have compared
  nothing.
* `deployment_record`. `RecordedIsReal`: no interleaving records what does not
  exist, or records it twice. `RecordedFactoryCanCreate`. `AllUpgradeConverges`: an
  undisturbed `--all` heals whatever an earlier one left. `EntriesLostOnlyByOverlap`:
  lost launches come from overlapping commands (which the README of the repository
  warns of for the smoke flows) or from another factory. `ExportsAgree`.
* `deployment_record_solo`. `SequentialCommandsKeepRecord`, `NoRouterLeftBehind`,
  `CreatedIsLatest`.
* `sepolia_sell`. `SwapIsCovered`, `LimitsAreOvercome`.

### Bounds

All bounds are constants, in the guards or in the initial states.

* Launch: a cap of 20 tokens, scale 4, buys of 4 OKB (3 after the fee), a
  threshold of 16 tokens reached in the third buy; two blocks, two sells of any
  size, one donated OKB, one trader and the hook itself as recipients. Fee and tax
  are 25% and 25% to 50%, so that they do not vanish by rounding. That is enough
  for graduation, overshoot, sells that bring a graduated curve below the
  threshold, failed and repeated migrations, sells after a migration paid from a
  donation, claims at any point, and the callee acting in each call.
* Commands: the same launch, its owner and two wallets, three commands of a
  behaviour, two blocks, networks with the right, a wrong and no RPC URL, a record
  with the contract's and with other parameters, a factory with and without a hook
  implementation, floors below and above what a first buy pays, no slippage, half and
  more than all, `--max-buys` of two and none. A purse of 20 OKB lets the graduation
  go through its loop more than twice and end in each of its ways. Three
  commands are the least at which one is overtaken by two others, and at which a
  buy, a sell and a smoke script meet.
* Keeper: a graduated launch with 2 OKB, a cap of 3 and one token of burnt tax, a
  deadline of the present block, three moves of others and two transactions in
  the pool: enough for a donation, a claim and a sell to fall before, between and
  after the readings, and for a late transaction of an attempt that gave up.
* Readiness: two recipients, a venue with and one without code, an aligned and a
  misaligned pool, a good and a zero liquidity, two hook data, the right and
  another chain; two targets, two factories, two edits. One edit may follow each
  deployment, or two the gate.
* Record: two processes, four commands (one process: five), two tokens, two
  factories, two directories; networks that are new, and ones with a factory from
  before hooks had proxies. Two overlapping commands are what it takes to lose an
  entry, and a third and a fourth to build on what was left.
* Pool sell: balances up to 9, limits below, at and above the smallest amount of
  the backoff, allowances missing, partly used and unlimited, one move of others.

Deadlock is checked in `readiness` only, where a gate can always be started. In the
other runs a behaviour may stop when its bounds are used up, or a script ends.

### Fairness

* `launch_live`: a callee returns or reverts (it runs out of gas at the latest),
  so weak fairness of `Callee`. Keeper and fee recipient try again as long as
  they can, and neither the target nor the fee recipient refuses for ever although
  it could accept: strong fairness of `MigrateLiquidity` and `Claim`, and of their
  successful ends. It is strong because other transactions interrupt what enables
  them. A launch that has nothing to hand over is refused by the targets;
  `Migratable` excludes it.
* `migration_keeper`: the operator repeats the command and the command works (weak
  fairness of its steps), blocks are produced (weak fairness of `Mine`), and a
  transaction that is acceptable again and again is mined one day while the
  position manager can take all of it (strong fairness). That the others' moves
  are bounded says that from some moment on an attempt is not disturbed. `TimeOut`
  and `Interrupt` have no fairness.
* `trade_commands`: a command that can go on does, as the node answers and mines
  what it was sent and the clock of the wait runs; the smoke script goes on; a
  recipient takes its payout. The first is weak fairness, written so that TLC need
  not evaluate `ENABLED` of a large action. No trader has to start anything and no
  block has to come.
* `sepolia_sell`: the script runs until it ends.

### Findings

* `migration_fill`: the docs (`docs/curve-graduation-and-migration.md:186`) say the
  migration mints "enough newly minted tokens to bring token supply up to `K`".
  The code mints up to `K - taxBurnedTokens`: burnt tax lowers the cap for good.
* `graduation_test`: `test/invariant/GraduationInvariant.t.sol:32` asserts that
  a launch with the flag set has minted at least the threshold. After a sell on a
  graduated launch it has not. The code and the rest of the docs agree that
  the flag stays. The test's sell handler sells on a graduated launch as on any
  other, so the test passes as long as no sequence of its calls graduates the launch
  and sells afterwards.
* `export_snapshot`: `addresses.ts` calls itself a "snapshot of every recorded
  deployment", but the export skips a record it cannot parse and succeeds; an
  interrupted write of the record leaves one.
* `sepolia_sell_all`: the script's head says that sell-all sells until only dust is
  left, halving what is refused. The simulation comes before the approvals, so
  a wallet that has not approved Permit2 sells nothing, unless `--skip-precall`.

## 4. The proofs

What TLAPS proves holds for all values of the constants under the named
assumptions; each assumption is evaluated by TLC in a run.

**`CurveProofs`**: facts about the curve for all parameters and all tables that
satisfy the assumptions: monotone and capped minting, the tax's bounds and fall,
and that quotes conserve what they split.

**`EulrHookProofs`**: every safety and action property of the run `launch`, from

* `ParamsAssumption`: `validateParams` accepts the parameters;
* `FixedPointAssumption`, `RoundTripAssumption`: the library, as above;
* `AccountsAssumption`: hook, target and users are different accounts;
* `AmountsAssumption`: amounts and bounds are natural numbers;
* `ThresholdAssumption`: the threshold is above zero, so that an empty curve has
  not graduated. `validateParams` would allow `K * bps < 10000`, the factory's
  `K` of 21,000,000 tokens does not.

None of the properties is inductive by itself. `ReserveMatchesCurve` must hold
of `saved` as well, or a revert could break it; the reserve after a buy is right
only if an open launch is not migrated; a sell after the migration keeps the
donations non-negative only because the reserve check and `Backed` together
bound what it pays; `SupplyCapped` needs the curve's own cap as long as buys are
open, and the post-burn cap at the migration. The inductive invariant `IInv`
says: `Good` (backed, latched, on the curve, capped) holds of both `world` and
`saved`; the two are equal between transactions; `saved` is always settled, and
`world` is too except inside a migration, where the flag is up and the
venue not yet built; and `world` is a state a transaction could have reached
from `saved` (`Follows`), which is what gives the action properties when the
transaction ends. The proof goes bottom up: what the ledger operations do to a
state, what each operation leaves field by field, that it keeps `Good`, the ways a
transaction can run, then one lemma per action and `NextKeeps`.

*Who holds the supply.* `SupplyIsHeld`: the balances of all accounts add up to the
supply, also in the middle of a transaction. A sum over the accounts would be an
induction over data, so the proof counts instead: `Coins` has one element for
each token of each account, a credit adds a stack of them, a debit takes one away,
and `Counted` says that their number is the supply. Nothing in `IInv` says so; it is what
makes "the seller has the tokens" imply "the curve has sold them".

*The refinement.* `EulrHook` implements `LaunchSpec` (`HookImplementsLaunch`). Only
the last step of a transaction is an abstract one, so the invariant `Pending` says
that what a callee sees is, already and whatever it does next, one promised step
away from the committed state. The abstract surplus (held, less owed, less curve)
is what was donated, which turns the abstract guards into facts of `Good`. That
whoever keeps to `LaunchSpec` always holds what it owes (`StaysSolvent`) is an
induction over the abstract steps, one case each; no step has it as a guard or
conclusion. With the refinement, every committed state of a launch is solvent
(`LaunchStaysSolvent`).

**`TradeCommandsProofs`**: the four invariants of the run `trade_commands`, for any
number of accounts, commands, blocks and recipients, from the assumptions above and

* `CommandsAssumption`: bounds and amounts of the instance are natural numbers, and
  keys and recipients are accounts;
* `MirrorAssumption`: mirror and chain differ by at most `MirrorDust`;
* `FirstBuyAssumption`: the first buy stays below the largest exponent, as ten OKB
  on a curve whose scale is at least one OKB do.

The commands are composed with the proved launch: an action of theirs contains an
action of `EulrHook`, and the lemmas about that action are used as they are. The
invariant `CInv` has these parts.

* `ChainOK`: the launch's `IInv` and `Counted`, and that it is never migrated.
* `Shaped`, `Approved`: which steps a command of a kind can be at; between approval
  and sell nobody spends the allowance, because it takes the account's own key.
* `Floored`: a floor the user did not name comes from the mirror's quote for an
  empty curve. `MirrorIsClose` bounds its distance from what the chain pays for the
  first buy, whatever the tables.
* `Current`: as long as nobody else's transaction came in, what a command knows is
  true: the payout it showed is what would be paid now, a sent transaction would be
  accepted, an account of the smoke script that has waited is past the block of
  its buy, and the values an inspection has read are the ones it would read. It is
  why only an overtaken command is disappointed.
* `Chunked`, `Fresh`, `ScriptOK`: smoke accounts trade only while their chunk runs;
  before the creation there is no other command; and each finished outcome is as
  the properties say.

That no more smoke accounts trade than `--concurrency` allows (`ChunkBounds`) is a
count: the chunk is an interval of positions, and accounts are the image of it.

**`ReadinessProofs`**: all properties of the run `readiness`. A passed gate speaks
of what its five commands saw one after the other; the invariant carries each
verdict to the end of the gate, and beyond, as long as nothing is touched:
`RecordsTrue` (record and running deployment agree with the target's immutables),
`DeploymentTrue` (the deployment record with the factory's) and `GateTrue` (what has
passed so far, of the environment at the start).

**`MigrationKeeperProofs`**: the three invariants of the run `migration_keeper`. The
invariant says what a reading is still worth (`Worth`): without a donation since,
the balance has not grown; without a claim between the two reads, balance less
fees is bounded by what was read, whichever was read first; the supply fell by
what was sold. The burnt tax grows by no more than the supply falls, so a launch
with tokens to mint keeps them. One lemma carries it through any step of others
(`WorthLasts`), and
it holds for the command and for each transaction of the pool alike.

**`SepoliaSellProofs`**: `TypeOK` and `SwapIsCovered`: from choice to swap the
amount stays within what was wanted, each allowance covers it from the moment it
was seen to, and without a move of others a simulation that succeeded still
would.

**`DeploymentRecordProofs`**: `TypeOK`, `RecordedIsReal` and
`RecordedFactoryCanCreate`, for any number of commands that overlap, from
`BoundsAssumption` alone. A command writes a copy it took much earlier, so the
invariant is about every copy: it is as real as the file, and names a hook only of
a factory that has one, except in a deployment between its last two transactions
(`Copied`); the launch just created is of the copy's factory and not in the
copy yet (`Creating`); what is left to upgrade is in the copy, and the new
implementation has code (`Upgrading`). Other commands cannot spoil a copy because
the chain only grows (`Grows`, `SoundLasts`). Each command's own step is one lemma.

**`UndisturbedProofs`**: the remaining properties of both record runs, in three
layers over the invariant above, for any number of commands, tokens, factories and
directories.

1. `AInv` is what a command can rely on while it is alone, whatever happened before it
   started: nobody else writes, so the file it read is still the last one written
   (`FileIsLast`), its copy has what the file had (`Remembers`)
   and ends with the launch it created (`Pushed`), no factory gives out a newer
   implementation than an upgrade's (`Newest`), the launches an `--all` has passed have the new
   implementation and the others are still on its list (`Converging`), and the
   directories an export has passed have the new files (`Exporting`).
   `EntriesLostOnlyByOverlap`, `CreatedIsLatest`, `AllUpgradeConverges` and
   `ExportsAgree` follow, each of the step in which the command completes.
2. `SInv` holds of runs in which no two commands overlap, even if each may stop
   anywhere: no launch in the record, in a command's copy, or about to be added to
   it, has an older router than its factory gives out (`Ahead`). It is inductive because
   the factory's default is set last, when `Converging` says that every launch has
   been upgraded. `NoRouterLeftBehind` follows.
3. `OInv` holds of runs in which commands neither overlap nor stop. Between commands
   the file agrees with the chain (`FileAgrees`); during one, its copy does, up to
   what it has yet to write (`InProgress`: the default of an unfinished deployment, the
   second transaction of an architecture upgrade, the launch just created, the
   entries an `--all` sets together at its end). `SequentialCommandsKeepRecord`
   follows.

With these, every invariant and action property of every passing run is a theorem
but for the five liveness properties.

Only model-checked: the liveness properties `MigrationHappens`, `FeesGetClaimed`,
`KeeperMigrates`, `LimitsAreOvercome` and `CommandsEnd` (fairness is out of the
prover's reach), that the tables computed from `UD60x18` satisfy the assumptions, and
`MirrorsSell` (TLC evaluates them for the instances). Induction with an operator
as parameter cannot be used by the installed provers; where a proof needs a least
number, it takes the minimum of a set under a well-founded order (lemma `Least`).

Trying to prove the properties of `TradeCommands` has corrected the model in two
places. The smoke script's transfers did not count as overtaking a command of the
owner, although they spend from the same account, and an inspection's failure was
put down to others when no tax had been burnt yet. Both are in the model now, and
`FirstBuyAssumption`, which the bounds of the instance had hidden, is stated.

## 5. Not modelled, and why

* `preflight-xlayer` and the doctors' comparisons of values no command changes
  (curve parameters, owners): constants compared with constants.
* Factory functions for the owner of the factory and the registry's views: no
  command uses them, and they change one mapping each.
* `smoke-anvil-accounts`: a sequence of commands that are modelled, for the
  accounts whose keys the environment lists; how a key gives an address is not.
* The generated ABIs (`frontend/abi/index.*`, more than half of the source lines) and
  the ABIs the export copies: text from the compiler. Their addresses are modelled.
* `lib/lcov-coverage.ts`, `lib/redaction.ts`, `lib/units.ts`, `cli/anvil-forge.ts`:
  formatting and a wrapper, no state and no order of steps.
* Uniswap v4, Permit2, OpenZeppelin, viem: external; what the code relies on is in
  the models that use them.
* What `UD60x18.exp` computes bit by bit: the model computes the same value from a
  series, at a smaller unit.

## 6. Where to go on

1. The curve over bounded inputs against an exact reference: round trips never
   gain, splitting a buy never helps beyond rounding.
2. Two launches of one factory side by side, which share nothing but the
   implementations.
