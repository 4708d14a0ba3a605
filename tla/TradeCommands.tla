--------------------------- MODULE TradeCommands ---------------------------
(***************************************************************************)
(* The commands that trade on one launch, from its creation on (ts/cli/    *)
(* create-token-and-buy, buy, sell, claim-fees, simulate-graduation and    *)
(* smoke-hashkeytest-accounts), running at the same time, each with the    *)
(* key of one account.  A command reads the chain, asks the node for an    *)
(* estimate, sends a transaction and waits for its receipt; between any    *)
(* two of these the others go on.  What a transaction does is EulrHook.    *)
(*                                                                         *)
(* A node may hand out the receipt of a block that is still open, and      *)
(* estimate the next transaction in it: the smoke script waits for a       *)
(* later block before it sells, the sell command does not.                 *)
(***************************************************************************)
EXTENDS EulrHook, CurveQuote, Sequences, FiniteSets

CONSTANTS
    Owner,          \* TEAM_MULTISIG: creates the launch, claims fees, funds wallets
    Wallets,        \* OKB the others may start with
    OwnerWallet,    \* OKB the owner starts with
    RecordedParams, \* deployment.curve of the record
    Floors,         \* --min-out of a creation
    Slippages,      \* --slippage-bps
    SellAmounts,    \* --tokens
    DustLimit,      \* what smoke-dynamic-tax-anvil takes for dust
    TenOkb,         \* the buy of simulate-graduation
    BuyLimits,      \* its --max-buys
    LocalChain,     \* what runs behind DEFAULT_ANVIL_RPC_URL
    Networks,       \* DEPLOYMENT_NETWORK
    Endpoints,      \* the chain behind the RPC variable, or NoUrl
    WalletFiles,    \* --wallets-file: rows of an address and a private key
    Limits,         \* --limit
    Concurrency,    \* --concurrency
    MinBalance,     \* --min-balance
    FundBalance,    \* --fund-balance
    SmokeBuy,       \* --buy-okb
    SmokeSell,      \* --sell-tokens
    Keys,           \* bound: accounts the single commands run with
    Recipients,     \* bound: --recipient other than the account itself
    MaxCommands     \* bound: commands of a behaviour

ASSUME CommandsAssumption ==
    /\ Owner \in Users
    /\ Wallets \subseteq Nat /\ OwnerWallet \in Nat
    /\ RecordedParams \in CurveParams
    /\ Floors \subseteq Nat /\ Slippages \subseteq Nat
    /\ SellAmounts \subseteq Nat
    /\ TenOkb \in Nat /\ BuyLimits \subseteq Nat \ {0}
    /\ LocalChain \in Nat /\ Endpoints \subseteq Nat /\ Networks \subseteq STRING
    /\ WalletFiles \subseteq Seq([address : Users, key : Users])
    /\ \A rows \in WalletFiles : \A i, j \in DOMAIN rows :
          rows[i].address = rows[j].address => i = j
    /\ Limits \subseteq Nat /\ DustLimit \in Nat
    /\ Concurrency \in Nat \ {0}
    /\ MinBalance \in Nat /\ FundBalance \in Nat
    /\ SmokeBuy \in Nat /\ SmokeSell \in Nat
    /\ Keys \subseteq Users /\ Recipients \subseteq Users
    /\ MaxCommands \in Nat

\* Ten OKB at most, on a curve whose scale is one OKB at least (Curve.defaultParams,
\* EulrFactory._curveParamsForS): far from the largest exponent.
ASSUME FirstBuyAssumption ==
    \A okb \in 1..MaxBuyOkb : ExpDefined(effectiveOkbIn(okb))

VARIABLES
    network,        \* DEPLOYMENT_NETWORK
    endpoint,       \* the chain behind its RPC variable
    hookImplementation, \* the factory has one
    created,        \* the launch exists
    recorded,       \* the parameters the record gives for it
    wallet,         \* OKB of every account
    allowance,      \* what the router may pull from every account
    command,        \* the command running with every account's key
    outcome,        \* how the last one ended
    smoke,          \* the smoke script
    left            \* commands that may still be started

setup == <<network, endpoint, hookImplementation>>
accounts == <<setup, created, recorded, wallet, allowance>>
commands == <<command, outcome, smoke, left>>
allVars == <<vars, accounts, commands>>

Kinds == {"none", "create", "buy", "sell", "claim", "graduate", "inspect", "smoke"}
Transactions == {"create", "buy", "sell", "claim"}
Steps == {"approve", "ready", "sent", "check", "wait", "read"}
Fields == {"totalSupply", "taxBurnedTokens", "totalMinted"}
Unread == -1

\* An option that is not on the command line.
Unset == -1

(***************************************************************************)
(* promised is what the command has told its user, moved whether somebody  *)
(* else's transaction came in since it did.                                *)
(***************************************************************************)
Commands ==
    [kind : Kinds, step : Steps, tx : Transactions,
     amount : Nat, minOut : Nat, recipient : Users,
     promised : Nat, moved : BOOLEAN,
     since : Nat,           \* smoke: the block of the buy
     buys : Nat,            \* graduate: buys so far
     maxBuys : Nat \cup {Unset},             \* graduate: --max-buys
     seen : [Fields -> Nat \cup {Unread}],   \* inspect: what it has read
     stale : BOOLEAN,       \* create: the record has other parameters than the launch
     given : BOOLEAN,       \* create: the floor is --min-out
     valid : BOOLEAN]       \* create: names, URIs, taxes and recipient are allowed

Failures == {"none", "funds", "refused", "reverted", "timeout", "max-buys", "assert"}

Outcomes ==
    [kind : Kinds, tx : Transactions, why : Failures,
     promised : Nat, paid : Nat, minOut : Nat, moved : BOOLEAN,
     short : BOOLEAN, stale : BOOLEAN, given : BOOLEAN,
     taken : BOOLEAN]       \* create: the factory has a hook for it and takes what it gives

Scripts ==
    [step : {"off", "balance", "fund", "run", "running", "done", "failed"},
     accounts : Seq(Users), next : Nat, due : Nat, mayFund : BOOLEAN]

(***************************************************************************)
(* Every part has its shape, the purses are never overdrawn, and no more   *)
(* accounts of the smoke script trade at a time than --concurrency allows. *)
(***************************************************************************)
Smoking == {u \in Users : command[u].kind = "smoke"}

CommandsTypeOK ==
    /\ TypeOK
    /\ network \in Networks /\ endpoint \in Endpoints /\ hookImplementation \in BOOLEAN
    /\ created \in BOOLEAN /\ recorded \in CurveParams
    /\ wallet \in [Users -> Nat]
    /\ allowance \in [Users -> Nat]
    /\ command \in [Users -> Commands]
    /\ outcome \in [Users -> Outcomes]
    /\ smoke \in Scripts
    /\ Cardinality(Smoking) <= Concurrency
    /\ left \in 0..MaxCommands

NoCommand ==
    [kind |-> "none", step |-> "check", tx |-> "buy", amount |-> 0, minOut |-> 0,
     recipient |-> Owner, promised |-> 0, moved |-> FALSE, since |-> 0, buys |-> 0,
     maxBuys |-> Unset, seen |-> [f \in Fields |-> Unread], stale |-> FALSE,
     given |-> FALSE, valid |-> TRUE]

NoOutcome ==
    [kind |-> "none", tx |-> "buy", why |-> "none", promised |-> 0, paid |-> 0,
     minOut |-> 0, moved |-> FALSE, short |-> FALSE, stale |-> FALSE,
     given |-> FALSE, taken |-> TRUE]

CommandsInit ==
    /\ Init
    /\ network \in Networks /\ endpoint \in Endpoints /\ hookImplementation \in BOOLEAN
    /\ created = FALSE /\ recorded = RecordedParams
    /\ wallet \in [Users -> Wallets \cup {OwnerWallet}]
    /\ \A u \in Users : wallet[u] = OwnerWallet <=> u = Owner
    /\ allowance = [u \in Users |-> 0]
    /\ command = [u \in Users |-> NoCommand]
    /\ outcome = [u \in Users |-> NoOutcome]
    /\ smoke = [step |-> "off", accounts |-> <<>>, next |-> 1, due |-> 0, mayFund |-> FALSE]
    /\ left = MaxCommands

-----------------------------------------------------------------------------
(* The network a command runs on (config/chains.ts, lib/clients.ts).  The  *)
(* contracts are on the network's own chain: on another one, reads find no *)
(* code and the client refuses to send.                                    *)

NoUrl == 0

Known == [anvil |-> 31337, xlayer |-> 196, hashkeytest |-> 133, sepolia |-> 11155111]

knownChainIdForNetwork ==
    IF network = "forge-local" THEN Known.anvil
    ELSE IF network \in DOMAIN Known THEN Known[network] ELSE NoUrl

\* No client for any other network.
chainConfigFor == network \in DOMAIN Known

rpcUrl == IF endpoint = NoUrl /\ network = "anvil" THEN LocalChain ELSE endpoint

publicClient == chainConfigFor /\ rpcUrl # NoUrl

\* What the deployment has checked, and what every command needs.
checkChain == publicClient /\ rpcUrl = knownChainIdForNetwork

-----------------------------------------------------------------------------
(* Starting a command.                                                     *)

Free(u) == NotEntered /\ command[u].kind = "none"

MayStart(u) == left > 0 /\ Free(u) /\ checkChain

\* Commands on the recorded launch (resolveTokenInfo).
MayStartOnLaunch(u) == created /\ MayStart(u)

Start(u, c) ==
    /\ left' = left - 1
    /\ command' = [command EXCEPT ![u] = c]
    /\ UNCHANGED <<vars, accounts, outcome, smoke>>

getRequiredMinOutArg(minOut, allowZero) == minOut # 0 \/ allowZero

(***************************************************************************)
(* buy and sell show the hook's quote; a quote that reverts ends them.     *)
(***************************************************************************)
TokensOut(quote) == quote.tokensOut

StartBuy(u, okb, minOut, recipient) ==
    /\ MayStartOnLaunch(u)
    /\ \E allowZero \in BOOLEAN : getRequiredMinOutArg(minOut, allowZero)
    /\ BuyQuotable(world.okbCum, okb)
    /\ Start(u, [NoCommand EXCEPT
            !.kind = "buy", !.step = "ready", !.tx = "buy", !.amount = okb,
            !.minOut = minOut, !.recipient = recipient,
            !.promised = TokensOut(quoteBuy(world.okbCum, okb))])

\* Altered form: what the seller is shown leaves the fee out.
GrossOut(quote) == quote.grossOkbOut

NetOut(quote) == quote.netOkbOut

StartSell(u, tokens, minOut, recipient) ==
    /\ MayStartOnLaunch(u)
    /\ \E allowZero \in BOOLEAN : getRequiredMinOutArg(minOut, allowZero)
    /\ SellQuotable(world.okbCum, tokens)
    /\ Start(u, [NoCommand EXCEPT
            !.kind = "sell", !.step = "approve", !.tx = "sell", !.amount = tokens,
            !.minOut = minOut, !.recipient = recipient,
            !.promised = NetOut(quoteSell(world.okbCum, tokens))])

\* claim-fees reads what it will report as claimed before it claims.
StartClaim(recipient) ==
    /\ MayStartOnLaunch(Owner)
    /\ Start(Owner, [NoCommand EXCEPT
            !.kind = "claim", !.step = "ready", !.tx = "claim", !.recipient = recipient,
            !.promised = world.claimableFeeOkb])

\* It runs nowhere but on Anvil, --allow-live or not.
assertLocalSimulationOrAllowed == network = "anvil" /\ rpcUrl = Known.anvil

StartGraduation(u, maxBuys) ==
    /\ MayStartOnLaunch(u)
    /\ assertLocalSimulationOrAllowed
    /\ Start(u, [NoCommand EXCEPT
            !.kind = "graduate", !.step = "check", !.tx = "buy", !.amount = TenOkb,
            !.recipient = u, !.maxBuys = maxBuys])

\* smoke-dynamic-tax-anvil, of the launch as the record has it.
StartInspect ==
    /\ MayStartOnLaunch(Owner)
    /\ network = "anvil"
    /\ Start(Owner, [NoCommand EXCEPT
            !.kind = "inspect", !.step = "read", !.stale = recorded # OnChain])

(***************************************************************************)
(* create-token-and-buy: without a tax of its own the launch has the       *)
(* contract's parameters and the quote those of the record, otherwise both *)
(* have the arguments'.  It quotes only if --min-out does not name the     *)
(* floor, and what it is to be named the factory alone looks at.           *)
(***************************************************************************)
QuoteParams(custom) == IF custom THEN OnChain ELSE RecordedParams

optionalUint16Arg(value, max) == value <= max

StartCreate(okb, custom, minOutRaw, slippageBps, valid, recipient) ==
    LET params == QuoteParams(custom)
        given  == minOutRaw # Unset
        quoted == IF given THEN 0 ELSE quoteBuyAtOkbCum(params, 0, okb).tokensOut
        minOut == IF given THEN minOutRaw ELSE minTokensOut(quoted, slippageBps)
    IN  /\ ~created /\ MayStart(Owner)
        /\ optionalUint16Arg(slippageBps, 9999)
        /\ given \/ MirrorQuotable(params, 0, okb)
        /\ \E allowZero \in BOOLEAN : getRequiredMinOutArg(minOut, allowZero)
        /\ Start(Owner, [NoCommand EXCEPT
                !.kind = "create", !.step = "ready", !.tx = "create", !.amount = okb,
                !.minOut = minOut, !.recipient = recipient, !.promised = quoted,
                !.stale = params # OnChain, !.given = given, !.valid = valid])

-----------------------------------------------------------------------------
(* Transactions.                                                           *)

\* What the account must hold to pay for its transaction.
Value(c) == IF c.tx \in {"buy", "create"} THEN c.amount ELSE 0

(***************************************************************************)
(* HookImplementationMissing, _validateTokenMetadata, the zero address and *)
(* validateParams of taxes of its own, in the hook's initialize.           *)
(***************************************************************************)
FactoryTakes(c) == hookImplementation /\ c.valid

(***************************************************************************)
(* The transaction of command c, of account u, would not revert now.       *)
(***************************************************************************)
Accepted(u, c) ==
    /\ c.tx = "buy"    => MayBuy(c.amount, c.minOut)
    /\ c.tx = "sell"   => MaySell(u, c.amount, c.minOut) /\ c.amount <= allowance[u]
    /\ c.tx = "claim"  => MayClaim
    /\ c.tx = "create" => /\ ~created /\ FactoryTakes(c)
                          /\ MayBuy(c.amount, c.minOut)

\* What it pays out.
Payout(c) ==
    CASE c.tx \in {"buy", "create"} -> quoteBuy(world.okbCum, c.amount).tokensOut
      [] c.tx = "sell"  -> quoteSell(world.okbCum, c.amount).netOkbOut
      [] c.tx = "claim" -> world.claimableFeeOkb

Spent(u, c) == [wallet EXCEPT ![u] = @ - Value(c)]

Received(c) == IF c.tx \in {"sell", "claim"} THEN Payout(c) ELSE 0

(***************************************************************************)
(* It is mined.  createTokenAndBuy wires the new launch and buys from it   *)
(* through its router in one transaction.                                  *)
(***************************************************************************)
Execute(u, c) ==
    /\ \/ c.tx \in {"buy", "create"} /\ Buy(u, c.recipient, c.amount, c.minOut)
       \/ c.tx = "sell"  /\ Sell(u, c.recipient, c.amount, c.minOut)
       \/ c.tx = "claim" /\ ClaimFees(c.recipient)
    /\ UNCHANGED setup
    /\ created' = (created \/ c.tx = "create")
    /\ recorded' = IF c.tx = "create" /\ ~c.stale THEN OnChain ELSE recorded
    /\ wallet' = [Spent(u, c) EXCEPT ![c.recipient] = @ + Received(c)]
    /\ allowance' = IF c.tx = "sell" THEN [allowance EXCEPT ![u] = @ - c.amount]
                    ELSE allowance

\* Whatever the others have been told is out of date.
Moved(u, c) ==
    [v \in Users |-> IF v = u THEN c
                     ELSE [command[v] EXCEPT !.moved = @ \/ command[v].kind # "none"]]

(***************************************************************************)
(* What the command asks for is not there, whoever else trades: the tokens *)
(* it sells are too many for the account or, after all the rounding, for   *)
(* the curve; the first buy of a launch does not pay its floor; no tax has *)
(* been burnt yet, or sells may have been rounded by more than the smoke   *)
(* takes for dust.                                                         *)
(***************************************************************************)
Lacking(u, c) ==
    \/ /\ c.kind = "inspect"
       /\ world.taxBurnedTokens = 0 \/ Dust(world) > DustLimit
    \/ /\ c.tx = "create"
       /\ \/ ~BuyQuotable(world.okbCum, c.amount)
          \/ quoteBuy(world.okbCum, c.amount).tokensOut < c.minOut
    \/ /\ c.tx = "sell"
       /\ world.balanceOf[u] < c.amount \/ ~SellQuotable(world.okbCum, c.amount)

Ended(u, why, paid) ==
    LET c == command[u]
    IN  outcome' = [outcome EXCEPT ![u] =
            [kind |-> c.kind, tx |-> c.tx, why |-> why, promised |-> c.promised,
             paid |-> paid, minOut |-> c.minOut, moved |-> c.moved,
             short |-> Lacking(u, c), stale |-> c.stale, given |-> c.given,
             taken |-> FactoryTakes(c)]]

EndWith(u, why) ==
    /\ command' = [command EXCEPT ![u] = NoCommand]
    /\ Ended(u, why, 0)
    /\ UNCHANGED <<vars, accounts>>

Proceed(u, c) ==
    /\ command' = [command EXCEPT ![u] = c]
    /\ UNCHANGED <<vars, accounts, outcome>>

(***************************************************************************)
(* writeContract: the node estimates first.                                *)
(***************************************************************************)
Send(u) ==
    LET c == command[u]
    IN  /\ c.kind # "none" /\ c.step = "ready"
        /\ IF Value(c) > wallet[u] THEN EndWith(u, "funds")
           ELSE IF ~Accepted(u, c) THEN EndWith(u, "refused")
           ELSE Proceed(u, [c EXCEPT !.step = "sent"])

\* The command after its transaction; NoCommand ends it.
AfterReceipt(c) ==
    CASE c.kind = "graduate" -> [c EXCEPT !.step = "check", !.buys = @ + 1]
      [] c.kind = "smoke" /\ c.tx = "buy" -> [c EXCEPT !.step = "wait", !.since = block]
      [] OTHER -> NoCommand

Mine(u) ==
    LET c == command[u]
    IN  /\ c.kind # "none" /\ c.step = "sent"
        /\ IF Value(c) <= wallet[u] /\ Accepted(u, c)
           THEN /\ Execute(u, c)
                /\ command' = Moved(u, AfterReceipt(c))
                /\ IF AfterReceipt(c) = NoCommand THEN Ended(u, "none", Payout(c))
                   ELSE UNCHANGED outcome
           ELSE EndWith(u, "reverted")

\* sell and the smoke script approve exactly what they sell.
Approve(u) ==
    /\ command[u].kind # "none" /\ command[u].step = "approve"
    /\ allowance' = [allowance EXCEPT ![u] = command[u].amount]
    /\ command' = [command EXCEPT ![u].step = "ready"]
    /\ UNCHANGED <<vars, setup, created, recorded, wallet, outcome>>

(***************************************************************************)
(* simulate-graduation looks at selfDeprecated before every buy, and buys  *)
(* as often as it takes unless --max-buys says otherwise.                  *)
(***************************************************************************)
CheckGraduation(u) ==
    LET c == command[u]
    IN  /\ c.kind = "graduate" /\ c.step = "check"
        /\ IF world.selfDeprecated
           THEN EndWith(u, "none")
           ELSE IF c.maxBuys # Unset /\ c.buys >= c.maxBuys THEN EndWith(u, "max-buys")
           ELSE Proceed(u, [c EXCEPT !.step = "ready"])

(***************************************************************************)
(* inspect-token and smoke-dynamic-tax-anvil ask for several values at     *)
(* once, and get each as of the block in which it is answered.  What the   *)
(* smoke asserts of the quotes of one OKB and one token is left out.       *)
(***************************************************************************)
Answer(f) ==
    CASE f = "totalSupply"     -> world.totalSupply
      [] f = "taxBurnedTokens" -> world.taxBurnedTokens
      [] f = "totalMinted"     -> totalMinted(world.okbCum)

TracksMinted(seen) ==
    seen.totalSupply + seen.taxBurnedTokens - seen.totalMinted \in -DustLimit..DustLimit

ReadField(u) ==
    \E f \in {g \in Fields : command[u].seen[g] = Unread} :
        LET c    == command[u]
            seen == [c.seen EXCEPT ![f] = Answer(f)]
        IN  /\ c.kind = "inspect" /\ c.step = "read"
            /\ IF \E g \in Fields : seen[g] = Unread THEN Proceed(u, [c EXCEPT !.seen = seen])
               ELSE IF ~c.stale /\ seen.taxBurnedTokens > 0 /\ TracksMinted(seen)
                    THEN EndWith(u, "none") ELSE EndWith(u, "assert")

-----------------------------------------------------------------------------
(* The smoke script.                                                       *)
(***************************************************************************)
(* The wallets file names an account and its key in every row, and the     *)
(* script trades with all but the owner's, at most --limit of them.        *)
(***************************************************************************)
parseHashKeyTestWallets(rows) ==
    rows # <<>> /\ \A i \in DOMAIN rows : rows[i].key = rows[i].address

\* A recursive function rather than SelectSeq, whose definition the provers lack.
excludeOwnerWallet(rows) ==
    LET others[i \in 0..Len(rows)] ==
            IF i = 0 THEN <<>>
            ELSE IF rows[i].address = Owner THEN others[i - 1]
            ELSE Append(others[i - 1], rows[i])
    IN  others[Len(rows)]

selectHashKeyTestSmokeTargets(rows, limit) ==
    LET others == excludeOwnerWallet(rows)
    IN  [i \in DOMAIN others \cap 1..limit |-> others[i].address]

SellNext(c) == [c EXCEPT !.step = "approve", !.tx = "sell", !.amount = SmokeSell]

\* Altered form: the receipt of the buy is enough.
NoWait(c) == TRUE

LaterBlock(c) == block > c.since

waitForNextBlock(u) ==
    /\ command[u].kind = "smoke" /\ command[u].step = "wait"
    /\ LaterBlock(command[u])
    /\ Proceed(u, SellNext(command[u]))

\* Altered form: it waits as long as it takes.
WaitsForEver(u) == FALSE

\* No later block in a minute.
TimedOut(u) == ~LaterBlock(command[u])

WaitTimesOut(u) ==
    /\ command[u].kind = "smoke" /\ command[u].step = "wait"
    /\ TimedOut(u)
    /\ EndWith(u, "timeout")

ScriptStep(s) ==
    /\ smoke' = s
    /\ UNCHANGED <<vars, setup, created, recorded, allowance, outcome>>

positiveIntegerArg(value) == value > 0

StartSmoke(rows, limit, mayFund) ==
    LET accountsOf == selectHashKeyTestSmokeTargets(rows, limit)
    IN  /\ network = "hashkeytest" /\ checkChain
        /\ NotEntered /\ created /\ left > 0 /\ smoke.step = "off"
        /\ parseHashKeyTestWallets(rows)
        /\ accountsOf # <<>>
        /\ positiveIntegerArg(limit)
        /\ left' = left - 1
        /\ ScriptStep([smoke EXCEPT !.step = "balance", !.accounts = accountsOf,
                                     !.mayFund = mayFund])
        /\ UNCHANGED <<wallet, command>>

(***************************************************************************)
(* fundIfNeeded, one account after the other; the first that cannot be     *)
(* used ends the script.  What it gives, another command of the owner may  *)
(* have counted on.                                                        *)
(***************************************************************************)
ReadBalance ==
    LET balance == wallet[smoke.accounts[smoke.next]]
    IN  /\ NotEntered /\ smoke.step = "balance" /\ smoke.next <= Len(smoke.accounts)
        /\ ScriptStep(
             IF balance >= MinBalance THEN [smoke EXCEPT !.next = @ + 1]
             ELSE IF ~smoke.mayFund \/ FundBalance <= balance
                  THEN [smoke EXCEPT !.step = "failed"]
             ELSE [smoke EXCEPT !.step = "fund", !.due = FundBalance - balance])
        /\ UNCHANGED <<wallet, command, left>>

Fund ==
    LET account == smoke.accounts[smoke.next]
    IN  /\ NotEntered /\ smoke.step = "fund"
        /\ IF smoke.due > wallet[Owner]
           THEN /\ ScriptStep([smoke EXCEPT !.step = "failed"])
                /\ UNCHANGED <<wallet, command>>
           ELSE /\ ScriptStep([smoke EXCEPT !.step = "balance", !.next = @ + 1, !.due = 0])
                /\ wallet' = [[wallet EXCEPT ![Owner] = @ - smoke.due]
                                      EXCEPT ![account] = @ + smoke.due]
                /\ command' = [command EXCEPT ![Owner].moved =
                                  @ \/ command[Owner].kind # "none"]
        /\ UNCHANGED left

Prepared ==
    /\ smoke.step = "balance" /\ smoke.next > Len(smoke.accounts)
    /\ ScriptStep([smoke EXCEPT !.step = "run", !.next = 1])
    /\ UNCHANGED <<wallet, command, left>>

\* Altered form: every account at once.
OneChunk == 1..Len(smoke.accounts)

\* chunkAccounts: the positions of the chunk that is next.
Chunk == smoke.next..(smoke.next + Concurrency - 1) \cap 1..Len(smoke.accounts)

InChunk(u) == \E i \in Chunk : smoke.accounts[i] = u

RunChunk ==
    /\ smoke.step = "run" /\ smoke.next <= Len(smoke.accounts)
    /\ \A u \in Users : InChunk(u) => Free(u)
    /\ command' = [u \in Users |->
                    IF InChunk(u)
                    THEN [NoCommand EXCEPT !.kind = "smoke", !.step = "ready", !.tx = "buy",
                                           !.amount = SmokeBuy, !.recipient = u]
                    ELSE command[u]]
    /\ ScriptStep([smoke EXCEPT !.step = "running"])
    /\ UNCHANGED <<wallet, left>>

\* Promise.all: the next chunk once every account of this one has ended.
ChunkEnds ==
    /\ NotEntered /\ smoke.step = "running"
    /\ \A u \in Users : InChunk(u) => command[u].kind = "none"
    /\ LET next == smoke.next + Concurrency
       IN  ScriptStep([smoke EXCEPT !.next = next,
                         !.step = IF next > Len(smoke.accounts) THEN "done" ELSE "run"])
    /\ UNCHANGED <<wallet, command, left>>

Smoke == ReadBalance \/ Fund \/ Prepared \/ RunChunk \/ ChunkEnds

-----------------------------------------------------------------------------
\* A step of the command that runs with the key of u.
Advance(u) ==
    /\ NotEntered
    /\ \/ Send(u)
       \/ Mine(u)
       \/ Approve(u)
       \/ CheckGraduation(u)
       \/ ReadField(u)
       \/ waitForNextBlock(u)
       \/ WaitTimesOut(u)
    /\ UNCHANGED <<smoke, left>>

\* When Advance is enabled.
MayAdvance(u) ==
    /\ NotEntered /\ command[u].kind # "none"
    /\ command[u].step = "wait" => LaterBlock(command[u]) \/ TimedOut(u)

\* The recipient of a payout takes it.
Settle == (SellReturns \/ ClaimReturns) /\ UNCHANGED <<accounts, commands>>

Starts ==
    \/ \E okb \in BuyAmounts, custom \in BOOLEAN, min \in Floors \cup {Unset},
          bps \in Slippages, valid \in BOOLEAN, to \in {Owner} \cup Recipients :
          StartCreate(okb, custom, min, bps, valid, to)
    \/ \E u \in Keys : \E to \in {u} \cup Recipients :
          \/ \E okb \in BuyAmounts, min \in MinAmounts : StartBuy(u, okb, min, to)
          \/ \E tokens \in SellAmounts, min \in MinAmounts : StartSell(u, tokens, min, to)
    \/ \E to \in {Owner} \cup Recipients : StartClaim(to)
    \/ \E u \in Keys, maxBuys \in BuyLimits \cup {Unset} : StartGraduation(u, maxBuys)
    \/ StartInspect
    \/ \E rows \in WalletFiles, limit \in Limits, mayFund \in BOOLEAN :
          StartSmoke(rows, limit, mayFund)

\* Tokens move without a command: a holder may send them anywhere.
Transfers ==
    \E from \in Keys, to \in Users, amount \in TransferAmounts :
        /\ NotEntered /\ from # to
        /\ TransferTokens(from, to, amount)
        /\ command' = Moved(from, [command[from] EXCEPT
                                    !.moved = @ \/ command[from].kind # "none"])
        /\ UNCHANGED <<accounts, outcome, smoke, left>>

Blocks == NextBlock /\ UNCHANGED <<accounts, commands>>

CommandsNext ==
    \/ Starts
    \/ \E u \in Users : Advance(u)
    \/ Smoke
    \/ Settle
    \/ Transfers
    \/ Blocks

(***************************************************************************)
(* A command that runs goes on: the node answers, mines what it was sent,  *)
(* and the clock of waitForNextBlock runs whether or not blocks come.      *)
(* This is weak fairness of Advance in a form TLC evaluates faster: each   *)
(* step of a command changes the command's record, and what others do      *)
(* changes it only once, when they set moved.                              *)
(***************************************************************************)
CommandsSpec ==
    /\ CommandsInit /\ [][CommandsNext]_allVars
    /\ \A u \in Users :
          []<>~MayAdvance(u) \/ []<><<command'[u] # command[u]>>_allVars
    /\ WF_allVars(Smoke)
    /\ WF_allVars(Settle)

-----------------------------------------------------------------------------
(***************************************************************************)
(* What buy, sell and claim-fees show their user is a read of an earlier   *)
(* state: the quote before the approval, the fees before the claim.  It is *)
(* what the transaction then pays, and a transaction that was sent does    *)
(* not revert, unless somebody else's came in between.  Nor do the values  *)
(* of an inspection fail to add up, each read by itself, unless a trade    *)
(* came between the reads, the record has other parameters than the        *)
(* launch, no tax has been burnt yet, or too many sells have been rounded. *)
(* All of this is until the migration, which mints more than the curve has *)
(* and which these commands never start.                                   *)
(***************************************************************************)
TradesAsShownUnlessOvertaken ==
    \A u \in Users :
        LET o == outcome[u]
        IN  ~o.moved =>
              /\ o.why # "reverted"
              /\ o.why = "assert" => o.stale \/ o.short
              /\ o.why = "none" /\ o.kind \in {"buy", "sell", "claim"} =>
                    o.paid = o.promised

(***************************************************************************)
(* A smoke account is not refused its sell because of its own buy: if the  *)
(* sell fails, others traded or bought for this account meanwhile, or the  *)
(* account or the curve has fewer tokens than --sell-tokens asks for.      *)
(***************************************************************************)
SmokeSellsUnlessOvertaken ==
    \A u \in Users :
        LET o == outcome[u]
        IN  o.kind = "smoke" /\ o.tx = "sell" /\ o.why # "none" => o.moved \/ o.short

(***************************************************************************)
(* create-token-and-buy computes its floor off the chain, unless its user  *)
(* names one.  If the chain refuses an account that can pay, the factory   *)
(* has no hook to launch or does not take the names, the URIs, the taxes   *)
(* or the recipient, or: the floor is the user's own and the first buy     *)
(* does not pay it, the record's parameters are not the contract's any     *)
(* more, or the slippage leaves less room than the two computations differ *)
(* by.                                                                     *)
(***************************************************************************)
CreateRefusedOnlyByRounding ==
    \A u \in Users :
        LET o == outcome[u]
        IN  o.kind = "create" /\ o.why \in {"refused", "reverted"} =>
              \/ ~o.taken
              \/ o.given /\ o.short
              \/ ~o.given /\ (o.stale \/ o.promised - o.minOut \in 0..(MirrorDust - 1))

(***************************************************************************)
(* Every command ends: a simulate-graduation without --max-buys when the   *)
(* launch is graduated, by whomever, or when the purse its buys take ten   *)
(* OKB from is empty, through all that others sell and pay into it in a    *)
(* bounded number of commands; a smoke account also when no block comes    *)
(* for it.                                                                 *)
(***************************************************************************)
CommandsEnd == \A u \in Users : command[u].kind # "none" ~> command[u].kind = "none"

=============================================================================
