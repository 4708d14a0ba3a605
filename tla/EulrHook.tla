------------------------------ MODULE EulrHook ------------------------------
(***************************************************************************)
(* One launch: the hook that owns the curve, the fees and the reserve      *)
(* (src/src/hook/EulrHook.sol), its token, and the router its traders call *)
(* (src/src/router/EulrRouter.sol).  It starts where the factory leaves    *)
(* it: initialized, router set, nothing bought.                            *)
(*                                                                         *)
(* The chain runs one transaction at a time, but three functions of the    *)
(* hook give control away before they end: sell and claimFees pay OKB to a *)
(* recipient that may be a contract, migrateLiquidity calls the migration  *)
(* target.  The callee may move tokens and send OKB to the hook; it cannot *)
(* enter the hook again (nonReentrant).  If it reverts, the whole          *)
(* transaction does.  So such a transaction is two steps or more: one that *)
(* runs up to the outgoing call, the steps of the callee, and one that     *)
(* ends it.  "world" is the state the callee sees, "saved" the state the   *)
(* chain falls back to.                                                    *)
(***************************************************************************)
EXTENDS Curve, EulrToken

CONSTANTS
    Users,              \* traders, and the contracts they trade through
    Hook,               \* address(this)
    Target,             \* migrationTarget, holding what it was given
    BuyAmounts,         \* msg.value of a buy
    MinAmounts,         \* minTokensOut and minOkbOut
    TransferAmounts,    \* amounts of token transfers
    DonationAmounts,    \* OKB sent straight to the hook
    MaxBlock,           \* bound: blocks of a behaviour
    MaxSells,           \* bound: sells of a behaviour
    MaxDonated          \* bound: OKB in the hook that no buy put there

Accounts == Users \union {Hook, Target}

ASSUME AccountsAssumption ==
    /\ Hook # Target
    /\ Hook \notin Users
    /\ Target \notin Users

ASSUME AmountsAssumption ==
    /\ BuyAmounts \subseteq Nat
    /\ MinAmounts \subseteq Nat
    /\ TransferAmounts \subseteq Nat
    /\ DonationAmounts \subseteq Nat
    /\ MaxBlock \in Nat
    /\ MaxSells \in Nat
    /\ MaxDonated \in Nat

\* An empty curve is below the threshold: K is far above 10000 units.
ASSUME ThresholdAssumption == Threshold > 0

VARIABLES
    world,  \* storage and balances of the launch, see Worlds
    saved,  \* world at the start of the running transaction, or world
    call,   \* the outgoing call of the hook that has not returned yet
    block   \* block.number

vars == <<world, saved, call, block>>

(***************************************************************************)
(* The last four fields are not the hook's: venue is what the migration    *)
(* target has built, donated and sells are history.  donated is the OKB in *)
(* the reserve that did not come through the curve; sells counts sells.    *)
(***************************************************************************)
Worlds ==
    [okbCum          : Nat,
     claimableFeeOkb : Nat,
     taxBurnedTokens : Nat,
     selfDeprecated  : BOOLEAN,
     liquidityMigrated : BOOLEAN,
     lastBuyBlock    : [Accounts -> Nat],
     balance         : Nat,                \* address(hook).balance
     totalSupply     : Nat,                \* of the token
     balanceOf       : [Accounts -> Nat],  \* of the token
     venueOkb        : Nat,
     venueTokens     : Nat,
     venueLiquidity  : Nat,
     donated         : Nat,
     sells           : Nat]

Calls == {"none", "sell", "claim", "migrate"}

TypeOK ==
    /\ world \in Worlds
    /\ saved \in Worlds
    /\ call \in Calls
    /\ block \in Nat

NoBalance == [a \in Accounts |-> 0]

Launched ==
    [okbCum |-> 0, claimableFeeOkb |-> 0, taxBurnedTokens |-> 0,
     selfDeprecated |-> FALSE, liquidityMigrated |-> FALSE,
     lastBuyBlock |-> NoBalance, balance |-> 0,
     totalSupply |-> 0, balanceOf |-> NoBalance,
     venueOkb |-> 0, venueTokens |-> 0, venueLiquidity |-> 0,
     donated |-> 0, sells |-> 0]

Init ==
    /\ world = Launched
    /\ saved = Launched
    /\ call = "none"
    /\ block = 1

-----------------------------------------------------------------------------
(* How a transaction runs.                                                 *)

\* Altered form: no reentrancy guard.
Reentrant == TRUE

\* nonReentrant: the hook is not inside one of its own calls.
NotEntered == call = "none"

\* A transaction that gives no control away: it ends in state w.
Commit(w) ==
    /\ world' = w
    /\ saved' = w
    /\ UNCHANGED <<call, block>>

\* A transaction that reaches its outgoing call c in state w.
CallOut(c, w) ==
    /\ world' = w
    /\ call' = c
    /\ UNCHANGED <<saved, block>>

\* The outgoing call returns and the rest of the transaction succeeds.
Finish(w) ==
    /\ world' = w
    /\ saved' = w
    /\ call' = "none"
    /\ UNCHANGED block

\* Altered form: the failure is caught, and the flag of the attempt stays.
CaughtFailure ==
    /\ world' = [saved EXCEPT !.liquidityMigrated = world.liquidityMigrated]
    /\ call' = "none"
    /\ UNCHANGED <<saved, block>>

\* The transaction reverts: storage and balances are what they were.
Rollback ==
    /\ world' = saved
    /\ call' = "none"
    /\ UNCHANGED <<saved, block>>

\* A step of somebody else, inside the running transaction if there is one.
Elsewhere(w) ==
    /\ world' = w
    /\ saved' = IF NotEntered THEN w ELSE saved
    /\ UNCHANGED <<call, block>>

-----------------------------------------------------------------------------
(* Address.sendValue(recipient): OKB paid to the hook itself comes back    *)
(* through receive and is no part of the curve.                            *)
sendValue(w, recipient, amount) ==
    IF recipient = Hook
    THEN [w EXCEPT !.donated = @ + amount]
    ELSE [w EXCEPT !.balance = @ - amount]

\* What sells and the migration may use; fees are not theirs.
Reserve(w) == w.balance - w.claimableFeeOkb

\* Altered form: the tax is burnt and not recorded.
TaxForgotten(w, tokens) == w.taxBurnedTokens

TaxBurned(w, tokens) == w.taxBurnedTokens + tokens

(***************************************************************************)
(* EulrHook.buy, reached through EulrRouter.buy (payer is the caller) or   *)
(* buyFor (the factory's createTokenAndBuy names the payer).               *)
(***************************************************************************)
MarkBuyers(marks, payer, recipient) ==
    [marks EXCEPT ![payer] = block, ![recipient] = block]

Bought(w, payer, recipient, value) ==
    LET quote == quoteBuy(w.okbCum, value)
        booked ==
            [w EXCEPT
                !.balance         = @ + value,
                !.okbCum          = quote.newOkbCum,
                !.claimableFeeOkb = @ + quote.fee,
                !.taxBurnedTokens = TaxBurned(w, quote.burnTaxTokens),
                !.lastBuyBlock    = MarkBuyers(@, payer, recipient),
                !.selfDeprecated  = @ \/ isSelfDeprecated(quote.newOkbCum)]
        minted == mint(booked, Hook, quote.grossTokensOut)
        taxed  == burn(minted, Hook, quote.burnTaxTokens)
    IN  transfer(taxed, Hook, recipient, quote.tokensOut)

\* Altered form: a graduated launch goes on selling.
BuysNeverClose(w) == TRUE

BuysOpen(w) == ~w.selfDeprecated

MayBuy(value, minTokensOut) ==
    /\ NotEntered
    /\ BuysOpen(world)
    /\ BuyQuotable(world.okbCum, value)
    /\ quoteBuy(world.okbCum, value).tokensOut >= minTokensOut

Buy(payer, recipient, value, minTokensOut) ==
    /\ MayBuy(value, minTokensOut)
    /\ Commit(Bought(world, payer, recipient, value))

(***************************************************************************)
(* EulrRouter.sell pulls the seller's tokens into the hook, then           *)
(* EulrHook.sell burns them and pays.  The allowance the pull needs is     *)
(* taken as given.                                                         *)
(***************************************************************************)
Sold(w, seller, tokensIn) ==
    LET quote  == quoteSell(w.okbCum, tokensIn)
        pulled == transfer(w, seller, Hook, tokensIn)
        booked ==
            [pulled EXCEPT
                !.okbCum          = quote.newOkbCum,
                !.claimableFeeOkb = @ + quote.fee,
                !.taxBurnedTokens = TaxBurned(w, quote.burnTaxTokens),
                !.donated         = IF w.liquidityMigrated
                                    THEN @ - quote.grossOkbOut ELSE @,
                !.sells           = @ + 1]
    IN  burn(booked, Hook, tokensIn)

\* Altered form: no InsufficientReserve check.
ReserveUnchecked(w, grossOkbOut) == TRUE

ReserveSuffices(w, grossOkbOut) == Reserve(w) >= grossOkbOut

MaySell(seller, tokensIn, minOkbOut) ==
    LET quote == quoteSell(world.okbCum, tokensIn)
    IN  /\ NotEntered
        /\ tokensIn <= world.balanceOf[seller]
        /\ world.lastBuyBlock[seller] # block
        /\ SellQuotable(world.okbCum, tokensIn)
        /\ quote.netOkbOut >= minOkbOut
        /\ ReserveSuffices(world, quote.grossOkbOut)

Sell(seller, recipient, tokensIn, minOkbOut) ==
    LET netOkbOut == quoteSell(world.okbCum, tokensIn).netOkbOut
        sold      == Sold(world, seller, tokensIn)
    IN  /\ world.sells < MaxSells
        /\ MaySell(seller, tokensIn, minOkbOut)
        /\ \/ netOkbOut = 0 /\ Commit(sold)
           \/ netOkbOut > 0 /\ CallOut("sell", sendValue(sold, recipient, netOkbOut))

(***************************************************************************)
(* EulrHook.claimFees, called by the fee recipient.                        *)
(***************************************************************************)
MayClaim ==
    /\ NotEntered
    /\ world.claimableFeeOkb > 0
    /\ world.balance >= world.claimableFeeOkb

ClaimFees(recipient) ==
    /\ MayClaim
    /\ CallOut("claim", sendValue([world EXCEPT !.claimableFeeOkb = 0],
                                  recipient, world.claimableFeeOkb))

SellReturns == call = "sell" /\ Finish(world)

ClaimReturns == call = "claim" /\ Finish(world)

(***************************************************************************)
(* EulrHook.migrateLiquidity, called by anybody.  The target's code is     *)
(* deployed.                                                               *)
(***************************************************************************)
\* Altered form: the cap is not lowered by the burnt tax.
CapIgnoresTax(w) == K

PostBurnCap(w) == IF K > w.taxBurnedTokens THEN K - w.taxBurnedTokens ELSE 0

MigrationTokens(w) ==
    IF PostBurnCap(w) > w.totalSupply THEN PostBurnCap(w) - w.totalSupply ELSE 0

\* Altered form: unclaimed fees are migrated too.
FeesMigrated(w) == w.balance

MigrationOkb(w) == Reserve(w)

HandedOver(w) ==
    LET okb    == MigrationOkb(w)
        tokens == MigrationTokens(w)
        booked == [w EXCEPT !.liquidityMigrated = TRUE,
                            !.balance     = @ - okb,
                            !.donated     = 0,
                            !.venueOkb    = okb,
                            !.venueTokens = tokens]
    IN  transfer(mint(booked, Hook, tokens), Hook, Target, tokens)

\* Altered form: the migration can be repeated.
MigratesAgain(w) == w.selfDeprecated

MayMigrate(w) == w.selfDeprecated /\ ~w.liquidityMigrated

MigrateLiquidity ==
    /\ NotEntered
    /\ MayMigrate(world)
    /\ world.balance >= world.claimableFeeOkb
    /\ CallOut("migrate", HandedOver(world))

(***************************************************************************)
(* The production targets refuse a migration without OKB or without        *)
(* tokens.                                                                 *)
(***************************************************************************)
TargetAccepts(w) == w.venueOkb > 0 /\ w.venueTokens > 0

\* Altered form: the liquidity returned is not looked at.
AnyPool(pool, liquidity) == pool

\* The hook takes a result for valid when it names a pool and liquidity.
ValidResult(pool, liquidity) == pool /\ liquidity > 0

\* The target returned; pool says whether it named one.
MigrationReturns(pool, liquidity) ==
    /\ call = "migrate"
    /\ TargetAccepts(world)
    /\ \/ /\ ValidResult(pool, liquidity)
          /\ Finish([world EXCEPT !.venueLiquidity = liquidity])
       \/ /\ ~ValidResult(pool, liquidity)
          /\ Rollback

\* The callee reverted, or ran out of gas.
CalleeReverts == ~NotEntered /\ Rollback

-----------------------------------------------------------------------------
(* What others do, as transactions of their own or from inside a callee.   *)

\* OKB sent straight to the hook (receive), or forced upon it.
Donate(amount) ==
    /\ world.donated + amount <= MaxDonated
    /\ Elsewhere([world EXCEPT !.balance = @ + amount, !.donated = @ + amount])

\* A transfer of the token between holders; the hook moves none by itself.
TransferTokens(from, to, amount) ==
    /\ amount <= world.balanceOf[from]
    /\ Elsewhere(transfer(world, from, to, amount))

NextBlock ==
    /\ NotEntered
    /\ block < MaxBlock
    /\ block' = block + 1
    /\ UNCHANGED <<world, saved, call>>

-----------------------------------------------------------------------------
Trade ==
    \/ \E payer \in Users, recipient \in Users \union {Hook},
          value \in BuyAmounts, min \in MinAmounts :
            Buy(payer, recipient, value, min)
    \/ \E seller \in Users, recipient \in Users \union {Hook},
          tokensIn \in 0..world.totalSupply, min \in MinAmounts :
            Sell(seller, recipient, tokensIn, min)

Claim == \E recipient \in Users \union {Hook} : ClaimFees(recipient)

Callee ==
    \/ SellReturns
    \/ ClaimReturns
    \/ \E pool \in BOOLEAN, liquidity \in 0..1 : MigrationReturns(pool, liquidity)
    \/ CalleeReverts

Others ==
    \/ \E amount \in DonationAmounts : Donate(amount)
    \/ \E from \in Users \union {Target}, to \in Accounts, amount \in TransferAmounts :
            from # to /\ TransferTokens(from, to, amount)
    \/ NextBlock

Next == Trade \/ Claim \/ MigrateLiquidity \/ Callee \/ Others

Spec == Init /\ [][Next]_vars

(***************************************************************************)
(* A transaction ends by itself: it runs out of gas at the latest.  The    *)
(* keeper calls migrateLiquidity again until it succeeds, the fee          *)
(* recipient claims again, and neither the target nor the recipient of the *)
(* fees refuses for ever.                                                  *)
(***************************************************************************)
Fairness ==
    /\ WF_vars(Callee)
    /\ SF_vars(MigrateLiquidity)
    /\ SF_vars(MigrationReturns(TRUE, 1))
    /\ SF_vars(Claim)
    /\ SF_vars(ClaimReturns)

FairSpec == Spec /\ Fairness

-----------------------------------------------------------------------------
(* Safety.                                                                 *)

(***************************************************************************)
(* The OKB the hook may pay out is exactly the net OKB of the curve plus   *)
(* what was sent to it from outside, also while a callee of sell,          *)
(* claimFees or migrateLiquidity looks at it; after the migration, only    *)
(* the latter is left.  Every fee, payout, claim and rollback must be      *)
(* booked for this (EulrHook.buy, sell, claimFees, migrateLiquidity).      *)
(***************************************************************************)
Backed(w) ==
    Reserve(w) = w.donated + (IF w.liquidityMigrated THEN 0 ELSE w.okbCum)

ReserveMatchesCurve == Backed(world)

(***************************************************************************)
(* Fees are always covered: whatever was sold or migrated, the hook still  *)
(* holds what the fee recipient may claim.                                 *)
(***************************************************************************)
FeesCovered == world.balance >= world.claimableFeeOkb

(***************************************************************************)
(* No buy that reached the threshold left the launch open: as long as      *)
(* selfDeprecated is not set, the curve is below the threshold, whatever   *)
(* was bought and sold in between.                                         *)
(***************************************************************************)
Latched(w) == ~w.selfDeprecated => totalMinted(w.okbCum) < Threshold

OpenMeansBelowThreshold == Latched(world)

(***************************************************************************)
(* Until the migration the tokens in existence plus the burnt tax follow   *)
(* what the curve says it has minted.  buy keeps the difference; a sell    *)
(* moves it by the rounding of okbAtMinted, so n sells by n times that.    *)
(***************************************************************************)
Dust(w) == RoundTripDust * w.sells

OnCurve(w) ==
    ~w.liquidityMigrated =>
        w.totalSupply + w.taxBurnedTokens - totalMinted(w.okbCum)
            \in -Dust(w)..Dust(w)

SupplyTracksCurve == OnCurve(world)

(***************************************************************************)
(* The supply cap, over the whole life of a launch: tokens in existence    *)
(* and tokens burnt as tax never add up to more than K, but for the        *)
(* rounding of sells.  The migration mints up to K, not beyond it.         *)
(***************************************************************************)
Capped(w) == w.totalSupply + w.taxBurnedTokens <= K + Dust(w)

SupplyCapped == Capped(world)

(***************************************************************************)
(* A migration is all or nothing: once it is committed, a venue with       *)
(* liquidity holds the OKB and the tokens; until then no OKB has left the  *)
(* hook for it, whatever failed attempts there were, and it can be tried   *)
(* again.                                                                  *)
(***************************************************************************)
Settled(w) ==
    IF w.liquidityMigrated
    THEN w.selfDeprecated /\ w.venueLiquidity > 0 /\ w.venueOkb > 0
    ELSE w.venueLiquidity = 0 /\ w.venueOkb = 0 /\ w.venueTokens = 0

MigrationAllOrNothing == Settled(saved)

KeepsGraduation ==
    saved.selfDeprecated =>
        /\ saved'.selfDeprecated
        /\ saved'.okbCum <= saved.okbCum
        /\ \/ saved'.totalSupply <= saved.totalSupply
           \/ ~saved.liquidityMigrated /\ saved'.liquidityMigrated

(***************************************************************************)
(* Graduation is final, from one committed state to the next: the flag     *)
(* stays, the curve only goes down, and no token is minted except by the   *)
(* one migration.                                                          *)
(***************************************************************************)
GraduationFinal == [][KeepsGraduation]_vars

KeepsMigration ==
    saved.liquidityMigrated =>
        /\ saved'.liquidityMigrated
        /\ saved'.venueOkb = saved.venueOkb
        /\ saved'.venueTokens = saved.venueTokens

(***************************************************************************)
(* One migration only: what the venue was given never changes again.       *)
(***************************************************************************)
MigratedOnce == [][KeepsMigration]_vars

Books(w) ==
    <<w.okbCum, w.claimableFeeOkb, w.taxBurnedTokens, w.totalSupply,
      w.selfDeprecated, w.liquidityMigrated>>

KeepsBooks == call # "none" /\ call' # "none" => Books(world') = Books(world)

(***************************************************************************)
(* The hook gives control away with settled books: while a callee runs,    *)
(* nothing it can do changes the curve, the fees, the supply or the flags. *)
(***************************************************************************)
CalleeCannotTouchBooks == [][KeepsBooks]_vars

-----------------------------------------------------------------------------
(* The inductive invariant.                                                *)

Good(w) ==
    /\ Backed(w)
    /\ Latched(w)
    /\ OnCurve(w)
    /\ Capped(w)
    /\ ExpDefined(w.okbCum)

(***************************************************************************)
(* w is the state of a transaction that began in s and is not a buy, nor,  *)
(* unless it is migrating, the migration.                                  *)
(***************************************************************************)
Follows(w, s, migrating) ==
    /\ s.selfDeprecated =>
         /\ w.selfDeprecated
         /\ w.okbCum <= s.okbCum
         /\ migrating \/ w.totalSupply <= s.totalSupply
    /\ s.liquidityMigrated =>
         /\ w.liquidityMigrated
         /\ w.venueOkb = s.venueOkb
         /\ w.venueTokens = s.venueTokens

(***************************************************************************)
(* Both the state a callee sees and the one a revert falls back to keep    *)
(* every invariant; between transactions the two are the same; inside a    *)
(* migration, and only there, the flag is up and the venue is not built.   *)
(***************************************************************************)
IInv ==
    /\ TypeOK
    /\ Good(world)
    /\ Good(saved)
    /\ Settled(saved)
    /\ NotEntered => world = saved
    /\ Follows(world, saved, call = "migrate")
    /\ IF call = "migrate"
       THEN world.liquidityMigrated /\ world.selfDeprecated /\ ~saved.liquidityMigrated
       ELSE Settled(world)

-----------------------------------------------------------------------------
(* What a launch promises.                                                 *)

Phase(w) ==
    IF w.liquidityMigrated THEN "migrated"
    ELSE IF w.selfDeprecated THEN "graduated"
    ELSE "trading"

Launch ==
    INSTANCE LaunchSpec WITH
        phase  <- Phase(saved),
        curve  <- saved.okbCum,
        owed   <- saved.claimableFeeOkb,
        held   <- saved.balance,
        supply <- saved.totalSupply,
        venue  <- saved.venueOkb

(***************************************************************************)
(* Whatever runs inside a payout or a migration, and whatever reverts, the *)
(* committed states move as LaunchSpec says, one promise per transaction:  *)
(* buy, sell, claimFees, receive or migrateLiquidity, all of it or none.   *)
(***************************************************************************)
LaunchImplemented == Launch!Spec

-----------------------------------------------------------------------------
(* What the repository says elsewhere, and the code does not do.           *)

(***************************************************************************)
(* docs/curve-graduation-and-migration.md: the migration mints enough      *)
(* tokens "to bring token supply up to K, if supply is below K".           *)
(***************************************************************************)
MigrationFillsSupplyToK ==
    [][~saved.liquidityMigrated /\ saved'.liquidityMigrated =>
         saved'.totalSupply >= K]_vars

(***************************************************************************)
(* test/invariant/GraduationInvariant.t.sol: a launch with selfDeprecated  *)
(* set has an implied minted supply at or above the threshold.             *)
(***************************************************************************)
GraduatedMeansThresholdReached ==
    world.selfDeprecated => totalMinted(world.okbCum) >= Threshold

-----------------------------------------------------------------------------
(* Liveness.                                                               *)

(***************************************************************************)
(* A graduated launch that has OKB and tokens to hand over does not stay   *)
(* that way for ever: failed attempts do not use up the one migration.     *)
(***************************************************************************)
Migratable ==
    /\ saved.selfDeprecated
    /\ saved.venueLiquidity = 0
    /\ MigrationOkb(saved) > 0
    /\ MigrationTokens(saved) > 0

MigrationHappens == []<>~Migratable

(***************************************************************************)
(* Fees that are owed are claimed sooner or later, before and after the    *)
(* migration.                                                              *)
(***************************************************************************)
FeesGetClaimed == saved.claimableFeeOkb > 0 ~> saved.claimableFeeOkb = 0

=============================================================================
