-------------------------- MODULE MCTradeCommands --------------------------
(***************************************************************************)
(* The launch of MCEulrHook, its owner, two wallets of the smoke script,   *)
(* and three commands.  The table of the commands' own arithmetic is       *)
(* computed 16 times finer than the chain's and rounded down.              *)
(***************************************************************************)
EXTENDS TradeCommands, UD60x18, TLC

CONSTANTS u1, u2

MCUnit == 64

MCExps == Tabulate(LAMBDA x : exp(MCUnit, x), 0, MaxExpInput)

MCExp == [x \in 0..MaxExpInput |-> MCExps[x + 1]]

MCLns == Tabulate(LAMBDA m : ln(MCUnit, (K * MCUnit) \div (K - m)), 0, K - 1)

MCLnTable == [r \in {(K * MCUnit) \div (K - m) : m \in 0..(K - 1)} |->
            MCLns[1 + CHOOSE m \in 0..(K - 1) : (K * MCUnit) \div (K - m) = r]] @@ <<>>

\* TLC computes the table once, and what replaces a constant every time.
MCLn == MCLnTable

MCFine == 1024

MCSellDust == 2

\* One unit above the true value, the worst that MirrorDust allows.
MCMints ==
    Tabulate(LAMBDA c : 1 + (K * (MCFine - (MCFine * MCFine) \div exp(MCFine, (c * MCFine) \div S)))
                            \div MCFine,
             1, (MaxExpInput * S) \div MCUnit)

MCMintedUnits == [c \in 0..((MaxExpInput * S) \div MCUnit) |->
                    IF c = 0 THEN 0 ELSE MCMints[c]]

MCOkbs == Tabulate(LAMBDA m : (S * ln(MCFine, (K * MCFine) \div (K - m))) \div MCFine, 0, K - 1)

MCOkbUnits == [m \in 0..(K - 1) |-> MCOkbs[m + 1]]

(***************************************************************************)
(* The two sell quotes agree on what a launch with the contract's          *)
(* parameters pays: the mirror may see a minted amount that is off by      *)
(* MirrorDust, and redeems at prices off by OkbDust.                       *)
(***************************************************************************)
ASSUME MirrorsSell ==
    \A c \in DOMAIN MintedUnits : \A t \in 1..(K - 1) :
        SellQuotable(c, t) /\ MirrorSellQuotable(OnChain, c, t) =>
            quoteSellAtOkbCum(OnChain, c, t).netOkbOut - quoteSell(c, t).netOkbOut
                \in -MCSellDust..MCSellDust

\* The second file has a key that is not its account's.
MCWalletFiles == {<<[address |-> u1, key |-> u1], [address |-> Owner, key |-> Owner],
                    [address |-> u2, key |-> u2]>>,
                  <<[address |-> u1, key |-> u2]>>}

MCRecordedParams == [feeBps |-> 0, burnTaxMinBps |-> BurnTaxMinBps, burnTaxMaxBps |-> BurnTaxMaxBps]

=============================================================================
