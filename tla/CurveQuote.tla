----------------------------- MODULE CurveQuote -----------------------------
(***************************************************************************)
(* The curve as the commands compute it off the chain                      *)
(* (ts/lib/curve-quote.ts), to tell the price of a launch that does not    *)
(* exist yet.  The formulas are those of Curve, the arithmetic is not:     *)
(* decimal.js rounds to 20 digits where the chain rounds to 18 decimals,   *)
(* so the two may differ in the last digits, either way.  What decimal.js  *)
(* makes of the exponential and of the logarithm is taken as a table.      *)
(***************************************************************************)
EXTENDS Curve

CONSTANTS
    MintedUnits,    \* K * (1 - e^(-c/S)) for a net amount c, rounded down
    MirrorDust,     \* bound on MintedUnits[c] - totalMinted(c)
    OkbUnits,       \* S * ln(K/(K-m)) for a minted amount m, rounded down
    OkbDust         \* bound on OkbUnits[m] - okbAtMinted(m)

ASSUME MirrorAssumption ==
    /\ MirrorDust \in Nat
    /\ 0 \in DOMAIN MintedUnits /\ MintedUnits[0] = 0
    /\ \A c \in DOMAIN MintedUnits :
          /\ MintedUnits[c] \in Nat
          /\ ExpDefined(c) => MintedUnits[c] - totalMinted(c) \in -MirrorDust..MirrorDust
    /\ OkbDust \in Nat
    /\ OkbUnits \in [0..(K - 1) -> Nat] /\ OkbUnits[0] = 0
    /\ \A m \in 0..(K - 1) : OkbUnits[m] - okbAtMinted(m) \in -OkbDust..OkbDust

(***************************************************************************)
(* The parameters a quote is made with: deployment.curve of the record, or *)
(* what the command line puts in its place.                                *)
(***************************************************************************)
CurveParams ==
    [feeBps : 0..BPS_DENOMINATOR, burnTaxMinBps : 0..BPS_DENOMINATOR,
     burnTaxMaxBps : 0..BPS_DENOMINATOR]

\* The parameters the contract has.
OnChain ==
    [feeBps |-> FeeBps, burnTaxMinBps |-> BurnTaxMinBps, burnTaxMaxBps |-> BurnTaxMaxBps]

\* An exponent that is too large is an error.
deriveCurvePoint(okbCum) == [defined     |-> okbCum \in DOMAIN MintedUnits,
                             totalMinted |-> MintedUnits[okbCum]]

burnTaxBpsAtOkbCum(params, okbCum) ==
    LET minted == deriveCurvePoint(okbCum).totalMinted
    IN  IF minted >= Threshold THEN params.burnTaxMinBps
        ELSE params.burnTaxMaxBps
               - (minted * (params.burnTaxMaxBps - params.burnTaxMinBps)) \div Threshold

netOf(params, grossOkbIn) == grossOkbIn - Bps(grossOkbIn, params.feeBps)

quoteBuyAtOkbCum(params, okbCum, grossOkbIn) ==
    LET oldMinted == deriveCurvePoint(okbCum).totalMinted
        newMinted == deriveCurvePoint(okbCum + netOf(params, grossOkbIn)).totalMinted
        gross     == newMinted - oldMinted
    IN  [grossTokensOut |-> gross,
         tokensOut      |-> gross - Bps(gross, burnTaxBpsAtOkbCum(params, okbCum))]

\* quoteBuyAtOkbCum throws otherwise.
MirrorQuotable(params, okbCum, grossOkbIn) ==
    /\ grossOkbIn \in 1..MaxBuyOkb
    /\ netOf(params, grossOkbIn) > 0
    /\ deriveCurvePoint(okbCum + netOf(params, grossOkbIn)).defined

(***************************************************************************)
(* The mirror of quoteSell, which names okbAtMinted mirrorOkbAtMinted to   *)
(* tell it from the chain's.                                               *)
(***************************************************************************)
mirrorOkbAtMinted(minted) == IF minted <= 0 THEN 0 ELSE OkbUnits[minted]

mirrorEffectiveTokensIn(params, okbCum, tokensIn) ==
    tokensIn - Bps(tokensIn, burnTaxBpsAtOkbCum(params, okbCum))

quoteSellAtOkbCum(params, okbCum, tokensIn) ==
    LET effective == mirrorEffectiveTokensIn(params, okbCum, tokensIn)
        newOkbCum == mirrorOkbAtMinted(deriveCurvePoint(okbCum).totalMinted - effective)
        gross     == okbCum - newOkbCum
    IN  [newOkbCum   |-> newOkbCum,
         grossOkbOut |-> gross,
         netOkbOut   |-> gross - Bps(gross, params.feeBps)]

\* quoteSellAtOkbCum throws otherwise.
MirrorSellQuotable(params, okbCum, tokensIn) ==
    LET effective == mirrorEffectiveTokensIn(params, okbCum, tokensIn)
    IN  /\ tokensIn > 0
        /\ deriveCurvePoint(okbCum).defined
        /\ effective <= deriveCurvePoint(okbCum).totalMinted
        /\ deriveCurvePoint(okbCum).totalMinted - effective < K

\* Altered form: the slippage is granted on top of the quote.
SlippageAdded(tokensOut, slippageBps) == Bps(tokensOut, BPS_DENOMINATOR + slippageBps)

\* The floor a command puts under what it quotes.
minTokensOut(tokensOut, slippageBps) == Bps(tokensOut, BPS_DENOMINATOR - slippageBps)

=============================================================================
