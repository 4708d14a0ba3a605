------------------------------- MODULE Curve -------------------------------
(***************************************************************************)
(* The bonding curve library (src/src/curve/Curve.sol): what a buy or a    *)
(* sell is worth, the burn tax, and the graduation threshold, as functions *)
(* of okbCum, the net OKB the curve has taken in.                          *)
(*                                                                         *)
(*   minted(c) = K * (1 - exp(-c / S))                                     *)
(*                                                                         *)
(* All amounts are natural numbers in the chain's smallest unit.  exp and  *)
(* ln are tables over the inputs the fixed point library accepts, an input *)
(* outside of the table is a revert.                                       *)
(***************************************************************************)
EXTENDS Integers

CONSTANTS
    Unit,               \* 1.0 of the fixed point numbers (WAD)
    MaxExpInput,        \* uEXP_MAX_INPUT, the largest input exp accepts
    Exp,                \* fixed point exp on 0..MaxExpInput
    Ln,                 \* fixed point ln on Ratios
    RoundTripDust,      \* bound on totalMinted(okbAtMinted(m)) - m
    K,                  \* params.k, the supply cap
    S,                  \* params.s, the scale of the curve
    FeeBps,             \* params.feeBps
    BurnTaxMinBps,      \* params.burnTaxMinBps
    BurnTaxMaxBps,      \* params.burnTaxMaxBps
    SelfDeprecationBps, \* params.selfDeprecationBps
    MaxBuyOkb           \* params.maxBuyOkb

BPS_DENOMINATOR == 10000

(***************************************************************************)
(* What initialize accepts.                                                *)
(***************************************************************************)
ValidParams ==
    /\ K \in Nat \ {0}
    /\ S \in Nat \ {0}
    /\ FeeBps \in 0..BPS_DENOMINATOR
    /\ BurnTaxMinBps \in 0..BPS_DENOMINATOR
    /\ BurnTaxMaxBps \in BurnTaxMinBps..BPS_DENOMINATOR
    /\ SelfDeprecationBps \in 1..BPS_DENOMINATOR
    /\ MaxBuyOkb \in Nat \ {0}

ASSUME ParamsAssumption == ValidParams

-----------------------------------------------------------------------------
(* UD60x18 mul and div: 512-bit intermediate product, rounded down.        *)

mul(x, y) == (x * y) \div Unit
div(x, y) == (x * Unit) \div y

\* The numbers okbAtMinted takes the logarithm of.
Ratios == {div(K, K - minted) : minted \in 0..(K - 1)}

(***************************************************************************)
(* What the curve relies on in the library: exp(0) = 1, exp does not fall, *)
(* and ln is defined on the ratios the curve forms.                        *)
(***************************************************************************)
ASSUME FixedPointAssumption ==
    /\ Unit \in Nat \ {0}
    /\ MaxExpInput \in Nat
    /\ Exp \in [0..MaxExpInput -> Nat]
    /\ Exp[0] = Unit
    /\ \A x, y \in 0..MaxExpInput : x <= y => Exp[x] <= Exp[y]
    /\ Ln \in [Ratios -> Nat]

(***************************************************************************)
(* exp(okbCum / S) is inside the library's domain.  The code reverts       *)
(* otherwise, in every function that needs the minted supply.              *)
(***************************************************************************)
ExpDefined(okbCum) == div(okbCum, S) \in DOMAIN Exp

totalMinted(okbCum) ==
    IF okbCum = 0 THEN 0
    ELSE mul(K, Unit - div(Unit, Exp[div(okbCum, S)]))

marginalPrice(okbCum) == mul(div(S, K), Exp[div(okbCum, S)])

\* Reverts unless minted < K.
okbAtMinted(minted) ==
    IF minted = 0 THEN 0
    ELSE mul(S, Ln[div(K, K - minted)])

Threshold == (K * SelfDeprecationBps) \div BPS_DENOMINATOR

\* Altered form: the threshold itself does not graduate.
GraduatesAbove(okbCum) == totalMinted(okbCum) > Threshold

isSelfDeprecated(okbCum) == totalMinted(okbCum) >= Threshold

(***************************************************************************)
(* The burn tax falls linearly from its maximum, at an empty curve, to its *)
(* minimum, at the graduation threshold, and stays there.                  *)
(***************************************************************************)
burnTaxBps(okbCum) ==
    LET minted == totalMinted(okbCum)
    IN  IF minted >= Threshold THEN BurnTaxMinBps
        ELSE BurnTaxMaxBps
               - (minted * (BurnTaxMaxBps - BurnTaxMinBps)) \div Threshold

(***************************************************************************)
(* okbAtMinted inverts totalMinted up to the rounding of the two.          *)
(***************************************************************************)
ASSUME RoundTripAssumption ==
    /\ RoundTripDust \in Nat
    /\ \A m \in 0..(K - 1) :
          ExpDefined(okbAtMinted(m)) =>
              totalMinted(okbAtMinted(m)) - m \in -RoundTripDust..RoundTripDust

-----------------------------------------------------------------------------
Bps(amount, bps) == (amount * bps) \div BPS_DENOMINATOR

\* Altered form: the fee stays in the curve.
FeeNotDeducted(grossOkbIn) == grossOkbIn

effectiveOkbIn(grossOkbIn) == grossOkbIn - Bps(grossOkbIn, FeeBps)

(***************************************************************************)
(* quoteBuy(okbCum, grossOkbIn): the conditions under which it does not    *)
(* revert, and the quote.                                                  *)
(***************************************************************************)
quoteBuy(okbCum, grossOkbIn) ==
    LET newOkbCum   == okbCum + effectiveOkbIn(grossOkbIn)
        oldMinted   == totalMinted(okbCum)
        newMinted   == totalMinted(newOkbCum)
        grossTokens == newMinted - oldMinted
        tax         == Bps(grossTokens, burnTaxBps(okbCum))
    IN  [fee            |-> Bps(grossOkbIn, FeeBps),
         newOkbCum      |-> newOkbCum,
         grossTokensOut |-> grossTokens,
         burnTaxTokens  |-> tax,
         tokensOut      |-> grossTokens - tax]

BuyQuotable(okbCum, grossOkbIn) ==
    /\ grossOkbIn \in 1..MaxBuyOkb
    /\ ExpDefined(okbCum)
    /\ ExpDefined(okbCum + effectiveOkbIn(grossOkbIn))
    /\ quoteBuy(okbCum, grossOkbIn).grossTokensOut >= 0

(***************************************************************************)
(* quoteSell(okbCum, tokensIn): the tax is taken from the tokens, the fee  *)
(* from the OKB they fetch.                                                *)
(***************************************************************************)
effectiveTokensIn(okbCum, tokensIn) ==
    tokensIn - Bps(tokensIn, burnTaxBps(okbCum))

quoteSell(okbCum, tokensIn) ==
    LET effective == effectiveTokensIn(okbCum, tokensIn)
        newMinted == totalMinted(okbCum) - effective
        newOkbCum == okbAtMinted(newMinted)
        grossOkb  == okbCum - newOkbCum
        fee       == Bps(grossOkb, FeeBps)
    IN  [newOkbCum     |-> newOkbCum,
         grossOkbOut   |-> grossOkb,
         fee           |-> fee,
         netOkbOut     |-> grossOkb - fee,
         burnTaxTokens |-> tokensIn - effective]

SellQuotable(okbCum, tokensIn) ==
    /\ tokensIn > 0
    /\ ExpDefined(okbCum)
    /\ effectiveTokensIn(okbCum, tokensIn) <= totalMinted(okbCum)
    /\ totalMinted(okbCum) - effectiveTokensIn(okbCum, tokensIn) < K
    /\ quoteSell(okbCum, tokensIn).grossOkbOut >= 0

=============================================================================
