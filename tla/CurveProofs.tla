---------------------------- MODULE CurveProofs ----------------------------
(***************************************************************************)
(* What the curve's functions return, for every choice of the parameters   *)
(* that initialize accepts and every exp and ln with the properties        *)
(* FixedPointAssumption and RoundTripAssumption name.                      *)
(***************************************************************************)
EXTENDS Curve, TLAPS

-----------------------------------------------------------------------------
(* Rounded division.                                                       *)

(***************************************************************************)
(* The quotient is a natural number, and the remainder is below the        *)
(* divisor.                                                                *)
(***************************************************************************)
LEMMA DivFloor ==
    ASSUME NEW a \in Nat, NEW b \in Nat, b > 0
    PROVE  /\ a \div b \in Nat
           /\ b * (a \div b) <= a
           /\ a < b * (a \div b) + b
BY Z3

(***************************************************************************)
(* A quotient grows with the dividend.                                     *)
(***************************************************************************)
LEMMA DivMonotone ==
    ASSUME NEW a \in Nat, NEW c \in Nat, NEW b \in Nat, b > 0, a <= c
    PROVE  a \div b <= c \div b
BY SMT

(***************************************************************************)
(* A quotient falls as the divisor grows.                                  *)
(***************************************************************************)
LEMMA DivAntitone ==
    ASSUME NEW a \in Nat, NEW b \in Nat, NEW c \in Nat, b > 0, b <= c
    PROVE  a \div c <= a \div b
BY SMT

(***************************************************************************)
(* A fraction a/b of x is at most x when a <= b: every fee, tax and mint   *)
(* is such a fraction.                                                     *)
(***************************************************************************)
LEMMA FractionBound ==
    ASSUME NEW x \in Nat, NEW a \in Nat, NEW b \in Nat, b > 0, a <= b
    PROVE  (x * a) \div b \in 0..x
<1> DEFINE q == (x * a) \div b
<1>1. x * a \in Nat /\ x * a <= x * b
  BY SMT
<1>2. q \in Nat /\ b * q <= x * a
  BY <1>1, DivFloor
<1>3. b * q <= b * x
  BY <1>1, <1>2, SMT
<1> HIDE DEF q
<1>4. q <= x
  BY <1>2, <1>3, SMT
<1> QED
  BY <1>2, <1>4 DEF q

-----------------------------------------------------------------------------
(* The minted supply.                                                      *)

(***************************************************************************)
(* The exponent is an input exp accepts, and is below that of any larger   *)
(* curve position: if exp is defined at d, it is below d.                  *)
(***************************************************************************)
LEMMA ExponentMonotone ==
    ASSUME NEW c \in Nat, NEW d \in Nat, c <= d, ExpDefined(d)
    PROVE  /\ ExpDefined(c)
           /\ div(c, S) \in 0..MaxExpInput
           /\ div(d, S) \in 0..MaxExpInput
           /\ div(c, S) <= div(d, S)
<1>1. Unit \in Nat /\ S \in Nat /\ S > 0 /\ MaxExpInput \in Nat /\ DOMAIN Exp = 0..MaxExpInput
  BY ParamsAssumption, FixedPointAssumption DEF ValidParams
<1>2. c * Unit \in Nat /\ d * Unit \in Nat /\ c * Unit <= d * Unit
  BY <1>1, SMT
<1>3. div(c, S) \in Nat /\ div(c, S) <= div(d, S)
  BY <1>1, <1>2, DivFloor, DivMonotone DEF div
<1> QED
  BY <1>1, <1>3 DEF ExpDefined

(***************************************************************************)
(* 1 / exp(c / S), rounded down, is between 0 and 1 and falls with c.      *)
(***************************************************************************)
LEMMA InverseExp ==
    ASSUME NEW c \in Nat, NEW d \in Nat, c <= d, ExpDefined(d)
    PROVE  /\ div(Unit, Exp[div(c, S)]) \in 0..Unit
           /\ div(Unit, Exp[div(d, S)]) \in 0..Unit
           /\ div(Unit, Exp[div(d, S)]) <= div(Unit, Exp[div(c, S)])
<1> DEFINE x == div(c, S)
           y == div(d, S)
<1>1. x \in 0..MaxExpInput /\ y \in 0..MaxExpInput /\ x <= y
  BY ExponentMonotone
<1>2. Unit \in Nat /\ Unit > 0 /\ MaxExpInput \in Nat
  BY FixedPointAssumption
<1> HIDE DEF x, y
<1>3. Exp[x] \in Nat /\ Exp[y] \in Nat /\ Unit <= Exp[x] /\ Exp[x] <= Exp[y]
  <2>1. 0 \in 0..MaxExpInput /\ 0 <= x
    BY <1>1, <1>2
  <2> QED
    BY <1>1, <2>1, FixedPointAssumption
<1>4. /\ (Unit * Unit) \div Exp[x] \in 0..Unit
      /\ (Unit * Unit) \div Exp[y] \in 0..Unit
  BY <1>2, <1>3, FractionBound
<1>5. (Unit * Unit) \div Exp[y] <= (Unit * Unit) \div Exp[x]
  <2>1. Unit * Unit \in Nat
    BY <1>2
  <2> QED
    BY <1>2, <1>3, <2>1, DivAntitone
<1> QED
  BY <1>4, <1>5 DEF x, y, div

(***************************************************************************)
(* totalMinted never falls along the curve and never passes the cap K.     *)
(* quoteBuy's newMinted - oldMinted therefore never underflows.            *)
(***************************************************************************)
THEOREM MintedMonotoneAndCapped ==
    ASSUME NEW c \in Nat, NEW d \in Nat, c <= d, ExpDefined(d)
    PROVE  /\ totalMinted(c) \in 0..K
           /\ totalMinted(d) \in 0..K
           /\ totalMinted(c) <= totalMinted(d)
<1> DEFINE p == Unit - div(Unit, Exp[div(c, S)])
           q == Unit - div(Unit, Exp[div(d, S)])
<1>1. Unit \in Nat /\ Unit > 0 /\ K \in Nat
  BY ParamsAssumption, FixedPointAssumption DEF ValidParams
<1>2. p \in 0..Unit /\ q \in 0..Unit /\ p <= q
  BY <1>1, InverseExp
<1> HIDE DEF p, q
<1>3. mul(K, p) \in 0..K /\ mul(K, q) \in 0..K
  BY <1>1, <1>2, FractionBound DEF mul
<1>4. mul(K, p) <= mul(K, q)
  <2>1. K * p \in Nat /\ K * q \in Nat /\ K * p <= K * q
    BY <1>1, <1>2, SMT
  <2> QED
    BY <1>1, <2>1, DivMonotone DEF mul
<1> QED
  BY <1>1, <1>3, <1>4 DEF p, q, totalMinted

-----------------------------------------------------------------------------
(* The burn tax.                                                           *)

LEMMA ThresholdType == Threshold \in 0..K
<1>1. K \in Nat /\ SelfDeprecationBps \in Nat /\ SelfDeprecationBps <= 10000
  BY ParamsAssumption DEF ValidParams, BPS_DENOMINATOR
<1> QED
  BY <1>1, FractionBound DEF Threshold, BPS_DENOMINATOR

(***************************************************************************)
(* The burn tax stays between its minimum and its maximum, and never rises *)
(* along the curve: a later buyer or seller is not taxed at a higher rate. *)
(***************************************************************************)
THEOREM BurnTaxBoundedAndFalling ==
    ASSUME NEW c \in Nat, NEW d \in Nat, c <= d, ExpDefined(d)
    PROVE  /\ burnTaxBps(c) \in BurnTaxMinBps..BurnTaxMaxBps
           /\ burnTaxBps(d) \in BurnTaxMinBps..BurnTaxMaxBps
           /\ burnTaxBps(d) <= burnTaxBps(c)
<1> DEFINE range == BurnTaxMaxBps - BurnTaxMinBps
           drop(m) == (m * range) \div Threshold
<1>1. /\ BurnTaxMinBps \in Nat /\ BurnTaxMaxBps \in Nat /\ range \in Nat
      /\ BurnTaxMinBps + range = BurnTaxMaxBps
  BY ParamsAssumption DEF ValidParams, BPS_DENOMINATOR
<1>2. /\ totalMinted(c) \in Nat /\ totalMinted(d) \in Nat
      /\ totalMinted(c) <= totalMinted(d)
  BY MintedMonotoneAndCapped, ParamsAssumption DEF ValidParams
<1>3. Threshold \in Nat
  BY ThresholdType, ParamsAssumption DEF ValidParams
<1> HIDE DEF range
<1>4. ASSUME NEW m \in Nat, m < Threshold
      PROVE  drop(m) \in 0..range
  <2>1. (range * m) \div Threshold \in 0..range
    BY <1>1, <1>3, <1>4, FractionBound
  <2>2. range * m = m * range
    BY <1>1, <1>4
  <2> QED
    BY <2>1, <2>2
<1>5. ASSUME NEW m \in Nat, NEW n \in Nat, m <= n, n < Threshold
      PROVE  drop(m) <= drop(n)
  <2>1. m * range \in Nat /\ n * range \in Nat /\ m * range <= n * range
    BY <1>1, <1>5, SMT
  <2> QED
    BY <1>3, <1>5, <2>1, DivMonotone
<1>6. ASSUME NEW k \in Nat
      PROVE  burnTaxBps(k) = IF totalMinted(k) >= Threshold THEN BurnTaxMinBps
                             ELSE BurnTaxMaxBps - drop(totalMinted(k))
  BY DEF burnTaxBps, range
<1> HIDE DEF drop
<1>7. CASE totalMinted(d) < Threshold
  <2>1. /\ drop(totalMinted(c)) \in 0..range
        /\ drop(totalMinted(d)) \in 0..range
        /\ drop(totalMinted(c)) <= drop(totalMinted(d))
    BY <1>2, <1>3, <1>4, <1>5, <1>7
  <2> QED
    BY <1>1, <1>2, <1>3, <1>6, <1>7, <2>1
<1>8. CASE totalMinted(d) >= Threshold
  <2>1. totalMinted(c) < Threshold => drop(totalMinted(c)) \in 0..range
    BY <1>2, <1>4
  <2> QED
    BY <1>1, <1>2, <1>3, <1>6, <1>8, <2>1
<1> QED
  BY <1>2, <1>3, <1>7, <1>8

(***************************************************************************)
(* A share of an amount, in basis points, is at most the amount.           *)
(***************************************************************************)
LEMMA BpsBound ==
    ASSUME NEW x \in Nat, NEW bps \in 0..BPS_DENOMINATOR
    PROVE  Bps(x, bps) \in 0..x
<1>1. bps \in Nat /\ bps <= 10000
  BY DEF BPS_DENOMINATOR
<1>2. (x * bps) \div 10000 \in 0..x
  BY <1>1, FractionBound
<1> QED
  BY <1>2 DEF Bps, BPS_DENOMINATOR

LEMMA TaxIsBps ==
    ASSUME NEW c \in Nat, ExpDefined(c)
    PROVE  burnTaxBps(c) \in 0..BPS_DENOMINATOR
<1> DEFINE rate == burnTaxBps(c)
<1>1. rate \in BurnTaxMinBps..BurnTaxMaxBps
  BY BurnTaxBoundedAndFalling
<1> HIDE DEF rate
<1>2. /\ BurnTaxMinBps \in Nat /\ BurnTaxMaxBps \in Nat
      /\ BurnTaxMaxBps <= BPS_DENOMINATOR
  BY ParamsAssumption DEF ValidParams, BPS_DENOMINATOR
<1>3. rate \in 0..10000
  BY <1>1, <1>2 DEF BPS_DENOMINATOR
<1> QED
  BY <1>3 DEF BPS_DENOMINATOR, rate

-----------------------------------------------------------------------------
(* The quotes.                                                             *)

(***************************************************************************)
(* quoteBuy splits what was paid into the fee and what enters the curve,   *)
(* and what the curve mints into the tax and what the buyer gets; nothing  *)
(* is lost and nothing is negative.                                        *)
(***************************************************************************)
THEOREM BuyQuoteConserves ==
    ASSUME NEW c \in Nat, NEW value \in Nat, BuyQuotable(c, value)
    PROVE  LET q == quoteBuy(c, value)
           IN  /\ q.fee \in 0..value
               /\ q.newOkbCum \in Nat
               /\ c <= q.newOkbCum
               /\ ExpDefined(q.newOkbCum)
               /\ q.newOkbCum + q.fee = c + value
               /\ q.grossTokensOut \in Nat
               /\ q.grossTokensOut = totalMinted(q.newOkbCum) - totalMinted(c)
               /\ q.burnTaxTokens \in 0..q.grossTokensOut
               /\ q.tokensOut \in Nat
               /\ q.burnTaxTokens + q.tokensOut = q.grossTokensOut
<1> DEFINE fee == Bps(value, FeeBps)
           new == c + (value - fee)
           gross == totalMinted(new) - totalMinted(c)
           tax == Bps(gross, burnTaxBps(c))
<1>1. fee \in 0..value
  BY BpsBound, ParamsAssumption DEF ValidParams
<1>2. new \in Nat /\ c <= new /\ new + fee = c + value
  BY <1>1
<1>3. quoteBuy(c, value) = [fee |-> fee, newOkbCum |-> new, grossTokensOut |-> gross,
                            burnTaxTokens |-> tax, tokensOut |-> gross - tax]
  BY DEF quoteBuy, effectiveOkbIn
<1>4. ExpDefined(c) /\ ExpDefined(new)
  BY DEF BuyQuotable, effectiveOkbIn
<1> HIDE DEF new, fee
<1>5. gross \in Nat
  BY <1>2, <1>4, MintedMonotoneAndCapped, ParamsAssumption DEF ValidParams
<1> HIDE DEF gross
<1>6. tax \in 0..gross
  BY <1>4, <1>5, TaxIsBps, BpsBound
<1> HIDE DEF tax
<1> QED
  BY <1>1, <1>2, <1>3, <1>4, <1>5, <1>6 DEF gross

(***************************************************************************)
(* quoteSell takes out of the curve what it pays plus its fee, burns the   *)
(* tax, and leaves the curve where the remaining tokens are minted, up to  *)
(* RoundTripDust.                                                          *)
(***************************************************************************)
THEOREM SellQuoteConserves ==
    ASSUME NEW c \in Nat, NEW tokens \in Nat, SellQuotable(c, tokens)
    PROVE  LET q == quoteSell(c, tokens)
           IN  /\ q.newOkbCum \in Nat
               /\ q.grossOkbOut \in Nat
               /\ q.newOkbCum + q.grossOkbOut = c
               /\ ExpDefined(q.newOkbCum)
               /\ q.fee \in 0..q.grossOkbOut
               /\ q.netOkbOut \in Nat
               /\ q.netOkbOut + q.fee = q.grossOkbOut
               /\ q.burnTaxTokens \in 0..tokens
               /\ totalMinted(q.newOkbCum)
                     - (totalMinted(c) - (tokens - q.burnTaxTokens))
                       \in -RoundTripDust..RoundTripDust
<1> DEFINE tax == Bps(tokens, burnTaxBps(c))
           effective == effectiveTokensIn(c, tokens)
           minted == totalMinted(c) - effective
           new == okbAtMinted(minted)
           gross == c - new
           fee == Bps(gross, FeeBps)
<1>1. ExpDefined(c)
  BY DEF SellQuotable
<1>2. tax \in 0..tokens /\ effective = tokens - tax
  BY <1>1, TaxIsBps, BpsBound DEF effectiveTokensIn
<1>3. quoteSell(c, tokens) = [newOkbCum |-> new, grossOkbOut |-> gross, fee |-> fee,
                              netOkbOut |-> gross - fee, burnTaxTokens |-> tokens - effective]
  BY DEF quoteSell
<1>4. minted \in 0..(K - 1) /\ gross >= 0
  <2>1. totalMinted(c) \in Nat
    BY <1>1, MintedMonotoneAndCapped, ParamsAssumption DEF ValidParams
  <2>2. effective <= totalMinted(c) /\ minted < K /\ gross >= 0
    BY <1>3 DEF SellQuotable
  <2> QED
    BY <1>2, <2>1, <2>2, ParamsAssumption DEF ValidParams
<1> HIDE DEF minted
<1>5. new \in Nat
  <2>1. Unit \in Nat /\ Unit > 0 /\ K \in Nat /\ S \in Nat
    BY ParamsAssumption, FixedPointAssumption DEF ValidParams
  <2>2. Ln[div(K, K - minted)] \in Nat
    BY <1>4, FixedPointAssumption DEF Ratios
  <2>3. S * Ln[div(K, K - minted)] \in Nat
    BY <2>1, <2>2
  <2> QED
    BY <2>1, <2>3, DivFloor DEF okbAtMinted, mul
<1> HIDE DEF new
<1>6. gross \in Nat /\ new <= c /\ new + gross = c
  BY <1>4, <1>5
<1>7. ExpDefined(new)
  BY <1>1, <1>5, <1>6, ExponentMonotone
<1>8. fee \in 0..gross
  BY <1>6, BpsBound, ParamsAssumption DEF ValidParams
<1>9. totalMinted(new) - minted \in -RoundTripDust..RoundTripDust
  BY <1>4, <1>7, RoundTripAssumption DEF new
<1> HIDE DEF gross, fee, tax, effective
<1> QED
  BY <1>2, <1>3, <1>5, <1>6, <1>7, <1>8, <1>9 DEF minted

=============================================================================
