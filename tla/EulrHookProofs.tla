--------------------------- MODULE EulrHookProofs ---------------------------
(***************************************************************************)
(* The invariants of a launch, proved for every number of users, every     *)
(* choice of the curve's parameters, amounts and bounds.  IInv is          *)
(* inductive; the invariants and the action properties follow from it.     *)
(***************************************************************************)
EXTENDS EulrHook, CurveProofs, FiniteSetTheorems, FunctionTheorems

-----------------------------------------------------------------------------
(* Who holds the supply.                                                   *)

\* One coin for every token every account has.
Coins(bal) == {x \in Accounts \X Nat : x[2] < bal[x[1]]}

\* The balances add up to the supply.
Counted(w) == IsFiniteSet(Coins(w.balanceOf)) /\ Cardinality(Coins(w.balanceOf)) = w.totalSupply

\* A balance with n tokens more, or less, for account a.
Credit(bal, a, n) == [bal EXCEPT ![a] = bal[a] + n]
Debit(bal, a, n) == [bal EXCEPT ![a] = bal[a] - n]

\* The n coins of account a from number k on.
Stack(a, k, n) == {x \in {a} \X Nat : x[2] \in k..(k + n - 1)}

(***************************************************************************)
(* A stack of n coins is n coins.                                          *)
(***************************************************************************)
LEMMA StackCounted ==
    ASSUME NEW a, NEW k \in Nat, NEW n \in Nat
    PROVE  IsFiniteSet(Stack(a, k, n)) /\ Cardinality(Stack(a, k, n)) = n
<1> DEFINE I == k..(k + n - 1)
           f == [i \in I |-> <<a, i>>]
<1>1. IsFiniteSet(I) /\ Cardinality(I) = n
  BY FS_Interval
<1>2. f \in Bijection(I, Stack(a, k, n))
  <2>1. f \in [I -> Stack(a, k, n)]
    BY DEF Stack
  <2>2. \A i, j \in I : f[i] = f[j] => i = j
    OBVIOUS
  <2>3. \A x \in Stack(a, k, n) : \E i \in I : f[i] = x
    BY DEF Stack
  <2> QED
    BY <2>1, <2>2, <2>3, Fun_IsBij
<1>3. ExistsBijection(I, Stack(a, k, n))
  BY <1>2 DEF ExistsBijection
<1> HIDE DEF I
<1> QED
  BY <1>1, <1>3, FS_Bijection

(***************************************************************************)
(* Crediting n tokens to an account adds n coins.                          *)
(***************************************************************************)
LEMMA CoinsCredited ==
    ASSUME NEW bal \in [Accounts -> Nat], NEW a \in Accounts, NEW n \in Nat,
           IsFiniteSet(Coins(bal))
    PROVE  /\ IsFiniteSet(Coins(Credit(bal, a, n)))
           /\ Cardinality(Coins(Credit(bal, a, n))) = Cardinality(Coins(bal)) + n
<1> DEFINE more == Credit(bal, a, n)
           new == Stack(a, bal[a], n)
<1>1. bal[a] \in Nat /\ more[a] = bal[a] + n
  BY DEF Credit
<1>2. Coins(more) = Coins(bal) \cup new
  BY <1>1 DEF Coins, Stack, Credit
<1>3. Coins(bal) \cap new = {}
  BY <1>1 DEF Coins, Stack
<1>4. IsFiniteSet(new) /\ Cardinality(new) = n
  BY <1>1, StackCounted
<1>5. Cardinality(Coins(bal) \cap new) = 0 /\ Cardinality(Coins(bal)) \in Nat
  BY <1>3, FS_EmptySet, FS_CardinalityType
<1> HIDE DEF new, more
<1>6. /\ IsFiniteSet(Coins(more))
      /\ Cardinality(Coins(more))
           = Cardinality(Coins(bal)) + Cardinality(new) - Cardinality(Coins(bal) \cap new)
  BY <1>2, <1>4, FS_Union
<1>7. IsFiniteSet(Coins(more)) /\ Cardinality(Coins(more)) = Cardinality(Coins(bal)) + n
  BY <1>4, <1>5, <1>6
<1> QED
  BY <1>7 DEF more

(***************************************************************************)
(* Debiting n tokens an account has takes n coins away.                    *)
(***************************************************************************)
LEMMA CoinsDebited ==
    ASSUME NEW bal \in [Accounts -> Nat], NEW a \in Accounts, NEW n \in Nat,
           n <= bal[a], IsFiniteSet(Coins(bal))
    PROVE  /\ IsFiniteSet(Coins(Debit(bal, a, n)))
           /\ Cardinality(Coins(Debit(bal, a, n))) = Cardinality(Coins(bal)) - n
<1> DEFINE less == Debit(bal, a, n)
<1>1. less \in [Accounts -> Nat] /\ less[a] = bal[a] - n /\ bal[a] \in Nat
  BY DEF Debit
<1>2. bal = Credit(less, a, n)
  <2>1. \A b \in Accounts : b # a => less[b] = bal[b]
    BY DEF Debit
  <2>2. less[a] + n = bal[a]
    BY <1>1
  <2> HIDE DEF less
  <2> QED
    BY <1>1, <2>1, <2>2 DEF Credit
<1>3. Coins(less) \subseteq Coins(bal)
  BY <1>1 DEF Coins, Debit
<1> HIDE DEF less
<1>4. IsFiniteSet(Coins(less))
  BY <1>3, FS_Subset
<1>5. Cardinality(Coins(bal)) = Cardinality(Coins(less)) + n
  BY <1>1, <1>2, <1>4, CoinsCredited
<1>6. Cardinality(Coins(less)) \in Nat
  BY <1>4, FS_CardinalityType
<1> QED
  BY <1>4, <1>5, <1>6 DEF less

(***************************************************************************)
(* No account has more than the supply.                                    *)
(***************************************************************************)
LEMMA HeldBySupply ==
    ASSUME NEW w \in Worlds, Counted(w), NEW a \in Accounts
    PROVE  w.balanceOf[a] <= w.totalSupply
<1> DEFINE n == w.balanceOf[a]
<1>1. n \in Nat
  BY DEF Worlds
<1>2. Stack(a, 0, n) \subseteq Coins(w.balanceOf)
  BY <1>1 DEF Stack, Coins
<1> HIDE DEF n
<1>3. Cardinality(Stack(a, 0, n)) = n
  BY <1>1, StackCounted
<1>4. Cardinality(Stack(a, 0, n)) <= Cardinality(Coins(w.balanceOf))
  BY <1>2, FS_Subset DEF Counted
<1> QED
  BY <1>3, <1>4 DEF Counted, n

-----------------------------------------------------------------------------
(* The token's ledger.                                                     *)

(***************************************************************************)
(* v differs from w in the token's ledger at most.                         *)
(***************************************************************************)
SameButLedger(v, w) ==
    /\ v.okbCum = w.okbCum
    /\ v.claimableFeeOkb = w.claimableFeeOkb
    /\ v.taxBurnedTokens = w.taxBurnedTokens
    /\ v.selfDeprecated = w.selfDeprecated
    /\ v.liquidityMigrated = w.liquidityMigrated
    /\ v.lastBuyBlock = w.lastBuyBlock
    /\ v.balance = w.balance
    /\ v.venueOkb = w.venueOkb
    /\ v.venueTokens = w.venueTokens
    /\ v.venueLiquidity = w.venueLiquidity
    /\ v.donated = w.donated
    /\ v.sells = w.sells

\* The world w with another ledger.
WithLedger(w, supply, bal) == [w EXCEPT !.totalSupply = supply, !.balanceOf = bal]

(***************************************************************************)
(* A world with another supply and other balances is a world.              *)
(***************************************************************************)
LEMMA LedgerWorld ==
    ASSUME NEW w \in Worlds, NEW supply \in Nat, NEW bal \in [Accounts -> Nat]
    PROVE  /\ WithLedger(w, supply, bal) \in Worlds
           /\ SameButLedger(WithLedger(w, supply, bal), w)
           /\ WithLedger(w, supply, bal).totalSupply = supply
           /\ WithLedger(w, supply, bal).balanceOf = bal
BY DEF Worlds, SameButLedger, WithLedger

(***************************************************************************)
(* mint adds to the supply and to one balance, and to nothing else.        *)
(***************************************************************************)
LEMMA MintWorld ==
    ASSUME NEW w \in Worlds, NEW a \in Accounts, NEW n \in Nat
    PROVE  /\ mint(w, a, n) \in Worlds
           /\ SameButLedger(mint(w, a, n), w)
           /\ mint(w, a, n).totalSupply = w.totalSupply + n
           /\ mint(w, a, n).balanceOf[a] = w.balanceOf[a] + n
           /\ Counted(w) => Counted(mint(w, a, n))
<1> DEFINE bal == Credit(w.balanceOf, a, n)
<1>1. bal \in [Accounts -> Nat] /\ bal[a] = w.balanceOf[a] + n
  BY DEF Worlds, Credit
<1>2. mint(w, a, n) = WithLedger(w, w.totalSupply + n, bal)
  BY DEF mint, WithLedger, Worlds, Credit
<1>3. w.totalSupply + n \in Nat /\ w.balanceOf \in [Accounts -> Nat]
  BY DEF Worlds
<1>4. Counted(w) => /\ IsFiniteSet(Coins(bal))
                    /\ Cardinality(Coins(bal)) = w.totalSupply + n
  BY <1>3, CoinsCredited DEF Counted
<1> HIDE DEF bal
<1>5. /\ mint(w, a, n) \in Worlds
      /\ SameButLedger(mint(w, a, n), w)
      /\ mint(w, a, n).totalSupply = w.totalSupply + n
      /\ mint(w, a, n).balanceOf = bal
  BY <1>1, <1>2, <1>3, LedgerWorld
<1>6. Counted(w) => Counted(mint(w, a, n))
  BY <1>4, <1>5 DEF Counted
<1> QED
  BY <1>1, <1>5, <1>6

(***************************************************************************)
(* burn takes from the supply and from one balance, and from nothing else. *)
(***************************************************************************)
LEMMA BurnWorld ==
    ASSUME NEW w \in Worlds, NEW a \in Accounts, NEW n \in Nat,
           n <= w.totalSupply, n <= w.balanceOf[a]
    PROVE  /\ burn(w, a, n) \in Worlds
           /\ SameButLedger(burn(w, a, n), w)
           /\ burn(w, a, n).totalSupply = w.totalSupply - n
           /\ burn(w, a, n).balanceOf[a] = w.balanceOf[a] - n
           /\ Counted(w) => Counted(burn(w, a, n))
<1> DEFINE bal == Debit(w.balanceOf, a, n)
<1>1. bal \in [Accounts -> Nat] /\ bal[a] = w.balanceOf[a] - n
  BY DEF Worlds, Debit
<1>2. burn(w, a, n) = WithLedger(w, w.totalSupply - n, bal)
  BY DEF burn, WithLedger, Worlds, Debit
<1>3. w.totalSupply - n \in Nat /\ w.balanceOf \in [Accounts -> Nat]
  BY DEF Worlds
<1>4. Counted(w) => /\ IsFiniteSet(Coins(bal))
                    /\ Cardinality(Coins(bal)) = w.totalSupply - n
  BY <1>3, CoinsDebited DEF Counted
<1> HIDE DEF bal
<1>5. /\ burn(w, a, n) \in Worlds
      /\ SameButLedger(burn(w, a, n), w)
      /\ burn(w, a, n).totalSupply = w.totalSupply - n
      /\ burn(w, a, n).balanceOf = bal
  BY <1>1, <1>2, <1>3, LedgerWorld
<1>6. Counted(w) => Counted(burn(w, a, n))
  BY <1>4, <1>5 DEF Counted
<1> QED
  BY <1>1, <1>5, <1>6

(***************************************************************************)
(* transfer changes balances only, and credits the recipient.              *)
(***************************************************************************)
LEMMA TransferWorld ==
    ASSUME NEW w \in Worlds, NEW a \in Accounts, NEW b \in Accounts, NEW n \in Nat,
           n <= w.balanceOf[a]
    PROVE  /\ transfer(w, a, b, n) \in Worlds
           /\ SameButLedger(transfer(w, a, b, n), w)
           /\ transfer(w, a, b, n).totalSupply = w.totalSupply
           /\ a # b => transfer(w, a, b, n).balanceOf[b] = w.balanceOf[b] + n
           /\ Counted(w) => Counted(transfer(w, a, b, n))
<1> DEFINE paid == Debit(w.balanceOf, a, n)
           bal  == Credit(paid, b, n)
<1>1. paid \in [Accounts -> Nat] /\ (a # b => paid[b] = w.balanceOf[b])
  BY DEF Worlds, Debit
<1>2. transfer(w, a, b, n) = WithLedger(w, w.totalSupply, bal)
  BY DEF transfer, WithLedger, Worlds, Debit, Credit
<1>3. w.totalSupply \in Nat /\ w.balanceOf \in [Accounts -> Nat]
  BY DEF Worlds
<1>4. Counted(w) => /\ IsFiniteSet(Coins(paid))
                    /\ Cardinality(Coins(paid)) = w.totalSupply - n
  BY <1>3, CoinsDebited DEF Counted
<1> HIDE DEF paid
<1>5. bal \in [Accounts -> Nat] /\ bal[b] = paid[b] + n
  BY <1>1 DEF Credit
<1>6. Counted(w) => /\ IsFiniteSet(Coins(bal))
                    /\ Cardinality(Coins(bal)) = w.totalSupply
  BY <1>1, <1>3, <1>4, CoinsCredited
<1> HIDE DEF bal
<1>7. /\ WithLedger(w, w.totalSupply, bal) \in Worlds
      /\ SameButLedger(WithLedger(w, w.totalSupply, bal), w)
      /\ WithLedger(w, w.totalSupply, bal).totalSupply = w.totalSupply
      /\ WithLedger(w, w.totalSupply, bal).balanceOf = bal
  BY <1>3, <1>5, LedgerWorld
<1> QED
  BY <1>1, <1>2, <1>5, <1>6, <1>7 DEF Counted

-----------------------------------------------------------------------------
(* The state each operation leaves, field by field.                        *)

\* The world w with other books.
WithBooks(w, cum, fees, tax, latch, marks, bal) ==
    [w EXCEPT !.balance = bal, !.okbCum = cum, !.claimableFeeOkb = fees,
              !.taxBurnedTokens = tax, !.lastBuyBlock = marks, !.selfDeprecated = latch]

\* v has these books and is otherwise w, but for the marks and the ledger.
HasBooks(v, w, cum, fees, tax, latch, bal) ==
    /\ v.okbCum = cum
    /\ v.claimableFeeOkb = fees
    /\ v.taxBurnedTokens = tax
    /\ v.selfDeprecated = latch
    /\ v.balance = bal
    /\ v.liquidityMigrated = w.liquidityMigrated
    /\ v.venueOkb = w.venueOkb
    /\ v.venueTokens = w.venueTokens
    /\ v.venueLiquidity = w.venueLiquidity
    /\ v.donated = w.donated
    /\ v.sells = w.sells

(***************************************************************************)
(* A world with other books is a world.                                    *)
(***************************************************************************)
LEMMA BooksWorld ==
    ASSUME NEW w \in Worlds, NEW cum \in Nat, NEW fees \in Nat, NEW tax \in Nat,
           NEW latch \in BOOLEAN, NEW marks \in [Accounts -> Nat], NEW bal \in Nat
    PROVE  LET v == WithBooks(w, cum, fees, tax, latch, marks, bal)
           IN  /\ v \in Worlds
               /\ HasBooks(v, w, cum, fees, tax, latch, bal)
               /\ v.totalSupply = w.totalSupply
               /\ v.balanceOf = w.balanceOf
               /\ v.lastBuyBlock = marks
BY DEF Worlds, WithBooks, HasBooks

(***************************************************************************)
(* A buy: the curve and the fees take the value paid, the buyer's tokens   *)
(* and the burnt tax add up to what the curve mints.                       *)
(***************************************************************************)
LEMMA BoughtWorld ==
    ASSUME NEW w \in Worlds, NEW payer \in Accounts, NEW recipient \in Accounts,
           NEW value \in Nat, block \in Nat, BuyQuotable(w.okbCum, value)
    PROVE  LET q == quoteBuy(w.okbCum, value)
               v == Bought(w, payer, recipient, value)
           IN  /\ v \in Worlds
               /\ HasBooks(v, w, q.newOkbCum,
                           w.claimableFeeOkb + q.fee,
                           w.taxBurnedTokens + q.burnTaxTokens,
                           w.selfDeprecated \/ isSelfDeprecated(q.newOkbCum),
                           w.balance + value)
               /\ v.totalSupply = w.totalSupply + q.tokensOut
               /\ v.lastBuyBlock = MarkBuyers(w.lastBuyBlock, payer, recipient)
               /\ Counted(w) => Counted(v)
<1> DEFINE q == quoteBuy(w.okbCum, value)
           fee == q.fee
           new == q.newOkbCum
           gross == q.grossTokensOut
           tax == q.burnTaxTokens
           out == q.tokensOut
           fees == w.claimableFeeOkb + fee
           taxes == w.taxBurnedTokens + tax
           bal == w.balance + value
           marks == MarkBuyers(w.lastBuyBlock, payer, recipient)
           latch == w.selfDeprecated \/ isSelfDeprecated(new)
           booked == WithBooks(w, new, fees, taxes, latch, marks, bal)
           minted == mint(booked, Hook, gross)
           taxed  == burn(minted, Hook, tax)
           v == transfer(taxed, Hook, recipient, out)
<1>1. w.okbCum \in Nat
  BY DEF Worlds
<1>2. /\ fee \in Nat /\ new \in Nat /\ gross \in Nat /\ tax \in Nat /\ out \in Nat
      /\ tax + out = gross
  BY <1>1, BuyQuoteConserves
<1>3. marks \in [Accounts -> Nat]
  BY DEF MarkBuyers, Worlds
<1>4. latch \in BOOLEAN
  BY Zenon
<1>5. Bought(w, payer, recipient, value) = v
  BY DEF Bought, TaxBurned, WithBooks, Worlds
<1>6. Hook \in Accounts
  BY DEF Accounts
<1>7. w.totalSupply \in Nat /\ w.balanceOf[Hook] \in Nat
  BY <1>6 DEF Worlds
<1> HIDE DEF q, fee, new, gross, tax, out, marks, latch
<1>8. fees \in Nat /\ taxes \in Nat /\ bal \in Nat
  BY <1>2 DEF Worlds
<1> HIDE DEF fees, taxes, bal
<1>9. /\ booked \in Worlds
      /\ HasBooks(booked, w, new, fees, taxes, latch, bal)
      /\ booked.totalSupply = w.totalSupply
      /\ booked.balanceOf = w.balanceOf
      /\ booked.lastBuyBlock = marks
  <2>1. new \in Nat
    BY <1>2
  <2>2. latch \in BOOLEAN
    BY <1>4
  <2>3. booked \in Worlds
    BY <1>3, <1>8, <2>1, <2>2, BooksWorld
  <2>4. HasBooks(booked, w, new, fees, taxes, latch, bal)
    BY <1>3, <1>8, <2>1, <2>2, BooksWorld
  <2>5. booked.totalSupply = w.totalSupply
    BY <1>3, <1>8, <2>1, <2>2, BooksWorld
  <2>6. booked.balanceOf = w.balanceOf
    BY <1>3, <1>8, <2>1, <2>2, BooksWorld
  <2>7. booked.lastBuyBlock = marks
    BY <1>3, <1>8, <2>1, <2>2, BooksWorld
  <2> QED
    BY <2>3, <2>4, <2>5, <2>6, <2>7
<1> HIDE DEF booked
<1>10. /\ minted \in Worlds /\ SameButLedger(minted, booked)
       /\ minted.totalSupply = booked.totalSupply + gross
       /\ minted.balanceOf[Hook] = booked.balanceOf[Hook] + gross
       /\ Counted(booked) => Counted(minted)
  BY <1>2, <1>6, <1>9, MintWorld
<1>11. tax <= minted.totalSupply /\ tax <= minted.balanceOf[Hook]
  BY <1>2, <1>7, <1>9, <1>10
<1> HIDE DEF minted
<1>12. /\ taxed \in Worlds /\ SameButLedger(taxed, minted)
       /\ taxed.totalSupply = minted.totalSupply - tax
       /\ taxed.balanceOf[Hook] = minted.balanceOf[Hook] - tax
       /\ Counted(minted) => Counted(taxed)
  BY <1>2, <1>6, <1>10, <1>11, BurnWorld
<1>13. out <= taxed.balanceOf[Hook]
  BY <1>2, <1>7, <1>9, <1>10, <1>12
<1> HIDE DEF taxed
<1>14. /\ v \in Worlds /\ SameButLedger(v, taxed)
       /\ v.totalSupply = taxed.totalSupply
       /\ Counted(taxed) => Counted(v)
  BY <1>2, <1>6, <1>12, <1>13, TransferWorld
<1>15. v.totalSupply = w.totalSupply + out
  BY <1>2, <1>7, <1>9, <1>10, <1>12, <1>14
<1> HIDE DEF v
<1>16. SameButLedger(v, booked)
  BY <1>10, <1>12, <1>14 DEF SameButLedger
<1>17. HasBooks(v, w, new, fees, taxes, latch, bal)
  BY <1>9, <1>16 DEF SameButLedger, HasBooks
<1>18. v.lastBuyBlock = marks
  BY <1>9, <1>16 DEF SameButLedger
<1>19. Counted(w) => Counted(v)
  <2>1. Counted(w) => Counted(booked)
    BY <1>9 DEF Counted
  <2> QED
    BY <1>10, <1>12, <1>14, <2>1
<1> QED
  BY <1>5, <1>14, <1>15, <1>17, <1>18, <1>19 DEF marks, fee, new, tax, out, latch, fees, taxes, bal, q

\* The world w after a sale, but for the ledger.
WithSale(w, cum, fees, tax, donated) ==
    [w EXCEPT !.okbCum = cum, !.claimableFeeOkb = fees, !.taxBurnedTokens = tax,
              !.donated = donated, !.sells = w.sells + 1]

\* v has these books, one sale more than w, and is otherwise w, but for the ledger.
HasSale(v, w, cum, fees, tax, donated) ==
    /\ v.okbCum = cum
    /\ v.claimableFeeOkb = fees
    /\ v.taxBurnedTokens = tax
    /\ v.donated = donated
    /\ v.sells = w.sells + 1
    /\ v.lastBuyBlock = w.lastBuyBlock
    /\ v.selfDeprecated = w.selfDeprecated
    /\ v.liquidityMigrated = w.liquidityMigrated
    /\ v.balance = w.balance
    /\ v.venueOkb = w.venueOkb
    /\ v.venueTokens = w.venueTokens
    /\ v.venueLiquidity = w.venueLiquidity

(***************************************************************************)
(* A world after a sale is a world.                                        *)
(***************************************************************************)
LEMMA SaleWorld ==
    ASSUME NEW w \in Worlds, NEW cum \in Nat, NEW fees \in Nat, NEW tax \in Nat,
           NEW donated \in Nat
    PROVE  LET v == WithSale(w, cum, fees, tax, donated)
           IN  /\ v \in Worlds
               /\ HasSale(v, w, cum, fees, tax, donated)
               /\ v.totalSupply = w.totalSupply
               /\ v.balanceOf = w.balanceOf
<1> DEFINE sells == w.sells + 1
           v == [w EXCEPT !.okbCum = cum, !.claimableFeeOkb = fees,
                          !.taxBurnedTokens = tax, !.donated = donated, !.sells = sells]
<1>1. sells \in Nat
  BY DEF Worlds
<1>2. WithSale(w, cum, fees, tax, donated) = v
  BY DEF WithSale
<1> HIDE DEF sells
<1>3. v \in Worlds
  BY <1>1 DEF Worlds
<1>4. /\ v.okbCum = cum
      /\ v.claimableFeeOkb = fees
      /\ v.taxBurnedTokens = tax
      /\ v.donated = donated
      /\ v.sells = sells
      /\ v.lastBuyBlock = w.lastBuyBlock
      /\ v.selfDeprecated = w.selfDeprecated
      /\ v.liquidityMigrated = w.liquidityMigrated
      /\ v.balance = w.balance
      /\ v.venueOkb = w.venueOkb
      /\ v.venueTokens = w.venueTokens
      /\ v.venueLiquidity = w.venueLiquidity
      /\ v.totalSupply = w.totalSupply
      /\ v.balanceOf = w.balanceOf
  BY DEF Worlds
<1> HIDE DEF v
<1> QED
  BY <1>2, <1>3, <1>4 DEF HasSale, sells

(***************************************************************************)
(* A sell: the seller's tokens are burnt, the gross OKB leaves the curve,  *)
(* or what outsiders left in a migrated launch.                            *)
(***************************************************************************)
LEMMA SoldWorld ==
    ASSUME NEW w \in Worlds, NEW seller \in Users, NEW tokensIn \in Nat,
           tokensIn <= w.totalSupply, tokensIn <= w.balanceOf[seller],
           SellQuotable(w.okbCum, tokensIn),
           w.liquidityMigrated => quoteSell(w.okbCum, tokensIn).grossOkbOut <= w.donated
    PROVE  LET q == quoteSell(w.okbCum, tokensIn)
               v == Sold(w, seller, tokensIn)
           IN  /\ v \in Worlds
               /\ HasSale(v, w, q.newOkbCum,
                          w.claimableFeeOkb + q.fee,
                          w.taxBurnedTokens + q.burnTaxTokens,
                          IF w.liquidityMigrated THEN w.donated - q.grossOkbOut
                                                 ELSE w.donated)
               /\ v.totalSupply = w.totalSupply - tokensIn
               /\ Counted(w) => Counted(v)
<1> DEFINE q == quoteSell(w.okbCum, tokensIn)
           fee == q.fee
           new == q.newOkbCum
           gross == q.grossOkbOut
           tax == q.burnTaxTokens
           fees == w.claimableFeeOkb + fee
           taxes == w.taxBurnedTokens + tax
           donated == IF w.liquidityMigrated THEN w.donated - gross ELSE w.donated
           pulled == transfer(w, seller, Hook, tokensIn)
           booked == WithSale(pulled, new, fees, taxes, donated)
           v == burn(booked, Hook, tokensIn)
<1>1. w.okbCum \in Nat
  BY DEF Worlds
<1>2. fee \in Nat /\ new \in Nat /\ gross \in Nat /\ tax \in Nat
  BY <1>1, SellQuoteConserves
<1>3. Hook \in Accounts /\ seller \in Accounts /\ seller # Hook
  BY AccountsAssumption DEF Accounts
<1>4. w.totalSupply \in Nat /\ w.balanceOf[Hook] \in Nat
  BY <1>3 DEF Worlds
<1>5. /\ pulled \in Worlds
      /\ SameButLedger(pulled, w)
      /\ pulled.totalSupply = w.totalSupply
      /\ pulled.balanceOf[Hook] = w.balanceOf[Hook] + tokensIn
      /\ Counted(w) => Counted(pulled)
  BY <1>3, TransferWorld
<1>6. Sold(w, seller, tokensIn) = v
  BY <1>5 DEF Sold, TaxBurned, WithSale, Worlds, SameButLedger
<1> HIDE DEF q, fee, new, gross, tax, pulled
<1>7. fees \in Nat /\ taxes \in Nat
  BY <1>2 DEF Worlds
<1>8. donated \in Nat
  BY <1>2 DEF Worlds, gross, q
<1> HIDE DEF fees, taxes, donated
<1>9. /\ booked \in Worlds
      /\ HasSale(booked, pulled, new, fees, taxes, donated)
      /\ booked.totalSupply = pulled.totalSupply
      /\ booked.balanceOf = pulled.balanceOf
  <2>1. new \in Nat
    BY <1>2
  <2>2. booked \in Worlds
    BY <1>5, <1>7, <1>8, <2>1, SaleWorld
  <2>3. HasSale(booked, pulled, new, fees, taxes, donated)
    BY <1>5, <1>7, <1>8, <2>1, SaleWorld
  <2>4. booked.totalSupply = pulled.totalSupply
    BY <1>5, <1>7, <1>8, <2>1, SaleWorld
  <2>5. booked.balanceOf = pulled.balanceOf
    BY <1>5, <1>7, <1>8, <2>1, SaleWorld
  <2> QED
    BY <2>2, <2>3, <2>4, <2>5
<1> HIDE DEF booked
<1>10. tokensIn <= booked.totalSupply /\ tokensIn <= booked.balanceOf[Hook]
  BY <1>4, <1>5, <1>9
<1>11. /\ v \in Worlds /\ SameButLedger(v, booked)
       /\ v.totalSupply = booked.totalSupply - tokensIn
       /\ Counted(booked) => Counted(v)
  BY <1>3, <1>9, <1>10, BurnWorld
<1> HIDE DEF v
<1>12. HasSale(v, w, new, fees, taxes, donated)
  BY <1>5, <1>9, <1>11 DEF SameButLedger, HasSale
<1>13. v.totalSupply = w.totalSupply - tokensIn
  BY <1>5, <1>9, <1>11
<1>14. Counted(w) => Counted(v)
  BY <1>5, <1>9, <1>11 DEF Counted
<1> QED
  BY <1>6, <1>11, <1>12, <1>13, <1>14 DEF fee, new, gross, tax, fees, taxes, donated, q

(***************************************************************************)
(* v is w after a payment of n: OKB paid to the hook itself comes back as  *)
(* a donation.                                                             *)
(***************************************************************************)
Paid(v, w, n) ==
    /\ v.balance - v.donated = w.balance - w.donated - n
    /\ v.donated >= w.donated
    /\ v.balanceOf = w.balanceOf
    /\ v.lastBuyBlock = w.lastBuyBlock
    /\ v.okbCum = w.okbCum
    /\ v.claimableFeeOkb = w.claimableFeeOkb
    /\ v.taxBurnedTokens = w.taxBurnedTokens
    /\ v.selfDeprecated = w.selfDeprecated
    /\ v.liquidityMigrated = w.liquidityMigrated
    /\ v.totalSupply = w.totalSupply
    /\ v.venueOkb = w.venueOkb
    /\ v.venueTokens = w.venueTokens
    /\ v.venueLiquidity = w.venueLiquidity
    /\ v.sells = w.sells

(***************************************************************************)
(* sendValue pays no more than the hook holds.                             *)
(***************************************************************************)
LEMMA PaidWorld ==
    ASSUME NEW w \in Worlds, NEW recipient, NEW n \in Nat, n <= w.balance
    PROVE  /\ sendValue(w, recipient, n) \in Worlds
           /\ Paid(sendValue(w, recipient, n), w, n)
<1> DEFINE v == sendValue(w, recipient, n)
<1>1. CASE recipient = Hook
  <2> DEFINE d == w.donated + n
  <2>1. v = [w EXCEPT !.donated = d]
    BY <1>1 DEF sendValue, Worlds
  <2>2. d \in Nat
    BY DEF Worlds
  <2>3. w.balance \in Nat /\ w.donated \in Nat
    BY DEF Worlds
  <2> HIDE DEF d
  <2>4. [w EXCEPT !.donated = d] \in Worlds
    BY <2>2 DEF Worlds
  <2>5. Paid([w EXCEPT !.donated = d], w, n)
    BY <2>3 DEF Worlds, Paid, d
  <2> QED
    BY <2>1, <2>4, <2>5
<1>2. CASE recipient # Hook
  <2> DEFINE b == w.balance - n
  <2>1. v = [w EXCEPT !.balance = b]
    BY <1>2 DEF sendValue, Worlds
  <2>2. b \in Nat
    BY DEF Worlds
  <2>3. w.balance \in Nat /\ w.donated \in Nat
    BY DEF Worlds
  <2> HIDE DEF b
  <2>4. [w EXCEPT !.balance = b] \in Worlds
    BY <2>2 DEF Worlds
  <2>5. Paid([w EXCEPT !.balance = b], w, n)
    BY <2>3 DEF Worlds, Paid, b
  <2> QED
    BY <2>1, <2>4, <2>5
<1> QED
  BY <1>1, <1>2

(***************************************************************************)
(* v is w with its reserve and n new tokens handed to the target.          *)
(***************************************************************************)
Handed(v, w, n) ==
    /\ v.liquidityMigrated
    /\ v.balance = w.claimableFeeOkb
    /\ v.donated = 0
    /\ v.totalSupply = w.totalSupply + n
    /\ v.okbCum = w.okbCum
    /\ v.claimableFeeOkb = w.claimableFeeOkb
    /\ v.taxBurnedTokens = w.taxBurnedTokens
    /\ v.selfDeprecated = w.selfDeprecated
    /\ v.venueOkb = Reserve(w)
    /\ v.venueTokens = n
    /\ v.venueLiquidity = w.venueLiquidity
    /\ v.sells = w.sells

(***************************************************************************)
(* The migration mints a number of tokens, and none beyond the post-burn   *)
(* cap.                                                                    *)
(***************************************************************************)
LEMMA MigrationTokensBound ==
    ASSUME NEW w \in Worlds
    PROVE  /\ MigrationTokens(w) \in Nat
           /\ \/ MigrationTokens(w) = 0
              \/ w.totalSupply + MigrationTokens(w) + w.taxBurnedTokens = K
<1>1. K \in Nat
  BY ParamsAssumption DEF ValidParams
<1>2. w.totalSupply \in Nat /\ w.taxBurnedTokens \in Nat
  BY DEF Worlds
<1> QED
  BY <1>1, <1>2 DEF MigrationTokens, PostBurnCap

(***************************************************************************)
(* The hand-over empties the reserve and leaves the fees.                  *)
(***************************************************************************)
LEMMA HandedWorld ==
    ASSUME NEW w \in Worlds, w.claimableFeeOkb <= w.balance
    PROVE  /\ HandedOver(w) \in Worlds
           /\ Handed(HandedOver(w), w, MigrationTokens(w))
           /\ Counted(w) => Counted(HandedOver(w))
<1> DEFINE okb == MigrationOkb(w)
           tokens == MigrationTokens(w)
           left == w.balance - okb
           booked == [w EXCEPT !.liquidityMigrated = TRUE,
                               !.balance     = left,
                               !.donated     = 0,
                               !.venueOkb    = okb,
                               !.venueTokens = tokens]
           minted == mint(booked, Hook, tokens)
           v == transfer(minted, Hook, Target, tokens)
<1>1. w.balance \in Nat /\ w.claimableFeeOkb \in Nat
  BY DEF Worlds
<1>2. okb \in Nat /\ left \in Nat /\ left = w.claimableFeeOkb /\ okb = Reserve(w)
  BY <1>1 DEF MigrationOkb, Reserve
<1>3. tokens \in Nat
  BY MigrationTokensBound
<1>4. HandedOver(w) = v
  BY DEF HandedOver, Worlds
<1>5. Hook \in Accounts /\ Target \in Accounts
  BY DEF Accounts
<1>6. w.totalSupply \in Nat /\ w.balanceOf[Hook] \in Nat
  BY <1>5 DEF Worlds
<1> HIDE DEF okb, tokens, left
<1>7. booked \in Worlds
  BY <1>2, <1>3 DEF Worlds
<1>8. /\ booked.liquidityMigrated
      /\ booked.balance = left
      /\ booked.donated = 0
      /\ booked.venueOkb = okb
      /\ booked.venueTokens = tokens
      /\ booked.totalSupply = w.totalSupply
      /\ booked.balanceOf = w.balanceOf
      /\ booked.okbCum = w.okbCum
      /\ booked.claimableFeeOkb = w.claimableFeeOkb
      /\ booked.taxBurnedTokens = w.taxBurnedTokens
      /\ booked.selfDeprecated = w.selfDeprecated
      /\ booked.venueLiquidity = w.venueLiquidity
      /\ booked.sells = w.sells
  BY DEF Worlds
<1> HIDE DEF booked
<1>9. /\ minted \in Worlds /\ SameButLedger(minted, booked)
      /\ minted.totalSupply = booked.totalSupply + tokens
      /\ minted.balanceOf[Hook] = booked.balanceOf[Hook] + tokens
      /\ Counted(booked) => Counted(minted)
  BY <1>3, <1>5, <1>7, MintWorld
<1>10. tokens <= minted.balanceOf[Hook]
  BY <1>3, <1>6, <1>8, <1>9
<1> HIDE DEF minted
<1>11. /\ v \in Worlds /\ SameButLedger(v, minted)
       /\ v.totalSupply = minted.totalSupply
       /\ Counted(minted) => Counted(v)
  BY <1>3, <1>5, <1>9, <1>10, TransferWorld
<1> HIDE DEF v
<1>12. SameButLedger(v, booked)
  BY <1>9, <1>11 DEF SameButLedger
<1>13. Handed(v, w, tokens)
  BY <1>2, <1>8, <1>9, <1>11, <1>12 DEF SameButLedger, Handed
<1>14. Counted(w) => Counted(v)
  BY <1>8, <1>9, <1>11 DEF Counted
<1> QED
  BY <1>4, <1>11, <1>13, <1>14 DEF tokens

-----------------------------------------------------------------------------
(* What each operation does to the invariants of a state.                  *)

(***************************************************************************)
(* Dust is a number, and a sale adds one RoundTripDust to it.              *)
(***************************************************************************)
LEMMA DustGrows ==
    ASSUME NEW w \in Worlds, NEW v \in Worlds
    PROVE  /\ Dust(w) \in Nat
           /\ v.sells = w.sells => Dust(v) = Dust(w)
           /\ v.sells = w.sells + 1 => Dust(v) = Dust(w) + RoundTripDust
<1>1. RoundTripDust \in Nat
  BY RoundTripAssumption
<1>2. w.sells \in Nat
  BY DEF Worlds
<1>3. RoundTripDust * w.sells \in Nat
  BY <1>1, <1>2
<1>4. RoundTripDust * (w.sells + 1) = RoundTripDust * w.sells + RoundTripDust
  BY <1>1, <1>2
<1> QED
  BY <1>3, <1>4 DEF Dust

(***************************************************************************)
(* The fields Good speaks of are numbers, and so is the minted supply.     *)
(***************************************************************************)
LEMMA GoodTypes ==
    ASSUME NEW w \in Worlds, ExpDefined(w.okbCum)
    PROVE  /\ w.okbCum \in Nat /\ w.claimableFeeOkb \in Nat /\ w.taxBurnedTokens \in Nat
           /\ w.balance \in Nat /\ w.totalSupply \in Nat /\ w.donated \in Nat
           /\ totalMinted(w.okbCum) \in 0..K
<1>1. w.okbCum \in Nat
  BY DEF Worlds
<1>2. totalMinted(w.okbCum) \in 0..K
  BY <1>1, MintedMonotoneAndCapped
<1> QED
  BY <1>2 DEF Worlds

(***************************************************************************)
(* A buy on a launch that is not migrated keeps the invariants.            *)
(***************************************************************************)
LEMMA BoughtGood ==
    ASSUME NEW w \in Worlds, NEW payer \in Accounts, NEW recipient \in Accounts,
           NEW value \in Nat, block \in Nat, BuyQuotable(w.okbCum, value),
           Good(w), ~w.liquidityMigrated
    PROVE  Good(Bought(w, payer, recipient, value))
<1> DEFINE q == quoteBuy(w.okbCum, value)
           v == Bought(w, payer, recipient, value)
           fee == q.fee
           new == q.newOkbCum
           tax == q.burnTaxTokens
           out == q.tokensOut
           latch == w.selfDeprecated \/ isSelfDeprecated(new)
<1>1. /\ v \in Worlds
      /\ HasBooks(v, w, new, w.claimableFeeOkb + fee, w.taxBurnedTokens + tax,
                  latch, w.balance + value)
      /\ v.totalSupply = w.totalSupply + out
  BY BoughtWorld
<1>2. w.okbCum \in Nat
  BY DEF Worlds
<1>3. /\ fee \in Nat /\ new \in Nat /\ tax \in Nat /\ out \in Nat
      /\ ExpDefined(new)
      /\ new + fee = w.okbCum + value
      /\ tax + out = totalMinted(new) - totalMinted(w.okbCum)
  BY <1>2, BuyQuoteConserves
<1> HIDE DEF q, v, fee, new, tax, out
<1>4. /\ w.okbCum \in Nat /\ w.claimableFeeOkb \in Nat /\ w.taxBurnedTokens \in Nat
      /\ w.balance \in Nat /\ w.totalSupply \in Nat /\ w.donated \in Nat
      /\ totalMinted(w.okbCum) \in 0..K
  BY GoodTypes DEF Good
<1>5. totalMinted(new) \in 0..K /\ K \in Nat
  BY <1>3, MintedMonotoneAndCapped, ParamsAssumption DEF ValidParams
<1>6. Dust(w) \in Nat /\ Dust(v) = Dust(w)
  BY <1>1, DustGrows DEF HasBooks
<1>7. Backed(v)
  <2>1. w.balance - w.claimableFeeOkb = w.donated + w.okbCum
    BY DEF Good, Backed, Reserve
  <2>2. /\ v.balance = w.balance + value
        /\ v.claimableFeeOkb = w.claimableFeeOkb + fee
        /\ v.donated = w.donated /\ v.okbCum = new /\ v.liquidityMigrated = FALSE
    BY <1>1 DEF HasBooks, Worlds
  <2> QED
    BY <1>3, <1>4, <2>1, <2>2 DEF Backed, Reserve
<1>8. Latched(v)
  <2>1. Threshold \in Nat
    BY ThresholdType, ParamsAssumption DEF ValidParams
  <2>2. v.okbCum = new /\ v.selfDeprecated = latch
    BY <1>1 DEF HasBooks
  <2>3. ~v.selfDeprecated => ~isSelfDeprecated(new)
    BY <2>2, Zenon
  <2>4. ~isSelfDeprecated(new) => totalMinted(new) < Threshold
    BY <1>5, <2>1 DEF isSelfDeprecated
  <2> QED
    BY <2>2, <2>3, <2>4 DEF Latched
<1>9. OnCurve(v)
  <2>1. w.totalSupply + w.taxBurnedTokens - totalMinted(w.okbCum) \in -Dust(w)..Dust(w)
    BY DEF Good, OnCurve
  <2>2. /\ v.totalSupply = w.totalSupply + out
        /\ v.taxBurnedTokens = w.taxBurnedTokens + tax
        /\ v.okbCum = new
    BY <1>1 DEF HasBooks
  <2> QED
    BY <1>3, <1>4, <1>5, <1>6, <2>1, <2>2 DEF OnCurve
<1>10. Capped(v)
  <2>1. v.totalSupply + v.taxBurnedTokens - totalMinted(new) \in -Dust(v)..Dust(v)
    BY <1>1, <1>9 DEF OnCurve, HasBooks
  <2>2. v.totalSupply \in Nat /\ v.taxBurnedTokens \in Nat
    BY <1>1 DEF Worlds
  <2> QED
    BY <1>5, <1>6, <2>1, <2>2 DEF Capped
<1>11. ExpDefined(v.okbCum)
  BY <1>1, <1>3 DEF HasBooks
<1> QED
  BY <1>7, <1>8, <1>9, <1>10, <1>11 DEF Good, v

(***************************************************************************)
(* A sell keeps the invariants once it is paid, and never lets the curve   *)
(* or the supply grow.                                                     *)
(***************************************************************************)
LEMMA SaleGood ==
    ASSUME NEW w \in Worlds, NEW seller \in Users, NEW tokensIn \in Nat,
           tokensIn <= w.totalSupply, tokensIn <= w.balanceOf[seller],
           SellQuotable(w.okbCum, tokensIn),
           w.liquidityMigrated => quoteSell(w.okbCum, tokensIn).grossOkbOut <= w.donated,
           Good(w), NEW v \in Worlds,
           Paid(v, Sold(w, seller, tokensIn), quoteSell(w.okbCum, tokensIn).netOkbOut)
    PROVE  /\ Good(v)
           /\ v.okbCum <= w.okbCum
           /\ v.totalSupply <= w.totalSupply
           /\ v.selfDeprecated = w.selfDeprecated
           /\ v.liquidityMigrated = w.liquidityMigrated
           /\ v.venueOkb = w.venueOkb
           /\ v.venueTokens = w.venueTokens
           /\ v.venueLiquidity = w.venueLiquidity
<1> DEFINE q == quoteSell(w.okbCum, tokensIn)
           u == Sold(w, seller, tokensIn)
           fee == q.fee
           new == q.newOkbCum
           gross == q.grossOkbOut
           net == q.netOkbOut
           tax == q.burnTaxTokens
           donated == IF w.liquidityMigrated THEN w.donated - gross ELSE w.donated
<1>1. /\ u \in Worlds
      /\ HasSale(u, w, new, w.claimableFeeOkb + fee, w.taxBurnedTokens + tax, donated)
      /\ u.totalSupply = w.totalSupply - tokensIn
  BY SoldWorld
<1>2. w.okbCum \in Nat
  BY DEF Worlds
<1>3. /\ fee \in Nat /\ new \in Nat /\ tax \in Nat /\ gross \in Nat /\ net \in Nat
      /\ ExpDefined(new)
      /\ new + gross = w.okbCum
      /\ net + fee = gross
      /\ tax <= tokensIn
      /\ totalMinted(new) - (totalMinted(w.okbCum) - (tokensIn - tax))
            \in -RoundTripDust..RoundTripDust
  BY <1>2, SellQuoteConserves
<1>4. Paid(v, u, net)
  OBVIOUS
<1> HIDE DEF q, u, fee, new, tax, gross, net
<1>5. /\ w.okbCum \in Nat /\ w.claimableFeeOkb \in Nat /\ w.taxBurnedTokens \in Nat
      /\ w.balance \in Nat /\ w.totalSupply \in Nat /\ w.donated \in Nat
      /\ totalMinted(w.okbCum) \in 0..K
  BY GoodTypes DEF Good
<1>6. new <= w.okbCum /\ ExpDefined(w.okbCum)
  BY <1>3, <1>5 DEF Good
<1>7. /\ totalMinted(new) \in 0..K
      /\ totalMinted(new) <= totalMinted(w.okbCum)
      /\ K \in Nat /\ RoundTripDust \in Nat
  BY <1>3, <1>5, <1>6, MintedMonotoneAndCapped, ParamsAssumption, RoundTripAssumption
  DEF ValidParams
<1>8. /\ v.okbCum = new
      /\ v.claimableFeeOkb = w.claimableFeeOkb + fee
      /\ v.taxBurnedTokens = w.taxBurnedTokens + tax
      /\ v.totalSupply = w.totalSupply - tokensIn
      /\ v.sells = w.sells + 1
      /\ v.selfDeprecated = w.selfDeprecated
      /\ v.liquidityMigrated = w.liquidityMigrated
      /\ v.venueOkb = w.venueOkb
      /\ v.venueTokens = w.venueTokens
      /\ v.venueLiquidity = w.venueLiquidity
      /\ v.balance - v.donated = w.balance - donated - net
  BY <1>1, <1>4 DEF HasSale, Paid
<1>9. Dust(w) \in Nat /\ Dust(v) = Dust(w) + RoundTripDust
  BY <1>8, DustGrows
<1>10. Backed(v)
  <2>1. v.balance \in Nat /\ v.donated \in Nat
    BY DEF Worlds
  <2>2. w.balance - w.claimableFeeOkb
          = w.donated + (IF w.liquidityMigrated THEN 0 ELSE w.okbCum)
    BY DEF Good, Backed, Reserve
  <2>3. CASE w.liquidityMigrated
    BY <1>3, <1>5, <1>8, <2>1, <2>2, <2>3 DEF Backed, Reserve
  <2>4. CASE ~w.liquidityMigrated
    BY <1>3, <1>5, <1>8, <2>1, <2>2, <2>4 DEF Backed, Reserve
  <2> QED
    BY <2>3, <2>4
<1>11. Latched(v)
  <2>1. Threshold \in Nat
    BY ThresholdType, ParamsAssumption DEF ValidParams
  <2>2. ~w.selfDeprecated => totalMinted(w.okbCum) < Threshold
    BY DEF Good, Latched
  <2> QED
    BY <1>5, <1>7, <1>8, <2>1, <2>2 DEF Latched
<1>12. OnCurve(v)
  <2> SUFFICES ASSUME ~v.liquidityMigrated
               PROVE  v.totalSupply + v.taxBurnedTokens - totalMinted(v.okbCum)
                         \in -Dust(v)..Dust(v)
    BY DEF OnCurve
  <2>1. w.totalSupply + w.taxBurnedTokens - totalMinted(w.okbCum) \in -Dust(w)..Dust(w)
    BY <1>8 DEF Good, OnCurve
  <2> QED
    BY <1>3, <1>5, <1>7, <1>8, <1>9, <2>1
<1>13. Capped(v)
  <2>1. w.totalSupply + w.taxBurnedTokens <= K + Dust(w)
    BY DEF Good, Capped
  <2> QED
    BY <1>3, <1>5, <1>7, <1>8, <1>9, <2>1 DEF Capped
<1>14. ExpDefined(v.okbCum)
  BY <1>3, <1>8
<1>15. v.okbCum <= w.okbCum /\ v.totalSupply <= w.totalSupply
  BY <1>5, <1>6, <1>8
<1> QED
  BY <1>8, <1>10, <1>11, <1>12, <1>13, <1>14, <1>15 DEF Good

(***************************************************************************)
(* The hand-over keeps the invariants, the cap among them.                 *)
(***************************************************************************)
LEMMA HandedGood ==
    ASSUME NEW w \in Worlds, Good(w), w.selfDeprecated
    PROVE  Good(HandedOver(w)) /\ w.claimableFeeOkb <= w.balance
<1>1. /\ w.okbCum \in Nat /\ w.claimableFeeOkb \in Nat /\ w.taxBurnedTokens \in Nat
      /\ w.balance \in Nat /\ w.totalSupply \in Nat /\ w.donated \in Nat
  BY GoodTypes DEF Good
<1>2. w.claimableFeeOkb <= w.balance
  <2>1. w.balance - w.claimableFeeOkb
          = w.donated + (IF w.liquidityMigrated THEN 0 ELSE w.okbCum)
    BY DEF Good, Backed, Reserve
  <2> QED
    BY <1>1, <2>1
<1> DEFINE v == HandedOver(w)
           n == MigrationTokens(w)
<1>3. v \in Worlds /\ Handed(v, w, n)
  BY <1>2, HandedWorld
<1>4. n \in Nat /\ (n = 0 \/ w.totalSupply + n + w.taxBurnedTokens = K)
  BY MigrationTokensBound
<1> HIDE DEF v, n
<1>5. Dust(w) \in Nat /\ Dust(v) = Dust(w) /\ K \in Nat
  BY <1>3, DustGrows, ParamsAssumption DEF Handed, ValidParams
<1>6. Backed(v)
  BY <1>1, <1>3 DEF Handed, Backed, Reserve
<1>7. Latched(v)
  BY <1>3 DEF Handed, Latched
<1>8. OnCurve(v)
  BY <1>3 DEF Handed, OnCurve
<1>9. Capped(v)
  <2>1. w.totalSupply + w.taxBurnedTokens <= K + Dust(w)
    BY DEF Good, Capped
  <2>2. v.totalSupply = w.totalSupply + n /\ v.taxBurnedTokens = w.taxBurnedTokens
    BY <1>3 DEF Handed
  <2> QED
    BY <1>1, <1>4, <1>5, <2>1, <2>2 DEF Capped
<1>10. ExpDefined(v.okbCum)
  BY <1>3 DEF Handed, Good
<1> QED
  BY <1>2, <1>6, <1>7, <1>8, <1>9, <1>10 DEF Good, v

-----------------------------------------------------------------------------
(* What each way a transaction runs does to the inductive invariant.       *)

\* A step keeps the invariant and what the action properties say.
Kept == IInv' /\ KeepsGraduation /\ KeepsMigration /\ KeepsBooks

(***************************************************************************)
(* A state may follow itself.                                              *)
(***************************************************************************)
LEMMA FollowsItself ==
    ASSUME NEW w \in Worlds, NEW migrating \in BOOLEAN
    PROVE  Follows(w, w, migrating)
<1>1. w.okbCum \in Nat /\ w.totalSupply \in Nat
  BY DEF Worlds
<1> QED
  BY <1>1 DEF Follows

(***************************************************************************)
(* Outside of a transaction, a state with settled books can be committed.  *)
(***************************************************************************)
LEMMA Committed ==
    ASSUME NEW w \in Worlds, Good(w), Settled(w),
           world' = w, saved' = w, call' = "none", block' \in Nat
    PROVE  IInv'
<1>1. TypeOK'
  BY DEF TypeOK, Calls
<1>2. Follows(w, w, FALSE)
  BY FollowsItself
<1>3. Good(world') /\ Good(saved') /\ Settled(saved') /\ Settled(world')
  OBVIOUS
<1>4. Follows(world', saved', FALSE)
  BY <1>2
<1>5. (call' = "migrate") = FALSE
  OBVIOUS
<1> QED
  BY <1>1, <1>3, <1>4, <1>5 DEF IInv

(***************************************************************************)
(* A revert goes back to a committed state.                                *)
(***************************************************************************)
LEMMA RolledBack ==
    ASSUME IInv, Rollback
    PROVE  Kept
<1>1. world' = saved /\ saved' = saved /\ call' = "none" /\ block' = block
  BY DEF Rollback
<1>2. saved \in Worlds /\ block \in Nat /\ Good(saved) /\ Settled(saved)
  BY DEF IInv, TypeOK
<1>3. IInv'
  BY <1>1, <1>2, Committed
<1>4. saved.okbCum \in Nat /\ saved.totalSupply \in Nat
  BY <1>2 DEF Worlds
<1>5. KeepsGraduation /\ KeepsMigration /\ KeepsBooks
  BY <1>1, <1>4 DEF KeepsGraduation, KeepsMigration, KeepsBooks
<1> QED
  BY <1>3, <1>5 DEF Kept

(***************************************************************************)
(* What follows the state a transaction began in, and is not the           *)
(* migration, can be committed.                                            *)
(***************************************************************************)
LEMMA CommitKeeps ==
    ASSUME IInv, NEW w \in Worlds, Good(w), Settled(w), Follows(w, saved, FALSE),
           world' = w, saved' = w, call' = "none", block' = block
    PROVE  Kept
<1>1. block' \in Nat
  BY DEF IInv, TypeOK
<1>2. IInv'
  BY <1>1, Committed
<1>3. KeepsGraduation /\ KeepsMigration
  BY DEF Follows, KeepsGraduation, KeepsMigration
<1>4. KeepsBooks
  BY DEF KeepsBooks
<1> QED
  BY <1>2, <1>3, <1>4 DEF Kept

(***************************************************************************)
(* The same state may be shown to a callee before it is committed.         *)
(***************************************************************************)
LEMMA CallOutKeeps ==
    ASSUME IInv, NotEntered, NEW w \in Worlds, Good(w), Settled(w),
           Follows(w, saved, FALSE), NEW c \in {"sell", "claim"}, CallOut(c, w)
    PROVE  Kept
<1>1. world' = w /\ saved' = saved /\ call' = c /\ block' = block
  BY DEF CallOut
<1>2. saved \in Worlds /\ block \in Nat /\ Good(saved) /\ Settled(saved)
  BY DEF IInv, TypeOK
<1>3. TypeOK'
  BY <1>1, <1>2 DEF TypeOK, Calls
<1>4. (call' = "migrate") = FALSE /\ call' # "none"
  BY <1>1
<1>5. IInv'
  BY <1>1, <1>2, <1>3, <1>4 DEF IInv, NotEntered
<1>6. saved.okbCum \in Nat /\ saved.totalSupply \in Nat
  BY <1>2 DEF Worlds
<1>7. KeepsGraduation /\ KeepsMigration /\ KeepsBooks
  BY <1>1, <1>6 DEF KeepsGraduation, KeepsMigration, KeepsBooks, NotEntered
<1> QED
  BY <1>5, <1>7 DEF Kept

(***************************************************************************)
(* A step of somebody else that leaves the books and the venue alone.      *)
(***************************************************************************)
LEMMA ElsewhereKeeps ==
    ASSUME IInv, NEW w \in Worlds, Good(w), Elsewhere(w),
           Books(w) = Books(world),
           w.venueOkb = world.venueOkb,
           w.venueTokens = world.venueTokens,
           w.venueLiquidity = world.venueLiquidity
    PROVE  Kept
<1>1. /\ w.okbCum = world.okbCum
      /\ w.totalSupply = world.totalSupply
      /\ w.selfDeprecated = world.selfDeprecated
      /\ w.liquidityMigrated = world.liquidityMigrated
  BY DEF Books
<1>2. world' = w /\ call' = call /\ block' = block
  BY DEF Elsewhere
<1>3. KeepsBooks
  BY <1>2 DEF KeepsBooks
<1>4. /\ saved \in Worlds /\ call \in Calls /\ block \in Nat
      /\ Good(saved) /\ Settled(saved) /\ Follows(world, saved, call = "migrate")
  BY DEF IInv, TypeOK
<1>5. Follows(w, saved, call = "migrate")
  BY <1>1, <1>4 DEF Follows
<1>6. CASE NotEntered
  <2>1. saved' = w /\ call' = "none" /\ (call = "migrate") = FALSE
    BY <1>2, <1>6 DEF Elsewhere, NotEntered
  <2>2. Settled(world)
    BY <2>1 DEF IInv
  <2>3. Settled(w)
    BY <1>1, <2>2 DEF Settled
  <2>4. Follows(w, saved, FALSE)
    BY <1>5, <2>1
  <2> QED
    BY <1>2, <2>1, <2>3, <2>4, CommitKeeps
<1>7. CASE ~NotEntered
  <2>1. saved' = saved
    BY <1>7 DEF Elsewhere
  <2>2. TypeOK'
    BY <1>2, <1>4, <2>1 DEF TypeOK
  <2>3. call' # "none"
    BY <1>2, <1>7 DEF NotEntered
  <2>4. IF call = "migrate"
        THEN w.liquidityMigrated /\ w.selfDeprecated /\ ~saved.liquidityMigrated
        ELSE Settled(w)
    BY <1>1 DEF IInv, Settled
  <2>5. IInv'
    BY <1>2, <1>4, <1>5, <2>1, <2>2, <2>3, <2>4 DEF IInv, NotEntered
  <2>6. saved.okbCum \in Nat /\ saved.totalSupply \in Nat
    BY <1>4 DEF Worlds
  <2>7. KeepsGraduation /\ KeepsMigration
    BY <2>1, <2>6 DEF KeepsGraduation, KeepsMigration
  <2> QED
    BY <1>3, <2>5, <2>7 DEF Kept
<1> QED
  BY <1>6, <1>7

-----------------------------------------------------------------------------
(* The actions.                                                            *)

(***************************************************************************)
(* Outside of a transaction the hook's own state is the committed one.     *)
(***************************************************************************)
LEMMA Idle ==
    ASSUME IInv, NotEntered
    PROVE  /\ call = "none" /\ world = saved
           /\ world \in Worlds /\ Good(world) /\ Settled(world)
           /\ world.liquidityMigrated => world.selfDeprecated
           /\ world.okbCum \in Nat /\ world.totalSupply \in Nat
<1>1. call = "none" /\ world = saved /\ world \in Worlds /\ Good(world)
  BY DEF IInv, NotEntered, TypeOK
<1>2. Settled(world)
  BY <1>1 DEF IInv
<1> QED
  BY <1>1, <1>2 DEF Settled, Worlds

(***************************************************************************)
(* A buy commits: the launch is open, so nothing is migrated yet, and the  *)
(* curve's invariants are BoughtGood.                                      *)
(***************************************************************************)
LEMMA BuyKeeps ==
    ASSUME IInv, NEW payer \in Users, NEW recipient \in Users \union {Hook},
           NEW value \in Nat, NEW min, Buy(payer, recipient, value, min)
    PROVE  Kept
<1> DEFINE w == Bought(world, payer, recipient, value)
           q == quoteBuy(world.okbCum, value)
<1>1. /\ NotEntered /\ ~world.selfDeprecated
      /\ BuyQuotable(world.okbCum, value)
      /\ world' = w /\ saved' = w /\ call' = call /\ block' = block
  BY DEF Buy, MayBuy, BuysOpen, Commit
<1>2. /\ call = "none" /\ world = saved
      /\ world \in Worlds /\ Good(world) /\ Settled(world)
      /\ ~world.liquidityMigrated
  BY <1>1, Idle
<1>3. /\ payer \in Accounts /\ recipient \in Accounts /\ value \in Nat /\ block \in Nat
  BY DEF Accounts, IInv, TypeOK
<1>4. Good(w)
  BY <1>1, <1>2, <1>3, BoughtGood
<1>5. /\ w \in Worlds
      /\ HasBooks(w, world, q.newOkbCum, world.claimableFeeOkb + q.fee,
                  world.taxBurnedTokens + q.burnTaxTokens,
                  world.selfDeprecated \/ isSelfDeprecated(q.newOkbCum),
                  world.balance + value)
  BY <1>1, <1>2, <1>3, BoughtWorld
<1> HIDE DEF w, q
<1>6. Settled(w)
  BY <1>2, <1>5 DEF HasBooks, Settled
<1>7. Follows(w, saved, FALSE)
  BY <1>1, <1>2 DEF Follows
<1> QED
  BY <1>1, <1>2, <1>4, <1>5, <1>6, <1>7, CommitKeeps

(***************************************************************************)
(* A sell: the reserve check is what keeps a migrated launch from paying   *)
(* out more than outsiders sent it.                                        *)
(***************************************************************************)
LEMMA SellKeeps ==
    ASSUME IInv, NEW seller \in Users, NEW recipient \in Users \union {Hook},
           NEW tokensIn \in 0..world.totalSupply, NEW min,
           Sell(seller, recipient, tokensIn, min)
    PROVE  Kept
<1> DEFINE q == quoteSell(world.okbCum, tokensIn)
           net == q.netOkbOut
           gross == q.grossOkbOut
           sold == Sold(world, seller, tokensIn)
           paid == sendValue(sold, recipient, net)
<1>1. /\ NotEntered
      /\ tokensIn <= world.balanceOf[seller]
      /\ SellQuotable(world.okbCum, tokensIn)
      /\ gross <= world.balance - world.claimableFeeOkb
      /\ \/ net = 0 /\ Commit(sold)
         \/ net > 0 /\ CallOut("sell", paid)
  <2>1. gross \in Int /\ Reserve(world) \in Int
    <3>1. world.okbCum \in Nat /\ SellQuotable(world.okbCum, tokensIn) /\ tokensIn \in Nat
      BY Idle DEF Sell, MaySell
    <3>2. gross \in Nat
      BY <3>1, SellQuoteConserves
    <3> QED
      BY <3>2, Idle DEF Sell, MaySell, Reserve, Worlds
  <2> QED
    BY <2>1 DEF Sell, MaySell, ReserveSuffices, Reserve
<1>2. /\ call = "none" /\ world = saved
      /\ world \in Worlds /\ Good(world) /\ Settled(world)
  BY <1>1, Idle
<1>3. /\ tokensIn \in Nat /\ tokensIn <= world.totalSupply
      /\ world.okbCum \in Nat /\ world.balance \in Nat /\ world.claimableFeeOkb \in Nat
      /\ world.donated \in Nat
  BY <1>2 DEF Worlds
<1>4. /\ net \in Nat /\ gross \in Nat /\ q.fee \in Nat /\ net + q.fee = gross
  BY <1>1, <1>3, SellQuoteConserves
<1>5. world.liquidityMigrated => gross <= world.donated
  <2>1. world.liquidityMigrated => world.balance - world.claimableFeeOkb = world.donated
    BY <1>2, <1>3 DEF Good, Backed, Reserve
  <2> HIDE DEF gross
  <2> QED
    BY <1>1, <1>3, <1>4, <2>1
<1>6. /\ sold \in Worlds /\ sold.balance = world.balance
  <2> DEFINE donated == IF world.liquidityMigrated THEN world.donated - gross
                                                   ELSE world.donated
  <2>1. /\ sold \in Worlds
        /\ HasSale(sold, world, q.newOkbCum, world.claimableFeeOkb + q.fee,
                   world.taxBurnedTokens + q.burnTaxTokens, donated)
    BY <1>1, <1>2, <1>3, <1>5, SoldWorld
  <2> HIDE DEF sold, donated
  <2> QED
    BY <2>1 DEF HasSale
<1>7. ASSUME NEW v \in Worlds, Paid(v, sold, net)
      PROVE  Good(v) /\ Settled(v) /\ Follows(v, saved, FALSE)
  <2>1. /\ Good(v)
        /\ v.okbCum <= world.okbCum
        /\ v.totalSupply <= world.totalSupply
        /\ v.selfDeprecated = world.selfDeprecated
        /\ v.liquidityMigrated = world.liquidityMigrated
        /\ v.venueOkb = world.venueOkb
        /\ v.venueTokens = world.venueTokens
        /\ v.venueLiquidity = world.venueLiquidity
    BY <1>1, <1>2, <1>3, <1>5, <1>7, SaleGood
  <2>2. Settled(v)
    BY <1>2, <2>1 DEF Settled
  <2>3. Follows(v, saved, FALSE)
    BY <1>2, <2>1 DEF Follows
  <2> QED
    BY <2>1, <2>2, <2>3
<1> HIDE DEF q, net, gross, sold
<1>8. CASE net = 0 /\ Commit(sold)
  <2>1. Paid(sold, sold, net)
    <3>1. sold.balance \in Nat /\ sold.donated \in Nat
      BY <1>6 DEF Worlds
    <3> QED
      BY <1>8, <3>1 DEF Paid
  <2>2. Good(sold) /\ Settled(sold) /\ Follows(sold, saved, FALSE)
    BY <1>6, <1>7, <2>1
  <2>3. world' = sold /\ saved' = sold /\ call' = "none" /\ block' = block
    BY <1>2, <1>8 DEF Commit
  <2> QED
    BY <1>6, <2>2, <2>3, CommitKeeps
<1>9. CASE net > 0 /\ CallOut("sell", paid)
  <2>1. net <= sold.balance
    BY <1>1, <1>3, <1>4, <1>6
  <2>2. paid \in Worlds /\ Paid(paid, sold, net)
    BY <1>4, <1>6, <2>1, PaidWorld
  <2>3. Good(paid) /\ Settled(paid) /\ Follows(paid, saved, FALSE)
    BY <1>7, <2>2
  <2> HIDE DEF paid
  <2> QED
    BY <1>1, <1>9, <2>2, <2>3, CallOutKeeps
<1> QED
  BY <1>1, <1>8, <1>9

(***************************************************************************)
(* A claim zeroes the fees before it pays them.                            *)
(***************************************************************************)
LEMMA ClaimFeesKeeps ==
    ASSUME IInv, NEW recipient, ClaimFees(recipient)
    PROVE  Kept
<1> DEFINE amount == world.claimableFeeOkb
           w == [world EXCEPT !.claimableFeeOkb = 0]
           v == sendValue(w, recipient, amount)
<1>1. NotEntered /\ world.balance >= amount /\ CallOut("claim", v)
  BY DEF ClaimFees, MayClaim
<1>2. /\ call = "none" /\ world = saved
      /\ world \in Worlds /\ Good(world) /\ Settled(world)
  BY <1>1, Idle
<1>3. /\ amount \in Nat /\ world.balance \in Nat /\ world.donated \in Nat
      /\ world.okbCum \in Nat /\ world.totalSupply \in Nat
  BY <1>2 DEF Worlds
<1>4. /\ w \in Worlds
      /\ w.claimableFeeOkb = 0
      /\ w.balance = world.balance
      /\ w.donated = world.donated
      /\ w.okbCum = world.okbCum
      /\ w.taxBurnedTokens = world.taxBurnedTokens
      /\ w.selfDeprecated = world.selfDeprecated
      /\ w.liquidityMigrated = world.liquidityMigrated
      /\ w.totalSupply = world.totalSupply
      /\ w.venueOkb = world.venueOkb
      /\ w.venueTokens = world.venueTokens
      /\ w.venueLiquidity = world.venueLiquidity
      /\ w.sells = world.sells
  BY <1>2 DEF Worlds
<1> HIDE DEF w
<1>5. v \in Worlds /\ Paid(v, w, amount)
  BY <1>1, <1>3, <1>4, PaidWorld
<1> HIDE DEF v
<1>6. /\ v.balance - v.donated = world.balance - world.donated - amount
      /\ v.claimableFeeOkb = 0
      /\ v.okbCum = world.okbCum
      /\ v.taxBurnedTokens = world.taxBurnedTokens
      /\ v.selfDeprecated = world.selfDeprecated
      /\ v.liquidityMigrated = world.liquidityMigrated
      /\ v.totalSupply = world.totalSupply
      /\ v.venueOkb = world.venueOkb
      /\ v.venueTokens = world.venueTokens
      /\ v.venueLiquidity = world.venueLiquidity
      /\ v.sells = world.sells
  BY <1>4, <1>5 DEF Paid
<1>7. Backed(v)
  <2>1. v.balance \in Nat /\ v.donated \in Nat
    BY <1>5 DEF Worlds
  <2>2. world.balance - amount
          = world.donated + (IF world.liquidityMigrated THEN 0 ELSE world.okbCum)
    BY <1>2 DEF Good, Backed, Reserve
  <2>3. CASE world.liquidityMigrated
    BY <1>3, <1>6, <2>1, <2>2, <2>3 DEF Backed, Reserve
  <2>4. CASE ~world.liquidityMigrated
    BY <1>3, <1>6, <2>1, <2>2, <2>4 DEF Backed, Reserve
  <2> QED
    BY <2>3, <2>4
<1>8. Good(v)
  BY <1>2, <1>6, <1>7 DEF Good, Latched, OnCurve, Capped, Dust
<1>9. Settled(v)
  BY <1>2, <1>6 DEF Settled
<1>10. Follows(v, saved, FALSE)
  BY <1>2, <1>3, <1>6 DEF Follows
<1> QED
  BY <1>1, <1>5, <1>8, <1>9, <1>10, CallOutKeeps

(***************************************************************************)
(* A migration that has reached its target: the flag is up, the committed  *)
(* state is still the one before.                                          *)
(***************************************************************************)
LEMMA MigrateLiquidityKeeps ==
    ASSUME IInv, MigrateLiquidity
    PROVE  Kept
<1> DEFINE w == HandedOver(world)
           n == MigrationTokens(world)
<1>1. /\ NotEntered /\ MayMigrate(world)
      /\ world' = w /\ call' = "migrate" /\ saved' = saved /\ block' = block
  BY DEF MigrateLiquidity, CallOut
<1>2. /\ call = "none" /\ world = saved
      /\ world \in Worlds /\ Good(world) /\ Settled(world)
      /\ world.okbCum \in Nat /\ world.totalSupply \in Nat
      /\ world.selfDeprecated /\ ~world.liquidityMigrated
  BY <1>1, Idle DEF MayMigrate
<1>3. Good(w) /\ world.claimableFeeOkb <= world.balance
  BY <1>2, HandedGood
<1>4. w \in Worlds /\ Handed(w, world, n)
  BY <1>2, <1>3, HandedWorld
<1> HIDE DEF w, n
<1>5. w.liquidityMigrated /\ w.selfDeprecated /\ w.okbCum = world.okbCum
  BY <1>2, <1>4 DEF Handed
<1>6. Follows(w, saved, TRUE)
  BY <1>2, <1>5 DEF Follows
<1>7. TypeOK'
  BY <1>1, <1>2, <1>4 DEF IInv, TypeOK, Calls
<1>8. (call' = "migrate") = TRUE /\ call' # "none"
  BY <1>1
<1>9. IInv'
  BY <1>1, <1>2, <1>3, <1>5, <1>6, <1>7, <1>8 DEF IInv, NotEntered
<1>10. KeepsGraduation /\ KeepsMigration /\ KeepsBooks
  BY <1>1, <1>2 DEF KeepsGraduation, KeepsMigration, KeepsBooks
<1> QED
  BY <1>9, <1>10 DEF Kept

(***************************************************************************)
(* The recipient of a sell or of the fees returned.                        *)
(***************************************************************************)
LEMMA SellOrClaimReturnsKeeps ==
    ASSUME IInv, SellReturns \/ ClaimReturns
    PROVE  Kept
<1>1. /\ call \in {"sell", "claim"}
      /\ world' = world /\ saved' = world /\ call' = "none" /\ block' = block
  BY DEF SellReturns, ClaimReturns, Finish
<1>2. (call = "migrate") = FALSE
  BY <1>1
<1>3. world \in Worlds /\ Good(world) /\ Settled(world) /\ Follows(world, saved, FALSE)
  BY <1>2 DEF IInv, TypeOK
<1> QED
  BY <1>1, <1>3, CommitKeeps

(***************************************************************************)
(* The target returned: a valid result commits, any other reverts.         *)
(***************************************************************************)
LEMMA MigrationReturnsKeeps ==
    ASSUME IInv, NEW pool \in BOOLEAN, NEW liquidity \in 0..1,
           MigrationReturns(pool, liquidity)
    PROVE  Kept
<1>1. CASE ~ValidResult(pool, liquidity)
  BY <1>1, RolledBack DEF MigrationReturns
<1>2. CASE ValidResult(pool, liquidity)
  <2> DEFINE w == [world EXCEPT !.venueLiquidity = liquidity]
  <2>1. /\ call = "migrate" /\ world.venueOkb > 0
        /\ world' = w /\ saved' = w /\ call' = "none" /\ block' = block
    BY <1>2 DEF MigrationReturns, TargetAccepts, Finish
  <2>2. /\ world \in Worlds /\ Good(world) /\ saved \in Worlds /\ block \in Nat
        /\ world.liquidityMigrated /\ world.selfDeprecated /\ ~saved.liquidityMigrated
        /\ Follows(world, saved, TRUE)
    BY <2>1 DEF IInv, TypeOK
  <2>3. liquidity \in Nat /\ liquidity > 0
    BY <1>2 DEF ValidResult
  <2>4. /\ w \in Worlds
        /\ w.liquidityMigrated = world.liquidityMigrated
        /\ w.selfDeprecated = world.selfDeprecated
        /\ w.venueOkb = world.venueOkb
        /\ w.venueLiquidity = liquidity
        /\ w.okbCum = world.okbCum
        /\ w.claimableFeeOkb = world.claimableFeeOkb
        /\ w.taxBurnedTokens = world.taxBurnedTokens
        /\ w.totalSupply = world.totalSupply
        /\ w.balance = world.balance
        /\ w.donated = world.donated
        /\ w.sells = world.sells
    BY <2>2, <2>3 DEF Worlds
  <2> HIDE DEF w
  <2>5. Good(w)
    BY <2>2, <2>4 DEF Good, Backed, Reserve, Latched, OnCurve, Capped, Dust
  <2>6. Settled(w)
    BY <2>1, <2>2, <2>3, <2>4 DEF Settled
  <2>7. IInv'
    BY <2>1, <2>2, <2>4, <2>5, <2>6, Committed
  <2>8. KeepsGraduation /\ KeepsMigration
    BY <2>1, <2>2, <2>4 DEF Follows, KeepsGraduation, KeepsMigration
  <2>9. KeepsBooks
    BY <2>1 DEF KeepsBooks
  <2> QED
    BY <2>7, <2>8, <2>9 DEF Kept
<1> QED
  BY <1>1, <1>2

(***************************************************************************)
(* OKB sent to the hook is a donation.                                     *)
(***************************************************************************)
LEMMA DonateKeeps ==
    ASSUME IInv, NEW amount \in DonationAmounts, Donate(amount)
    PROVE  Kept
<1> DEFINE b == world.balance + amount
           d == world.donated + amount
           w == [world EXCEPT !.balance = b, !.donated = d]
<1>1. world \in Worlds /\ Good(world) /\ amount \in Nat
  BY AmountsAssumption DEF IInv, TypeOK
<1>2. /\ b \in Nat /\ d \in Nat
      /\ world.balance \in Nat /\ world.donated \in Nat
      /\ world.claimableFeeOkb \in Nat /\ world.okbCum \in Nat
  BY <1>1 DEF Worlds
<1>3. Elsewhere(w)
  BY <1>1 DEF Donate, Worlds
<1>4. b - d = world.balance - world.donated /\ b = world.balance + amount
  BY <1>1, <1>2
<1> HIDE DEF b, d
<1>5. w \in Worlds
  BY <1>1, <1>2 DEF Worlds
<1>6. /\ w.balance = b /\ w.donated = d
      /\ w.okbCum = world.okbCum
      /\ w.claimableFeeOkb = world.claimableFeeOkb
      /\ w.taxBurnedTokens = world.taxBurnedTokens
      /\ w.selfDeprecated = world.selfDeprecated
      /\ w.liquidityMigrated = world.liquidityMigrated
      /\ w.totalSupply = world.totalSupply
      /\ w.venueOkb = world.venueOkb
      /\ w.venueTokens = world.venueTokens
      /\ w.venueLiquidity = world.venueLiquidity
      /\ w.sells = world.sells
  BY <1>1 DEF Worlds
<1> HIDE DEF w
<1>7. Backed(w)
  BY <1>1, <1>2, <1>4, <1>6 DEF Good, Backed, Reserve
<1>8. Good(w)
  BY <1>1, <1>6, <1>7 DEF Good, Latched, OnCurve, Capped, Dust
<1>9. Books(w) = Books(world)
  BY <1>6 DEF Books
<1> QED
  BY <1>3, <1>5, <1>6, <1>8, <1>9, ElsewhereKeeps

(***************************************************************************)
(* A transfer of tokens touches no book.                                   *)
(***************************************************************************)
LEMMA TransferTokensKeeps ==
    ASSUME IInv, NEW from \in Users \union {Target}, NEW to \in Accounts,
           NEW amount \in TransferAmounts, TransferTokens(from, to, amount)
    PROVE  Kept
<1> DEFINE w == transfer(world, from, to, amount)
<1>1. world \in Worlds /\ Good(world) /\ amount \in Nat /\ from \in Accounts
  BY AmountsAssumption DEF IInv, TypeOK, Accounts
<1>2. amount <= world.balanceOf[from] /\ Elsewhere(w)
  BY DEF TransferTokens
<1>3. w \in Worlds /\ SameButLedger(w, world) /\ w.totalSupply = world.totalSupply
  BY <1>1, <1>2, TransferWorld
<1> HIDE DEF w
<1>4. Good(w)
  BY <1>1, <1>3 DEF SameButLedger, Good, Backed, Reserve, Latched, OnCurve, Capped, Dust
<1>5. Books(w) = Books(world)
  BY <1>3 DEF SameButLedger, Books
<1> QED
  BY <1>2, <1>3, <1>4, <1>5, ElsewhereKeeps DEF SameButLedger

(***************************************************************************)
(* Time passes.                                                            *)
(***************************************************************************)
LEMMA NextBlockKeeps ==
    ASSUME IInv, NextBlock \/ UNCHANGED vars
    PROVE  Kept
<1>1. world' = world /\ saved' = saved /\ call' = call /\ block' \in Nat
  BY DEF NextBlock, vars, IInv, TypeOK
<1>2. IInv'
  BY <1>1 DEF IInv, TypeOK, NotEntered
<1>3. saved.okbCum \in Nat /\ saved.totalSupply \in Nat
  BY DEF IInv, TypeOK, Worlds
<1>4. KeepsGraduation /\ KeepsMigration /\ KeepsBooks
  BY <1>1, <1>3 DEF KeepsGraduation, KeepsMigration, KeepsBooks
<1> QED
  BY <1>2, <1>4 DEF Kept

-----------------------------------------------------------------------------
(* The invariant holds at the start and is kept by every step.             *)

(***************************************************************************)
(* The launch as the factory leaves it: nothing bought, and the threshold  *)
(* still ahead.                                                            *)
(***************************************************************************)
LEMMA InitIInv ==
    ASSUME Init
    PROVE  IInv
<1>1. Launched \in Worlds
  BY DEF Launched, Worlds, NoBalance
<1>2. /\ Launched.okbCum = 0 /\ Launched.claimableFeeOkb = 0
      /\ Launched.taxBurnedTokens = 0 /\ Launched.selfDeprecated = FALSE
      /\ Launched.liquidityMigrated = FALSE /\ Launched.balance = 0
      /\ Launched.totalSupply = 0 /\ Launched.venueOkb = 0
      /\ Launched.venueTokens = 0 /\ Launched.venueLiquidity = 0
      /\ Launched.donated = 0 /\ Launched.sells = 0
  BY DEF Launched
<1>3. totalMinted(0) = 0
  BY DEF totalMinted
<1>4. Dust(Launched) = 0 /\ K \in Nat
  BY <1>2, RoundTripAssumption, ParamsAssumption DEF Dust, ValidParams
<1>5. ExpDefined(0)
  <2>1. Unit \in Nat /\ S \in Nat \ {0} /\ MaxExpInput \in Nat
    BY FixedPointAssumption, ParamsAssumption DEF ValidParams
  <2>2. (0 * Unit) \div S = 0
    BY <2>1
  <2>3. DOMAIN Exp = 0..MaxExpInput
    BY FixedPointAssumption
  <2> QED
    BY <2>1, <2>2, <2>3 DEF ExpDefined, div
<1>6. Threshold > 0
  BY ThresholdAssumption
<1> HIDE DEF Launched
<1>7. Good(Launched)
  BY <1>2, <1>3, <1>4, <1>5, <1>6 DEF Good, Backed, Reserve, Latched, OnCurve, Capped
<1>8. Settled(Launched)
  BY <1>2 DEF Settled
<1>9. Follows(Launched, Launched, FALSE)
  BY <1>1, FollowsItself
<1>10. world = Launched /\ saved = Launched /\ call = "none" /\ block = 1
  BY DEF Init
<1>11. TypeOK
  BY <1>1, <1>10 DEF TypeOK, Calls
<1>12. (call = "migrate") = FALSE
  BY <1>10
<1> QED
  BY <1>7, <1>8, <1>9, <1>10, <1>11, <1>12 DEF IInv

(***************************************************************************)
(* Every step keeps the invariant and obeys the action properties.         *)
(***************************************************************************)
LEMMA NextKeeps ==
    ASSUME IInv, [Next]_vars
    PROVE  Kept
<1>1. ASSUME NEW payer \in Users, NEW recipient \in Users \union {Hook},
             NEW value \in BuyAmounts, NEW min \in MinAmounts,
             Buy(payer, recipient, value, min)
      PROVE  Kept
  BY <1>1, BuyKeeps, AmountsAssumption
<1>2. ASSUME NEW seller \in Users, NEW recipient \in Users \union {Hook},
             NEW tokensIn \in 0..world.totalSupply, NEW min \in MinAmounts,
             Sell(seller, recipient, tokensIn, min)
      PROVE  Kept
  BY <1>2, SellKeeps
<1>3. CASE Trade
  BY <1>1, <1>2, <1>3 DEF Trade
<1>4. CASE Claim
  BY <1>4, ClaimFeesKeeps DEF Claim
<1>5. CASE MigrateLiquidity
  BY <1>5, MigrateLiquidityKeeps
<1>6. CASE Callee
  <2>1. CASE SellReturns \/ ClaimReturns
    BY <2>1, SellOrClaimReturnsKeeps
  <2>2. CASE \E pool \in BOOLEAN, liquidity \in 0..1 : MigrationReturns(pool, liquidity)
    BY <2>2, MigrationReturnsKeeps
  <2>3. CASE CalleeReverts
    BY <2>3, RolledBack DEF CalleeReverts
  <2> QED
    BY <1>6, <2>1, <2>2, <2>3 DEF Callee
<1>7. CASE Others
  <2>1. CASE \E amount \in DonationAmounts : Donate(amount)
    BY <2>1, DonateKeeps
  <2>2. CASE \E from \in Users \union {Target}, to \in Accounts, amount \in TransferAmounts :
                from # to /\ TransferTokens(from, to, amount)
    BY <2>2, TransferTokensKeeps
  <2>3. CASE NextBlock
    BY <2>3, NextBlockKeeps
  <2> QED
    BY <1>7, <2>1, <2>2, <2>3 DEF Others
<1>8. CASE UNCHANGED vars
  BY <1>8, NextBlockKeeps
<1> QED
  BY <1>3, <1>4, <1>5, <1>6, <1>7, <1>8 DEF Next

(***************************************************************************)
(* Whatever the parameters, the users and the order of their transactions, *)
(* the inductive invariant holds in every state of a launch.               *)
(***************************************************************************)
THEOREM InvariantHolds == Spec => []IInv
<1>1. Init => IInv
  BY InitIInv
<1>2. IInv /\ [Next]_vars => IInv'
  BY NextKeeps DEF Kept
<1> QED
  BY <1>1, <1>2, PTL DEF Spec

(***************************************************************************)
(* Storage and balances stay numbers: no checked subtraction of the hook   *)
(* or the token (fees, reserve, supply, donated OKB) goes below zero.      *)
(***************************************************************************)
THEOREM TypeCorrect == Spec => []TypeOK
<1>1. IInv => TypeOK
  BY DEF IInv
<1> QED
  BY <1>1, InvariantHolds, PTL

(***************************************************************************)
(* The hook's reserve is the curve's net OKB and what outsiders sent, also *)
(* as the callee of a payout or of a migration sees it.                    *)
(***************************************************************************)
THEOREM ReserveCorrect == Spec => []ReserveMatchesCurve
<1>1. IInv => ReserveMatchesCurve
  BY DEF IInv, Good, ReserveMatchesCurve
<1> QED
  BY <1>1, InvariantHolds, PTL

(***************************************************************************)
(* The hook never owes more fees than it holds OKB.                        *)
(***************************************************************************)
THEOREM FeesAlwaysCovered == Spec => []FeesCovered
<1>1. IInv => FeesCovered
  <2> SUFFICES ASSUME IInv PROVE FeesCovered
    OBVIOUS
  <2>1. world \in Worlds /\ Good(world)
    BY DEF IInv, TypeOK
  <2>2. /\ world.okbCum \in Nat /\ world.balance \in Nat /\ world.donated \in Nat
        /\ world.claimableFeeOkb \in Nat
    BY <2>1 DEF Worlds
  <2>3. world.balance - world.claimableFeeOkb
          = world.donated + (IF world.liquidityMigrated THEN 0 ELSE world.okbCum)
    BY <2>1 DEF Good, Backed, Reserve
  <2> QED
    BY <2>2, <2>3 DEF FeesCovered
<1> QED
  BY <1>1, InvariantHolds, PTL

(***************************************************************************)
(* A launch is open for buys only while its curve is below the threshold.  *)
(***************************************************************************)
THEOREM OpenBelowThreshold == Spec => []OpenMeansBelowThreshold
<1>1. IInv => OpenMeansBelowThreshold
  BY DEF IInv, Good, OpenMeansBelowThreshold
<1> QED
  BY <1>1, InvariantHolds, PTL

(***************************************************************************)
(* The token's supply and the burnt tax follow the curve, but for the      *)
(* rounding of each sell.                                                  *)
(***************************************************************************)
THEOREM SupplyOnCurve == Spec => []SupplyTracksCurve
<1>1. IInv => SupplyTracksCurve
  BY DEF IInv, Good, SupplyTracksCurve
<1> QED
  BY <1>1, InvariantHolds, PTL

(***************************************************************************)
(* The supply cap holds for the whole life of a launch, the migration's    *)
(* mint included.                                                          *)
(***************************************************************************)
THEOREM CapHolds == Spec => []SupplyCapped
<1>1. IInv => SupplyCapped
  BY DEF IInv, Good, SupplyCapped
<1> QED
  BY <1>1, InvariantHolds, PTL

(***************************************************************************)
(* A migration is committed with a venue that has liquidity, or not at     *)
(* all, however often it is attempted.                                     *)
(***************************************************************************)
THEOREM MigrationSettled == Spec => []MigrationAllOrNothing
<1>1. IInv => MigrationAllOrNothing
  BY DEF IInv, MigrationAllOrNothing
<1> QED
  BY <1>1, InvariantHolds, PTL

(***************************************************************************)
(* Graduation is irreversible: the curve only goes down from there, and    *)
(* only the migration mints.                                               *)
(***************************************************************************)
THEOREM GraduationIsFinal == Spec => GraduationFinal
<1>1. IInv /\ [Next]_vars => [KeepsGraduation]_vars
  BY NextKeeps DEF Kept
<1> QED
  BY <1>1, InvariantHolds, PTL DEF Spec, GraduationFinal

(***************************************************************************)
(* What was migrated once is never migrated again.                         *)
(***************************************************************************)
THEOREM MigrationIsFinal == Spec => MigratedOnce
<1>1. IInv /\ [Next]_vars => [KeepsMigration]_vars
  BY NextKeeps DEF Kept
<1> QED
  BY <1>1, InvariantHolds, PTL DEF Spec, MigratedOnce

(***************************************************************************)
(* No callee of the hook, by whatever steps, changes the hook's books      *)
(* while it runs.                                                          *)
(***************************************************************************)
THEOREM BooksAreClosedToCallees == Spec => CalleeCannotTouchBooks
<1>1. IInv /\ [Next]_vars => [KeepsBooks]_vars
  BY NextKeeps DEF Kept
<1> QED
  BY <1>1, InvariantHolds, PTL DEF Spec, CalleeCannotTouchBooks

-----------------------------------------------------------------------------
(* The supply is what all accounts hold.                                   *)

(***************************************************************************)
(* A buy mints no token nobody gets, and marks its buyers.                 *)
(***************************************************************************)
LEMMA BuyCounts ==
    ASSUME IInv, Counted(world), NEW payer \in Users, NEW recipient \in Users \union {Hook},
           NEW value \in Nat, NEW min, Buy(payer, recipient, value, min)
    PROVE  /\ Counted(world') /\ saved' = world' /\ call' = "none" /\ block' = block
           /\ ~world'.liquidityMigrated
           /\ world'.lastBuyBlock = MarkBuyers(world.lastBuyBlock, payer, recipient)
<1> DEFINE w == Bought(world, payer, recipient, value)
<1>1. /\ NotEntered /\ ~world.selfDeprecated
      /\ BuyQuotable(world.okbCum, value)
      /\ world' = w /\ saved' = w /\ call' = call /\ block' = block
  BY DEF Buy, MayBuy, BuysOpen, Commit
<1>2. /\ call = "none" /\ world \in Worlds /\ ~world.liquidityMigrated
  BY <1>1, Idle
<1>3. payer \in Accounts /\ recipient \in Accounts /\ block \in Nat
  BY DEF Accounts, IInv, TypeOK
<1>4. /\ w.lastBuyBlock = MarkBuyers(world.lastBuyBlock, payer, recipient)
      /\ w.liquidityMigrated = world.liquidityMigrated
      /\ Counted(w)
  <2>1. Counted(w)
    BY <1>1, <1>2, <1>3, BoughtWorld
  <2>2. w.lastBuyBlock = MarkBuyers(world.lastBuyBlock, payer, recipient)
    BY <1>1, <1>2, <1>3, BoughtWorld
  <2>3. w.liquidityMigrated = world.liquidityMigrated
    BY <1>1, <1>2, <1>3, BoughtWorld DEF HasBooks
  <2> QED
    BY <2>1, <2>2, <2>3
<1> HIDE DEF w
<1> QED
  BY <1>1, <1>2, <1>4

(***************************************************************************)
(* A sell burns what it took, whether its recipient is called or not.      *)
(***************************************************************************)
LEMMA SellCounts ==
    ASSUME IInv, Counted(world), NEW seller \in Users, NEW recipient,
           NEW tokensIn \in Nat, NEW min, Sell(seller, recipient, tokensIn, min)
    PROVE  /\ tokensIn <= world.totalSupply
           /\ Counted(world') /\ block' = block
           /\ \/ saved' = world' /\ call' = "none"
              \/ saved' = saved /\ call' = "sell"
           /\ world'.liquidityMigrated = world.liquidityMigrated
           /\ world'.lastBuyBlock = world.lastBuyBlock
<1> DEFINE q == quoteSell(world.okbCum, tokensIn)
           net == q.netOkbOut
           gross == q.grossOkbOut
           sold == Sold(world, seller, tokensIn)
           paid == sendValue(sold, recipient, net)
<1>1. /\ NotEntered
      /\ tokensIn <= world.balanceOf[seller]
      /\ SellQuotable(world.okbCum, tokensIn)
      /\ ReserveSuffices(world, gross)
      /\ \/ net = 0 /\ Commit(sold)
         \/ net > 0 /\ CallOut("sell", paid)
  BY DEF Sell, MaySell
<1>2. call = "none" /\ world \in Worlds /\ Good(world)
  BY <1>1, Idle
<1>3. /\ world.okbCum \in Nat /\ world.balance \in Nat /\ world.claimableFeeOkb \in Nat
      /\ world.donated \in Nat /\ world.totalSupply \in Nat
      /\ seller \in Accounts /\ world.balanceOf[seller] \in Nat
  BY <1>2 DEF Worlds, Accounts
<1>4. tokensIn <= world.totalSupply
  BY <1>1, <1>2, <1>3, HeldBySupply
<1>5. /\ net \in Nat /\ gross \in Nat /\ net + q.fee = gross /\ q.fee \in Nat
  BY <1>1, <1>3, SellQuoteConserves
<1>6. gross <= world.balance - world.claimableFeeOkb
  BY <1>1, <1>3, <1>5 DEF ReserveSuffices, Reserve
<1>7. world.liquidityMigrated => gross <= world.donated
  <2>1. world.liquidityMigrated => world.balance - world.claimableFeeOkb = world.donated
    BY <1>2, <1>3 DEF Good, Backed, Reserve
  <2> HIDE DEF gross
  <2> QED
    BY <1>3, <1>5, <1>6, <2>1
<1>8. /\ sold \in Worlds /\ Counted(sold) /\ sold.balance = world.balance
      /\ sold.lastBuyBlock = world.lastBuyBlock
      /\ sold.liquidityMigrated = world.liquidityMigrated
  <2> DEFINE donated == IF world.liquidityMigrated THEN world.donated - gross
                                                   ELSE world.donated
  <2>1. /\ sold \in Worlds /\ Counted(sold)
        /\ HasSale(sold, world, q.newOkbCum, world.claimableFeeOkb + q.fee,
                   world.taxBurnedTokens + q.burnTaxTokens, donated)
    BY <1>1, <1>2, <1>4, <1>7, SoldWorld
  <2> HIDE DEF sold, donated
  <2> QED
    BY <2>1 DEF HasSale
<1>9. paid \in Worlds /\ Paid(paid, sold, net)
  <2> HIDE DEF sold, net, gross, q
  <2>1. net <= sold.balance
    BY <1>3, <1>5, <1>6, <1>8 DEF net, gross
  <2> QED
    BY <1>5, <1>8, <2>1, PaidWorld
<1> HIDE DEF q, net, gross, sold, paid
<1>10. /\ Counted(paid) /\ paid.lastBuyBlock = world.lastBuyBlock
       /\ paid.liquidityMigrated = world.liquidityMigrated
  BY <1>8, <1>9 DEF Paid, Counted
<1>11. /\ block' = block
       /\ \/ world' = sold /\ saved' = sold /\ call' = "none"
          \/ world' = paid /\ saved' = saved /\ call' = "sell"
  BY <1>1, <1>2 DEF Commit, CallOut
<1> QED
  BY <1>4, <1>8, <1>10, <1>11

(***************************************************************************)
(* A claim moves no token.                                                 *)
(***************************************************************************)
LEMMA ClaimCounts ==
    ASSUME IInv, Counted(world), NEW recipient, ClaimFees(recipient)
    PROVE  /\ Counted(world') /\ saved' = saved /\ call' = "claim" /\ block' = block
           /\ world'.liquidityMigrated = world.liquidityMigrated
           /\ world'.lastBuyBlock = world.lastBuyBlock
<1> DEFINE amount == world.claimableFeeOkb
           w == [world EXCEPT !.claimableFeeOkb = 0]
           v == sendValue(w, recipient, amount)
<1>1. NotEntered /\ world.balance >= amount /\ CallOut("claim", v)
  BY DEF ClaimFees, MayClaim
<1>2. world \in Worlds
  BY <1>1, Idle
<1>3. amount \in Nat /\ world.balance \in Nat
  BY <1>2 DEF Worlds
<1>4. /\ w \in Worlds /\ w.balance = world.balance
      /\ w.totalSupply = world.totalSupply /\ w.balanceOf = world.balanceOf
      /\ w.lastBuyBlock = world.lastBuyBlock
      /\ w.liquidityMigrated = world.liquidityMigrated
  BY <1>2 DEF Worlds
<1> HIDE DEF w
<1>5. Paid(v, w, amount)
  BY <1>1, <1>3, <1>4, PaidWorld
<1> HIDE DEF v
<1>6. world' = v /\ saved' = saved /\ call' = "claim" /\ block' = block
  BY <1>1 DEF CallOut
<1>7. /\ Counted(v) /\ v.liquidityMigrated = world.liquidityMigrated
      /\ v.lastBuyBlock = world.lastBuyBlock
  BY <1>4, <1>5 DEF Paid, Counted
<1> QED
  BY <1>6, <1>7

(***************************************************************************)
(* A transfer leaves the supply where it is.                               *)
(***************************************************************************)
LEMMA TransferCounts ==
    ASSUME IInv, Counted(world), Counted(saved), NEW from \in Users \union {Target},
           NEW to \in Accounts, NEW amount \in TransferAmounts,
           TransferTokens(from, to, amount)
    PROVE  /\ Counted(world') /\ Counted(saved')
           /\ call' = call /\ block' = block
           /\ saved' = IF NotEntered THEN world' ELSE saved
           /\ SameButLedger(world', world)
<1> DEFINE w == transfer(world, from, to, amount)
<1>1. world \in Worlds /\ amount \in Nat /\ from \in Accounts
  BY AmountsAssumption DEF IInv, TypeOK, Accounts
<1>2. amount <= world.balanceOf[from] /\ Elsewhere(w)
  BY DEF TransferTokens
<1>3. w \in Worlds /\ SameButLedger(w, world) /\ Counted(w)
  BY <1>1, <1>2, TransferWorld
<1> HIDE DEF w
<1> QED
  BY <1>2, <1>3 DEF Elsewhere

(***************************************************************************)
(* Every step of a launch keeps the balances adding up to the supply.      *)
(***************************************************************************)
LEMMA NextCounts ==
    ASSUME IInv, Counted(world), Counted(saved), [Next]_vars
    PROVE  Counted(world') /\ Counted(saved')
<1>1. CASE Trade
  BY <1>1, BuyCounts, SellCounts, AmountsAssumption DEF Trade
<1>2. CASE Claim
  BY <1>2, ClaimCounts DEF Claim
<1>3. CASE MigrateLiquidity
  <2>1. /\ NotEntered /\ MayMigrate(world) /\ world.balance >= world.claimableFeeOkb
        /\ world' = HandedOver(world) /\ saved' = saved
    BY <1>3 DEF MigrateLiquidity, CallOut
  <2>2. world \in Worlds /\ world.balance \in Nat /\ world.claimableFeeOkb \in Nat
    BY <2>1, Idle DEF Worlds
  <2>3. Counted(HandedOver(world))
    BY <2>1, <2>2, HandedWorld
  <2> QED
    BY <2>1, <2>3
<1>4. CASE Callee
  <2>1. CASE SellReturns \/ ClaimReturns \/ CalleeReverts
    BY <2>1 DEF SellReturns, ClaimReturns, CalleeReverts, Finish, Rollback
  <2>2. ASSUME NEW pool \in BOOLEAN, NEW liquidity \in 0..1, MigrationReturns(pool, liquidity)
        PROVE  Counted(world') /\ Counted(saved')
    <3> DEFINE w == [world EXCEPT !.venueLiquidity = liquidity]
    <3>1. \/ world' = w /\ saved' = w
          \/ world' = saved /\ saved' = saved
      BY <2>2 DEF MigrationReturns, Finish, Rollback
    <3>2. world \in Worlds
      BY DEF IInv, TypeOK
    <3>3. w.totalSupply = world.totalSupply /\ w.balanceOf = world.balanceOf
      BY <3>2 DEF Worlds
    <3> HIDE DEF w
    <3>4. Counted(w)
      BY <3>3 DEF Counted
    <3> QED
      BY <3>1, <3>4
  <2> QED
    BY <1>4, <2>1, <2>2 DEF Callee
<1>5. ASSUME NEW amount \in DonationAmounts, Donate(amount)
      PROVE  Counted(world') /\ Counted(saved')
  <2> DEFINE w == [world EXCEPT !.balance = @ + amount, !.donated = @ + amount]
  <2>1. world' = w /\ saved' = IF NotEntered THEN w ELSE saved
    BY <1>5 DEF Donate, Elsewhere
  <2>2. world \in Worlds
    BY DEF IInv, TypeOK
  <2>3. w.totalSupply = world.totalSupply /\ w.balanceOf = world.balanceOf
    BY <2>2 DEF Worlds
  <2> HIDE DEF w
  <2>4. Counted(w)
    BY <2>3 DEF Counted
  <2> QED
    BY <2>1, <2>4
<1>6. CASE NextBlock \/ UNCHANGED vars
  BY <1>6 DEF NextBlock, vars
<1>7. CASE Others
  BY <1>5, <1>6, <1>7, TransferCounts DEF Others
<1> QED
  BY <1>1, <1>2, <1>3, <1>4, <1>6, <1>7 DEF Next

(***************************************************************************)
(* In every state of a launch, what all accounts hold together is the      *)
(* supply of the token, also in the middle of a sell or a migration.  No   *)
(* account ever has more than the supply, so the sells Next chooses from   *)
(* are all there are, and burn cannot take the supply below zero.          *)
(***************************************************************************)
THEOREM SupplyIsHeld == Spec => [](Counted(world) /\ Counted(saved))
<1> DEFINE C == Counted(world) /\ Counted(saved)
<1>1. Init => C
  <2> SUFFICES ASSUME Init PROVE C
    OBVIOUS
  <2>1. /\ world.totalSupply = 0 /\ saved.totalSupply = 0
        /\ world.balanceOf = NoBalance /\ saved.balanceOf = NoBalance
    BY DEF Init, Launched
  <2>2. Coins(NoBalance) = {}
    BY DEF Coins, NoBalance
  <2>3. IsFiniteSet(Coins(NoBalance)) /\ Cardinality(Coins(NoBalance)) = 0
    BY <2>2, FS_EmptySet
  <2> QED
    BY <2>1, <2>3 DEF Counted
<1>2. IInv /\ C /\ [Next]_vars => C'
  BY NextCounts
<1> QED
  BY <1>1, <1>2, InvariantHolds, PTL DEF Spec

-----------------------------------------------------------------------------
(***************************************************************************)
(* EulrHook implements LaunchSpec.  A transaction that gives control away  *)
(* takes several steps, and only its last one is a step of LaunchSpec: the *)
(* invariant Pending says that what the callee sees is, already and        *)
(* whatever it does, one promised step away from the committed state.      *)
(***************************************************************************)
(* One promised step, from world s to world w.                             *)

SameStage(s, w) ==
    /\ w.selfDeprecated = s.selfDeprecated
    /\ w.liquidityMigrated = s.liquidityMigrated
    /\ w.venueOkb = s.venueOkb

SellOf(s, w) ==
    /\ SameStage(s, w)
    /\ w.okbCum <= s.okbCum
    /\ s.okbCum - w.okbCum <= Reserve(s)
    /\ w.claimableFeeOkb - s.claimableFeeOkb \in 0..(s.okbCum - w.okbCum)
    /\ w.totalSupply < s.totalSupply
    /\ w.donated >= s.donated
                      - (IF s.liquidityMigrated THEN s.okbCum - w.okbCum ELSE 0)

ClaimOf(s, w) ==
    /\ SameStage(s, w)
    /\ s.claimableFeeOkb > 0
    /\ w.claimableFeeOkb = 0
    /\ w.okbCum = s.okbCum
    /\ w.totalSupply = s.totalSupply
    /\ w.donated >= s.donated

MigrationOf(s, w) ==
    /\ s.selfDeprecated /\ ~s.liquidityMigrated /\ w.liquidityMigrated
    /\ w.venueOkb = Reserve(s)
    /\ w.okbCum = s.okbCum
    /\ w.claimableFeeOkb = s.claimableFeeOkb
    /\ w.totalSupply >= s.totalSupply

Pending ==
    /\ call = "sell"    => SellOf(saved, world)
    /\ call = "claim"   => ClaimOf(saved, world)
    /\ call = "migrate" => MigrationOf(saved, world)

-----------------------------------------------------------------------------
(* Committed states.                                                       *)

\* A state the chain can commit.
Final(w) == w \in Worlds /\ Good(w) /\ Settled(w)

(***************************************************************************)
(* The fields a promise is about are numbers, and the OKB of a committed   *)
(* state beyond its fees and its curve is what was donated.                *)
(***************************************************************************)
LEMMA FinalTypes ==
    ASSUME NEW w, Final(w)
    PROVE  /\ w.okbCum \in Nat /\ w.claimableFeeOkb \in Nat
           /\ w.balance \in Nat /\ w.donated \in Nat
           /\ w.totalSupply \in Nat /\ w.venueOkb \in Nat
           /\ w.selfDeprecated \in BOOLEAN /\ w.liquidityMigrated \in BOOLEAN
           /\ w.liquidityMigrated => w.selfDeprecated
           /\ w.balance - w.claimableFeeOkb
                = w.donated + (IF w.liquidityMigrated THEN 0 ELSE w.okbCum)
<1>1. w \in Worlds /\ Good(w) /\ Settled(w)
  BY DEF Final
<1>2. w.liquidityMigrated => w.selfDeprecated
  BY <1>1 DEF Settled
<1>3. w.balance - w.claimableFeeOkb
        = w.donated + (IF w.liquidityMigrated THEN 0 ELSE w.okbCum)
  BY <1>1 DEF Good, Backed, Reserve
<1> QED
  BY <1>1, <1>2, <1>3 DEF Worlds

-----------------------------------------------------------------------------
(* From one committed state to the next.                                   *)

(***************************************************************************)
(* A sell that is committed is a Sell of LaunchSpec.                       *)
(***************************************************************************)
LEMMA SellCommitted ==
    ASSUME Final(saved), Final(saved'), SellOf(saved, saved')
    PROVE  Launch!Sell
<1> DEFINE gross == saved.okbCum - saved'.okbCum
           fee   == saved'.claimableFeeOkb - saved.claimableFeeOkb
<1>1. UNCHANGED <<Phase(saved), saved.venueOkb>>
  BY DEF SellOf, SameStage, Phase
<1>2. /\ saved.okbCum \in Nat /\ saved.claimableFeeOkb \in Nat /\ saved.totalSupply \in Nat
      /\ saved.balance \in Nat /\ saved.donated \in Nat
      /\ saved'.okbCum \in Nat /\ saved'.claimableFeeOkb \in Nat
      /\ saved'.totalSupply \in Nat /\ saved'.balance \in Nat /\ saved'.donated \in Nat
  BY FinalTypes
<1>3. /\ saved.balance - saved.claimableFeeOkb
           = saved.donated + (IF saved.liquidityMigrated THEN 0 ELSE saved.okbCum)
      /\ saved'.balance - saved'.claimableFeeOkb
           = saved'.donated + (IF saved.liquidityMigrated THEN 0 ELSE saved'.okbCum)
  BY FinalTypes DEF SellOf, SameStage
<1>4. gross <= saved.balance - saved.claimableFeeOkb
  BY DEF SellOf, Reserve
<1>5. saved'.okbCum \in 0..saved.okbCum
  BY <1>2 DEF SellOf
<1>6. /\ saved'.claimableFeeOkb \in saved.claimableFeeOkb..(saved.claimableFeeOkb + gross)
      /\ saved'.totalSupply \in 0..(saved.totalSupply - 1)
  BY <1>2 DEF SellOf
<1>7. saved'.balance \in Launch!AtLeast(saved.balance - (gross - fee))
  <2>1. saved'.donated >= saved.donated - (IF saved.liquidityMigrated THEN gross ELSE 0)
    BY DEF SellOf
  <2>2. saved'.balance >= saved.balance - (gross - fee)
    BY <1>2, <1>3, <2>1
  <2> QED
    BY <1>2, <2>2 DEF Launch!AtLeast
<1> QED
  BY <1>1, <1>4, <1>5, <1>6, <1>7 DEF Launch!Sell

(***************************************************************************)
(* A claim that is committed is a ClaimFees.                               *)
(***************************************************************************)
LEMMA ClaimCommitted ==
    ASSUME Final(saved), Final(saved'), ClaimOf(saved, saved')
    PROVE  Launch!ClaimFees
<1>1. UNCHANGED <<Phase(saved), saved.okbCum, saved.totalSupply, saved.venueOkb>>
  BY DEF ClaimOf, SameStage, Phase
<1>2. saved'.balance \in Launch!AtLeast(saved.balance - saved.claimableFeeOkb)
  <2>1. saved'.balance >= saved.balance - saved.claimableFeeOkb
    BY FinalTypes DEF ClaimOf, SameStage
  <2> QED
    BY <2>1, FinalTypes DEF Launch!AtLeast
<1> QED
  BY <1>1, <1>2 DEF ClaimOf, Launch!ClaimFees

(***************************************************************************)
(* A migration that is committed, with a reserve, is a Migrate.            *)
(***************************************************************************)
LEMMA MigrationCommitted ==
    ASSUME Final(saved), Final(saved'), MigrationOf(saved, saved'),
           saved'.venueOkb > 0
    PROVE  Launch!Migrate
<1>1. Phase(saved) = "graduated" /\ Phase(saved') = "migrated"
  BY DEF MigrationOf, Phase
<1>2. saved'.venueOkb = saved.balance - saved.claimableFeeOkb
  BY DEF MigrationOf, Reserve
<1>3. saved.balance - saved.claimableFeeOkb > 0
  BY <1>2
<1>4. saved'.balance \in Launch!AtLeast(saved.balance - saved'.venueOkb)
  <2>1. saved'.balance >= saved'.claimableFeeOkb
    BY FinalTypes DEF MigrationOf
  <2>2. saved'.balance >= saved.balance - saved'.venueOkb
    BY <1>2, <2>1, FinalTypes DEF MigrationOf
  <2> QED
    BY <2>2, FinalTypes DEF Launch!AtLeast
<1>5. saved'.totalSupply \in Launch!AtLeast(saved.totalSupply)
  BY FinalTypes DEF MigrationOf, Launch!AtLeast
<1>6. UNCHANGED <<saved.okbCum, saved.claimableFeeOkb>>
  BY DEF MigrationOf
<1> QED
  BY <1>1, <1>2, <1>3, <1>4, <1>5, <1>6 DEF Launch!Migrate

(***************************************************************************)
(* A step that leaves what LaunchSpec shows of the committed state alone.  *)
(***************************************************************************)
Shown(w) ==
    <<w.selfDeprecated, w.liquidityMigrated, w.okbCum, w.claimableFeeOkb, w.balance,
      w.totalSupply, w.venueOkb>>

LEMMA Unseen ==
    ASSUME Shown(saved') = Shown(saved)
    PROVE  UNCHANGED Launch!launch
BY DEF Shown, Launch!launch, Phase

-----------------------------------------------------------------------------
(* Every step keeps Pending and is a promised step or none.                *)

Promised == Pending' /\ [Launch!Next]_Launch!launch

(***************************************************************************)
(* The committed state stays, and nobody is being called afterwards.       *)
(***************************************************************************)
LEMMA NothingCommitted ==
    ASSUME call' = "none", Shown(saved') = Shown(saved)
    PROVE  Promised
<1>1. Pending'
  BY DEF Pending
<1> QED
  BY <1>1, Unseen DEF Promised

(***************************************************************************)
(* Between transactions the committed state is the hook's.                 *)
(***************************************************************************)
LEMMA IdleIsFinal ==
    ASSUME IInv
    PROVE  /\ Final(saved)
           /\ NotEntered => world = saved /\ call = "none" /\ Final(world)
<1>1. Final(saved)
  BY DEF IInv, TypeOK, Final
<1> QED
  BY <1>1 DEF IInv, NotEntered

(***************************************************************************)
(* A buy is a Buy.                                                         *)
(***************************************************************************)
LEMMA BuyPromised ==
    ASSUME IInv, IInv', NEW payer \in Users, NEW recipient \in Users \union {Hook},
           NEW value \in BuyAmounts, NEW min, Buy(payer, recipient, value, min)
    PROVE  Promised
<1> DEFINE w == Bought(world, payer, recipient, value)
           q == quoteBuy(world.okbCum, value)
<1>1. /\ NotEntered /\ ~world.selfDeprecated
      /\ BuyQuotable(world.okbCum, value)
      /\ saved' = w /\ call' = call
  BY DEF Buy, MayBuy, BuysOpen, Commit
<1>2. world = saved /\ call = "none" /\ Final(saved) /\ Final(saved') /\ saved \in Worlds
  BY <1>1, IdleIsFinal DEF IInv, TypeOK, Final
<1>3. /\ payer \in Accounts /\ recipient \in Accounts /\ value \in Nat /\ block \in Nat
  BY AmountsAssumption DEF Accounts, IInv, TypeOK
<1>4. /\ HasBooks(saved', saved, q.newOkbCum, saved.claimableFeeOkb + q.fee,
                  saved.taxBurnedTokens + q.burnTaxTokens,
                  saved.selfDeprecated \/ isSelfDeprecated(q.newOkbCum),
                  saved.balance + value)
      /\ saved'.totalSupply = saved.totalSupply + q.tokensOut
  BY <1>1, <1>2, <1>3, BoughtWorld
<1>5. saved.okbCum \in Nat /\ saved.claimableFeeOkb \in Nat /\ saved.totalSupply \in Nat
  BY <1>2, FinalTypes
<1>6. q.fee \in 0..value /\ saved.okbCum <= q.newOkbCum /\ q.tokensOut \in Nat
  BY <1>1, <1>2, <1>3, <1>5, BuyQuoteConserves
<1> HIDE DEF w, q
<1>7. ~saved.selfDeprecated /\ ~saved.liquidityMigrated /\ ~saved'.liquidityMigrated
  BY <1>1, <1>2, <1>4, FinalTypes DEF HasBooks
<1>8. Phase(saved) = "trading" /\ Phase(saved') \in {"trading", "graduated"}
  BY <1>7 DEF Phase
<1>9. saved'.balance = saved.balance + (saved'.okbCum - saved.okbCum)
                                     + (saved'.claimableFeeOkb - saved.claimableFeeOkb)
  <2>1. saved'.donated = saved.donated
    BY <1>4 DEF HasBooks
  <2> QED
    BY <1>2, <1>7, <2>1, FinalTypes
<1>10. /\ saved'.okbCum \in Launch!AtLeast(saved.okbCum)
       /\ saved'.claimableFeeOkb \in Launch!AtLeast(saved.claimableFeeOkb)
       /\ saved'.totalSupply \in Launch!AtLeast(saved.totalSupply)
       /\ saved'.venueOkb = saved.venueOkb
  <2>1. /\ saved'.okbCum = q.newOkbCum
        /\ saved'.claimableFeeOkb = saved.claimableFeeOkb + q.fee
        /\ saved'.venueOkb = saved.venueOkb
    BY <1>4 DEF HasBooks
  <2>2. saved'.okbCum \in Nat /\ q.fee \in Nat
    BY <1>2, <1>3, <1>6, FinalTypes
  <2> QED
    BY <1>4, <1>5, <1>6, <2>1, <2>2 DEF Launch!AtLeast
<1>11. Launch!Buy
  BY <1>8, <1>9, <1>10 DEF Launch!Buy
<1>12. Pending'
  BY <1>1, <1>2 DEF Pending
<1> QED
  BY <1>11, <1>12 DEF Promised, Launch!Next

(***************************************************************************)
(* A sale that was paid is a promised sell, whoever the recipient is.      *)
(***************************************************************************)
LEMMA PaidSaleIsSell ==
    ASSUME NEW w \in Worlds, NEW seller \in Users, NEW tokensIn \in Nat,
           tokensIn <= w.totalSupply, tokensIn <= w.balanceOf[seller],
           SellQuotable(w.okbCum, tokensIn),
           quoteSell(w.okbCum, tokensIn).grossOkbOut <= Reserve(w),
           w.liquidityMigrated => quoteSell(w.okbCum, tokensIn).grossOkbOut <= w.donated,
           NEW v \in Worlds,
           Paid(v, Sold(w, seller, tokensIn), quoteSell(w.okbCum, tokensIn).netOkbOut)
    PROVE  SellOf(w, v)
<1> DEFINE q == quoteSell(w.okbCum, tokensIn)
           u == Sold(w, seller, tokensIn)
           fee == q.fee
           new == q.newOkbCum
           gross == q.grossOkbOut
           net == q.netOkbOut
           donated == IF w.liquidityMigrated THEN w.donated - gross ELSE w.donated
<1>1. /\ HasSale(u, w, new, w.claimableFeeOkb + fee,
                 w.taxBurnedTokens + q.burnTaxTokens, donated)
      /\ u.totalSupply = w.totalSupply - tokensIn
  BY SoldWorld
<1>2. /\ w.okbCum \in Nat /\ w.claimableFeeOkb \in Nat /\ w.totalSupply \in Nat
      /\ w.donated \in Nat /\ v.donated \in Nat
  BY DEF Worlds
<1>3. /\ new \in Nat /\ gross \in Nat /\ fee \in 0..gross /\ new + gross = w.okbCum
  BY <1>2, SellQuoteConserves
<1>4. Paid(v, u, net) /\ tokensIn > 0
  BY DEF SellQuotable
<1> HIDE DEF q, u, fee, new, gross, net
<1>5. /\ v.okbCum = new
      /\ v.claimableFeeOkb = w.claimableFeeOkb + fee
      /\ v.totalSupply = w.totalSupply - tokensIn
      /\ v.donated >= donated
  BY <1>1, <1>4 DEF HasSale, Paid
<1>6. SameStage(w, v)
  BY <1>1, <1>4 DEF HasSale, Paid, SameStage
<1>7. /\ w.okbCum - v.okbCum = gross /\ v.okbCum <= w.okbCum
      /\ gross <= Reserve(w)
  BY <1>2, <1>3, <1>5 DEF gross, q
<1>8. v.claimableFeeOkb - w.claimableFeeOkb \in 0..(w.okbCum - v.okbCum)
  BY <1>2, <1>3, <1>5, <1>7
<1>9. v.totalSupply < w.totalSupply
  BY <1>2, <1>4, <1>5
<1>10. v.donated >= w.donated - (IF w.liquidityMigrated THEN w.okbCum - v.okbCum ELSE 0)
  BY <1>2, <1>5, <1>7
<1> QED
  BY <1>6, <1>7, <1>8, <1>9, <1>10 DEF SellOf

(***************************************************************************)
(* A sell that pays nothing is committed at once, any other is pending     *)
(* while its recipient runs.                                               *)
(***************************************************************************)
LEMMA SellPromised ==
    ASSUME IInv, IInv', NEW seller \in Users, NEW recipient \in Users \union {Hook},
           NEW tokensIn \in 0..world.totalSupply, NEW min,
           Sell(seller, recipient, tokensIn, min)
    PROVE  Promised
<1> DEFINE q == quoteSell(world.okbCum, tokensIn)
           net == q.netOkbOut
           gross == q.grossOkbOut
           sold == Sold(world, seller, tokensIn)
           paid == sendValue(sold, recipient, net)
<1>1. /\ NotEntered /\ tokensIn <= world.balanceOf[seller]
      /\ SellQuotable(world.okbCum, tokensIn)
      /\ \/ net = 0 /\ Commit(sold)
         \/ net > 0 /\ CallOut("sell", paid)
  BY DEF Sell, MaySell
<1>2. world = saved /\ call = "none" /\ Final(saved) /\ world \in Worlds /\ Good(world)
  BY <1>1, IdleIsFinal DEF Final
<1>3. /\ tokensIn \in Nat /\ tokensIn <= world.totalSupply
      /\ world.okbCum \in Nat /\ world.balance \in Nat /\ world.claimableFeeOkb \in Nat
      /\ world.donated \in Nat
  BY <1>2 DEF Worlds
<1>4. gross \in Nat /\ q.fee \in Nat /\ net \in Nat /\ net + q.fee = gross
  BY <1>1, <1>3, SellQuoteConserves
<1>5. gross <= world.balance - world.claimableFeeOkb
  <2>1. Reserve(world) \in Int
    BY <1>3 DEF Reserve
  <2> QED
    BY <1>4, <2>1 DEF Sell, MaySell, ReserveSuffices, Reserve
<1>5a. gross <= Reserve(world)
  BY <1>5 DEF Reserve
<1>6. world.liquidityMigrated => gross <= world.donated
  <2>1. world.liquidityMigrated => world.balance - world.claimableFeeOkb = world.donated
    BY <1>2, <1>3 DEF Good, Backed, Reserve
  <2> HIDE DEF gross
  <2> QED
    BY <1>3, <1>4, <1>5, <2>1
<1>7. sold \in Worlds /\ sold.balance = world.balance
  <2> DEFINE donated == IF world.liquidityMigrated THEN world.donated - gross
                                                   ELSE world.donated
  <2>1. /\ sold \in Worlds
        /\ HasSale(sold, world, q.newOkbCum, world.claimableFeeOkb + q.fee,
                   world.taxBurnedTokens + q.burnTaxTokens, donated)
    BY <1>1, <1>2, <1>3, <1>6, SoldWorld
  <2> HIDE DEF sold, donated
  <2> QED
    BY <2>1 DEF HasSale
<1>8. ASSUME NEW v \in Worlds, Paid(v, sold, net)
      PROVE  SellOf(saved, v)
  BY <1>1, <1>2, <1>3, <1>5a, <1>6, <1>8, PaidSaleIsSell
<1> HIDE DEF q, net, gross, sold
<1>9. CASE net = 0 /\ Commit(sold)
  <2>1. Paid(sold, sold, net)
    <3>1. sold.balance \in Nat /\ sold.donated \in Nat
      BY <1>7 DEF Worlds
    <3> QED
      BY <1>9, <3>1 DEF Paid
  <2>2. saved' = sold /\ call' = "none"
    BY <1>2, <1>9 DEF Commit
  <2>3. SellOf(saved, saved')
    BY <1>7, <1>8, <2>1, <2>2
  <2>4. Final(saved')
    BY DEF IInv, TypeOK, Final
  <2>5. Launch!Sell
    BY <1>2, <2>3, <2>4, SellCommitted
  <2> QED
    BY <2>2, <2>5 DEF Promised, Pending, Launch!Next
<1>10. CASE net > 0 /\ CallOut("sell", paid)
  <2>1. net <= sold.balance
    BY <1>3, <1>4, <1>5, <1>7
  <2>2. paid \in Worlds /\ Paid(paid, sold, net)
    BY <1>4, <1>7, <2>1, PaidWorld
  <2>3. SellOf(saved, paid)
    BY <1>8, <2>2
  <2> HIDE DEF paid
  <2>4. world' = paid /\ saved' = saved /\ call' = "sell"
    BY <1>10 DEF CallOut
  <2>5. Pending'
    BY <2>3, <2>4 DEF Pending
  <2>6. UNCHANGED Launch!launch
    BY <2>4, Unseen DEF Shown
  <2> QED
    BY <2>5, <2>6 DEF Promised
<1> QED
  BY <1>1, <1>9, <1>10

(***************************************************************************)
(* A claim is pending while its recipient runs.                            *)
(***************************************************************************)
LEMMA ClaimFeesPromised ==
    ASSUME IInv, NEW recipient, ClaimFees(recipient)
    PROVE  Promised
<1> DEFINE amount == world.claimableFeeOkb
           w == [world EXCEPT !.claimableFeeOkb = 0]
           v == sendValue(w, recipient, amount)
<1>1. NotEntered /\ world.balance >= amount /\ amount > 0 /\ CallOut("claim", v)
  BY DEF ClaimFees, MayClaim
<1>2. world = saved /\ world \in Worlds
  BY <1>1, IdleIsFinal DEF Final
<1>3. amount \in Nat /\ world.balance \in Nat
  BY <1>2 DEF Worlds
<1>4. /\ w \in Worlds
      /\ w.claimableFeeOkb = 0
      /\ w.balance = world.balance
      /\ w.donated = world.donated
      /\ w.okbCum = world.okbCum
      /\ w.totalSupply = world.totalSupply
      /\ SameStage(world, w)
  BY <1>2 DEF Worlds, SameStage
<1> HIDE DEF w
<1>5. Paid(v, w, amount)
  BY <1>1, <1>3, <1>4, PaidWorld
<1> HIDE DEF v
<1>6. ClaimOf(saved, v)
  BY <1>1, <1>2, <1>4, <1>5 DEF Paid, ClaimOf, SameStage
<1>7. world' = v /\ saved' = saved /\ call' = "claim"
  BY <1>1 DEF CallOut
<1>8. Pending'
  BY <1>6, <1>7 DEF Pending
<1>9. UNCHANGED Launch!launch
  BY <1>7, Unseen DEF Shown
<1> QED
  BY <1>8, <1>9 DEF Promised

(***************************************************************************)
(* A migration is pending while its target runs.                           *)
(***************************************************************************)
LEMMA MigrateLiquidityPromised ==
    ASSUME IInv, MigrateLiquidity
    PROVE  Promised
<1> DEFINE w == HandedOver(world)
           n == MigrationTokens(world)
<1>1. /\ NotEntered /\ MayMigrate(world)
      /\ world.claimableFeeOkb <= world.balance
      /\ world' = w /\ saved' = saved /\ call' = "migrate"
  <2>1. world \in Worlds
    BY DEF IInv, TypeOK
  <2>2. world.claimableFeeOkb \in Nat /\ world.balance \in Nat
    BY <2>1 DEF Worlds
  <2> QED
    BY <2>2 DEF MigrateLiquidity, CallOut
<1>2. world = saved /\ world \in Worlds
  BY <1>1, IdleIsFinal DEF Final
<1>3. Handed(w, world, n)
  BY <1>1, <1>2, HandedWorld
<1>4. n \in Nat /\ world.totalSupply \in Nat
  BY <1>2, MigrationTokensBound DEF Worlds
<1> HIDE DEF w, n
<1>5. MigrationOf(saved, w)
  BY <1>1, <1>2, <1>3, <1>4 DEF Handed, MigrationOf, MayMigrate
<1>6. Pending'
  BY <1>1, <1>5 DEF Pending
<1>7. UNCHANGED Launch!launch
  BY <1>1, Unseen DEF Shown
<1> QED
  BY <1>6, <1>7 DEF Promised

(***************************************************************************)
(* The recipient of a sell or of the fees returned: what was pending is    *)
(* committed.                                                              *)
(***************************************************************************)
LEMMA ReturnsPromised ==
    ASSUME IInv, IInv', Pending, SellReturns \/ ClaimReturns
    PROVE  Promised
<1>1. saved' = world /\ call' = "none"
  BY DEF SellReturns, ClaimReturns, Finish
<1>2. Final(saved) /\ Final(saved')
  BY DEF IInv, TypeOK, Final
<1>3. Pending'
  BY <1>1 DEF Pending
<1>4. CASE SellReturns
  <2>1. SellOf(saved, saved')
    BY <1>1, <1>4 DEF SellReturns, Pending
  <2> QED
    BY <1>2, <1>3, <2>1, SellCommitted DEF Promised, Launch!Next
<1>5. CASE ClaimReturns
  <2>1. ClaimOf(saved, saved')
    BY <1>1, <1>5 DEF ClaimReturns, Pending
  <2> QED
    BY <1>2, <1>3, <2>1, ClaimCommitted DEF Promised, Launch!Next
<1> QED
  BY <1>4, <1>5

(***************************************************************************)
(* The target returned: a valid result is a Migrate, any other is nothing. *)
(***************************************************************************)
LEMMA MigrationReturnsPromised ==
    ASSUME IInv, IInv', Pending, NEW pool \in BOOLEAN, NEW liquidity \in 0..1,
           MigrationReturns(pool, liquidity)
    PROVE  Promised
<1>1. CASE ~ValidResult(pool, liquidity)
  BY <1>1, NothingCommitted DEF MigrationReturns, Rollback, Shown
<1>2. CASE ValidResult(pool, liquidity)
  <2> DEFINE w == [world EXCEPT !.venueLiquidity = liquidity]
  <2>1. /\ call = "migrate" /\ world.venueOkb > 0
        /\ saved' = w /\ call' = "none"
    BY <1>2 DEF MigrationReturns, TargetAccepts, Finish
  <2>2. MigrationOf(saved, world) /\ world \in Worlds
    BY <2>1 DEF Pending, IInv, TypeOK
  <2>3. /\ w.liquidityMigrated = world.liquidityMigrated
        /\ w.venueOkb = world.venueOkb
        /\ w.okbCum = world.okbCum
        /\ w.claimableFeeOkb = world.claimableFeeOkb
        /\ w.totalSupply = world.totalSupply
    BY <2>2 DEF Worlds
  <2> HIDE DEF w
  <2>4. MigrationOf(saved, saved') /\ saved'.venueOkb > 0
    BY <2>1, <2>2, <2>3 DEF MigrationOf
  <2>5. Final(saved) /\ Final(saved')
    BY DEF IInv, TypeOK, Final
  <2>6. Launch!Migrate
    BY <2>4, <2>5, MigrationCommitted
  <2>7. Pending'
    BY <2>1 DEF Pending
  <2> QED
    BY <2>6, <2>7 DEF Promised, Launch!Next
<1> QED
  BY <1>1, <1>2

(***************************************************************************)
(* What is pending stays so when the callee makes the hook's surplus grow, *)
(* or touches none of the books.                                           *)
(***************************************************************************)
SameShown(v, w) ==
    /\ SameStage(v, w)
    /\ v.okbCum = w.okbCum
    /\ v.claimableFeeOkb = w.claimableFeeOkb
    /\ v.totalSupply = w.totalSupply

LEMMA StillPending ==
    ASSUME IInv, Pending, ~NotEntered, NEW w \in Worlds, Elsewhere(w),
           SameShown(world, w), w.donated >= world.donated
    PROVE  Promised
<1>1. world' = w /\ saved' = saved /\ call' = call
  BY DEF Elsewhere
<1>2. /\ world.donated \in Nat /\ w.donated \in Nat /\ saved.donated \in Nat
      /\ world.okbCum \in Nat /\ saved.okbCum \in Nat
  BY DEF IInv, TypeOK, Worlds
<1>3. call = "sell" => SellOf(saved, w)
  BY <1>2 DEF Pending, SellOf, SameShown, SameStage
<1>4. call = "claim" => ClaimOf(saved, w)
  BY <1>2 DEF Pending, ClaimOf, SameShown, SameStage
<1>5. call = "migrate" => MigrationOf(saved, w)
  BY DEF Pending, MigrationOf, SameShown, SameStage
<1>6. Pending'
  BY <1>1, <1>3, <1>4, <1>5 DEF Pending
<1>7. UNCHANGED Launch!launch
  BY <1>1, Unseen DEF Shown
<1> QED
  BY <1>6, <1>7 DEF Promised

(***************************************************************************)
(* OKB sent to an idle hook is a Receive.                                  *)
(***************************************************************************)
LEMMA DonatePromised ==
    ASSUME IInv, IInv', Pending, NEW amount \in DonationAmounts, Donate(amount)
    PROVE  Promised
<1> DEFINE b == world.balance + amount
           d == world.donated + amount
           w == [world EXCEPT !.balance = b, !.donated = d]
<1>1. world \in Worlds /\ amount \in Nat
  BY AmountsAssumption DEF IInv, TypeOK
<1>2. b \in Nat /\ d \in Nat /\ world.balance \in Nat /\ world.donated \in Nat
  BY <1>1 DEF Worlds
<1>3. Elsewhere(w)
  BY <1>1 DEF Donate, Worlds
<1>4. d >= world.donated /\ (d > world.donated \/ b = world.balance)
  BY <1>1, <1>2
<1> HIDE DEF b, d
<1>5. w \in Worlds
  BY <1>1, <1>2 DEF Worlds
<1>6. SameShown(world, w) /\ w.balance = b /\ w.donated = d
  BY <1>1 DEF Worlds, SameShown, SameStage
<1> HIDE DEF w
<1>7. CASE ~NotEntered
  BY <1>3, <1>4, <1>5, <1>6, <1>7, StillPending
<1>8. CASE NotEntered
  <2>1. saved' = w /\ world = saved /\ call' = "none"
    BY <1>3, <1>8, IdleIsFinal DEF Elsewhere
  <2>2. Pending'
    BY <2>1 DEF Pending
  <2>3. CASE b = world.balance
    BY <1>6, <2>1, <2>3, NothingCommitted DEF Shown, SameShown, SameStage
  <2>4. CASE d > world.donated
    <3>1. saved'.balance \in Launch!AtLeast(saved.balance + 1)
      <4>1. Final(saved) /\ Final(saved')
        BY DEF IInv, TypeOK, Final
      <4>2. saved'.balance > saved.balance
        BY <1>6, <2>1, <2>4, <4>1, FinalTypes DEF SameShown, SameStage
      <4> QED
        BY <4>1, <4>2, FinalTypes DEF Launch!AtLeast
    <3>2. Phase(saved') = Phase(saved)
      BY <1>6, <2>1 DEF Phase, SameShown, SameStage
    <3>3. UNCHANGED <<Phase(saved), saved.okbCum, saved.claimableFeeOkb,
                      saved.totalSupply, saved.venueOkb>>
      BY <1>6, <2>1, <3>2 DEF SameShown, SameStage
    <3>4. Launch!Receive
      BY <3>1, <3>3 DEF Launch!Receive
    <3> QED
      BY <2>2, <3>4 DEF Promised, Launch!Next
  <2> QED
    BY <1>4, <2>3, <2>4
<1> QED
  BY <1>7, <1>8

(***************************************************************************)
(* Transfers of tokens are nobody's promise.                               *)
(***************************************************************************)
LEMMA TransferTokensPromised ==
    ASSUME IInv, Pending, NEW from \in Users \union {Target}, NEW to \in Accounts,
           NEW amount \in TransferAmounts, TransferTokens(from, to, amount)
    PROVE  Promised
<1> DEFINE w == transfer(world, from, to, amount)
<1>1. world \in Worlds /\ amount \in Nat /\ from \in Accounts
  BY AmountsAssumption DEF IInv, TypeOK, Accounts
<1>2. amount <= world.balanceOf[from] /\ Elsewhere(w)
  BY DEF TransferTokens
<1>3. w \in Worlds /\ SameButLedger(w, world) /\ w.totalSupply = world.totalSupply
  BY <1>1, <1>2, TransferWorld
<1> HIDE DEF w
<1>4. SameShown(world, w) /\ w.donated = world.donated /\ w.balance = world.balance
  BY <1>3 DEF SameButLedger, SameShown, SameStage
<1>5. w.donated >= world.donated
  BY <1>1, <1>4 DEF Worlds
<1>6. CASE ~NotEntered
  BY <1>2, <1>3, <1>4, <1>5, <1>6, StillPending
<1>7. CASE NotEntered
  <2>1. saved' = w /\ world = saved /\ call' = "none"
    BY <1>2, <1>7, IdleIsFinal DEF Elsewhere
  <2> QED
    BY <1>4, <2>1, NothingCommitted DEF Shown, SameShown, SameStage
<1> QED
  BY <1>6, <1>7

-----------------------------------------------------------------------------
(* The refinement.                                                         *)

(***************************************************************************)
(* Every step of the hook keeps what is pending and is a step of           *)
(* LaunchSpec or none.                                                     *)
(***************************************************************************)
LEMMA NextPromised ==
    ASSUME IInv, IInv', Pending, [Next]_vars
    PROVE  Promised
<1>1. CASE Trade
  <2>1. ASSUME NEW payer \in Users, NEW recipient \in Users \union {Hook},
               NEW value \in BuyAmounts, NEW min \in MinAmounts,
               Buy(payer, recipient, value, min)
        PROVE  Promised
    BY <2>1, BuyPromised
  <2>2. ASSUME NEW seller \in Users, NEW recipient \in Users \union {Hook},
               NEW tokensIn \in 0..world.totalSupply, NEW min \in MinAmounts,
               Sell(seller, recipient, tokensIn, min)
        PROVE  Promised
    BY <2>2, SellPromised
  <2> QED
    BY <1>1, <2>1, <2>2 DEF Trade
<1>2. CASE Claim
  BY <1>2, ClaimFeesPromised DEF Claim
<1>3. CASE MigrateLiquidity
  BY <1>3, MigrateLiquidityPromised
<1>4. CASE Callee
  <2>1. CASE SellReturns \/ ClaimReturns
    BY <2>1, ReturnsPromised
  <2>2. CASE \E pool \in BOOLEAN, liquidity \in 0..1 : MigrationReturns(pool, liquidity)
    BY <2>2, MigrationReturnsPromised
  <2>3. CASE CalleeReverts
    BY <2>3, NothingCommitted DEF CalleeReverts, Rollback, Shown
  <2> QED
    BY <1>4, <2>1, <2>2, <2>3 DEF Callee
<1>5. CASE Others
  <2>1. CASE \E amount \in DonationAmounts : Donate(amount)
    BY <2>1, DonatePromised
  <2>2. CASE \E from \in Users \union {Target}, to \in Accounts, amount \in TransferAmounts :
                from # to /\ TransferTokens(from, to, amount)
    BY <2>2, TransferTokensPromised
  <2>3. CASE NextBlock
    BY <2>3, NothingCommitted DEF NextBlock, NotEntered, Shown
  <2> QED
    BY <1>5, <2>1, <2>2, <2>3 DEF Others
<1>6. CASE UNCHANGED vars
  <2>1. world' = world /\ saved' = saved /\ call' = call
    BY <1>6 DEF vars
  <2>2. Pending'
    BY <2>1 DEF Pending
  <2>3. UNCHANGED Launch!launch
    BY <2>1, Unseen DEF Shown
  <2> QED
    BY <2>2, <2>3 DEF Promised
<1> QED
  BY <1>1, <1>2, <1>3, <1>4, <1>5, <1>6 DEF Next

(***************************************************************************)
(* Every launch, whatever its parameters and whoever its callees are,      *)
(* behaves as LaunchSpec promises (EulrHook.buy, sell, claimFees,          *)
(* migrateLiquidity and receive).                                          *)
(***************************************************************************)
THEOREM HookImplementsLaunch == Spec => LaunchImplemented
<1>1. Init => Launch!Init
  BY DEF Init, Launched, Launch!Init, Phase
<1>2. Init => Pending
  BY DEF Init, Pending
<1>3. IInv /\ IInv' /\ Pending /\ [Next]_vars => Pending' /\ [Launch!Next]_Launch!launch
  BY NextPromised DEF Promised
<1> QED
  BY <1>1, <1>2, <1>3, InvariantHolds, PTL DEF Spec, LaunchImplemented, Launch!Spec

(***************************************************************************)
(* What keeps those promises, whatever else it does, always holds the fees *)
(* it owes and, until the migration, the OKB of its curve (EulrHook.buy,   *)
(* sell, claimFees, migrateLiquidity, receive).  No promise says so: a     *)
(* sell pays what leaves the curve less the fee, and only from what is     *)
(* beyond the fees; a claim and a migration pay the one and leave the      *)
(* other.                                                                  *)
(***************************************************************************)
THEOREM StaysSolvent == Launch!Spec => [](Launch!TypeOK /\ Launch!Solvent)
<1> DEFINE SInv == Launch!TypeOK /\ Launch!Solvent
<1>1. Launch!Init => SInv
  BY DEF Launch!Init, Launch!TypeOK, Launch!Solvent, Launch!Principal
<1>2. SInv /\ [Launch!Next]_Launch!launch => SInv'
  <2> SUFFICES ASSUME SInv, [Launch!Next]_Launch!launch
               PROVE  SInv'
    OBVIOUS
  <2>1. CASE UNCHANGED Launch!launch
    BY <2>1 DEF Launch!launch, Launch!TypeOK, Launch!Solvent, Launch!Principal
  <2>2. CASE Launch!Buy
    <3>1. Launch!TypeOK'
      BY <2>2 DEF Launch!Buy, Launch!AtLeast, Launch!TypeOK
    <3>2. Launch!Solvent'
      BY <2>2, <3>1
         DEF Launch!Buy, Launch!AtLeast, Launch!TypeOK, Launch!Solvent, Launch!Principal
    <3> QED
      BY <3>1, <3>2
  <2>3. CASE Launch!Sell
    <3>1. Launch!TypeOK'
      BY <2>3 DEF Launch!Sell, Launch!AtLeast, Launch!TypeOK
    <3>2. Launch!Solvent'
      BY <2>3, <3>1
         DEF Launch!Sell, Launch!AtLeast, Launch!TypeOK, Launch!Solvent, Launch!Principal
    <3> QED
      BY <3>1, <3>2
  <2>4. CASE Launch!ClaimFees
    <3>1. Launch!TypeOK'
      BY <2>4 DEF Launch!ClaimFees, Launch!AtLeast, Launch!TypeOK, Launch!Solvent,
                  Launch!Principal
    <3>2. Launch!Solvent'
      BY <2>4, <3>1
         DEF Launch!ClaimFees, Launch!AtLeast, Launch!TypeOK, Launch!Solvent, Launch!Principal
    <3> QED
      BY <3>1, <3>2
  <2>5. CASE Launch!Receive
    <3>1. Launch!TypeOK'
      BY <2>5 DEF Launch!Receive, Launch!AtLeast, Launch!TypeOK
    <3>2. Launch!Solvent'
      BY <2>5, <3>1
         DEF Launch!Receive, Launch!AtLeast, Launch!TypeOK, Launch!Solvent, Launch!Principal
    <3> QED
      BY <3>1, <3>2
  <2>6. CASE Launch!Migrate
    <3>1. Launch!TypeOK'
      BY <2>6 DEF Launch!Migrate, Launch!AtLeast, Launch!TypeOK
    <3>2. Launch!Solvent'
      BY <2>6, <3>1
         DEF Launch!Migrate, Launch!AtLeast, Launch!TypeOK, Launch!Solvent, Launch!Principal
    <3> QED
      BY <3>1, <3>2
  <2> QED
    BY <2>1, <2>2, <2>3, <2>4, <2>5, <2>6 DEF Launch!Next
<1> QED
  BY <1>1, <1>2, PTL DEF Launch!Spec

(***************************************************************************)
(* So every launch can pay: what it has committed covers its fees and, to  *)
(* the migration, its curve, whatever its callees do meanwhile             *)
(* (EulrHook.buy, sell, claimFees, migrateLiquidity, receive).             *)
(***************************************************************************)
THEOREM LaunchStaysSolvent == Spec => []Launch!Solvent
<1>1. Launch!Spec => []Launch!Solvent
  BY StaysSolvent, PTL
<1> QED
  BY <1>1, HookImplementsLaunch, PTL DEF LaunchImplemented

=============================================================================
