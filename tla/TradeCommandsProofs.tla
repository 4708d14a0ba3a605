------------------------ MODULE TradeCommandsProofs ------------------------
(***************************************************************************)
(* The commands that trade, proved for every number of accounts, commands  *)
(* and blocks and every choice of amounts.  What a command has been told   *)
(* stays true until somebody else's transaction comes in, and then the     *)
(* command is marked as moved: Current says so of every command, and is    *)
(* what the properties of the outcomes rest on.                            *)
(***************************************************************************)
EXTENDS TradeCommands, EulrHookProofs, SequenceTheorems, WellFoundedInduction

-----------------------------------------------------------------------------
(* The inductive invariant.                                                *)

\* The launch, which these commands never migrate.
ChainOK ==
    /\ IInv
    /\ Counted(world) /\ Counted(saved)
    /\ call \in {"none", "sell", "claim"}
    /\ ~world.liquidityMigrated
    /\ \A a \in Accounts : world.lastBuyBlock[a] <= block

Types ==
    /\ network \in Networks /\ endpoint \in Endpoints /\ hookImplementation \in BOOLEAN
    /\ created \in BOOLEAN /\ recorded \in CurveParams
    /\ wallet \in [Users -> Nat]
    /\ allowance \in [Users -> Nat]
    /\ command \in [Users -> Commands]
    /\ outcome \in [Users -> Outcomes]
    /\ smoke \in Scripts
    /\ left \in 0..MaxCommands

\* The steps of each kind of command, and the transaction it is about to send.
Shaped(c) ==
    /\ c.kind = "none" => c = NoCommand
    /\ c.kind = "create" => c.tx = "create" /\ c.step \in {"ready", "sent"}
    /\ c.kind = "buy" => c.tx = "buy" /\ c.step \in {"ready", "sent"}
    /\ c.kind = "sell" => c.tx = "sell" /\ c.step \in {"approve", "ready", "sent"}
    /\ c.kind = "claim" => c.tx = "claim" /\ c.step \in {"ready", "sent"}
    /\ c.kind = "graduate" => c.tx = "buy" /\ c.step \in {"check", "ready", "sent"}
    /\ c.kind = "inspect" => c.tx = "buy" /\ c.step = "read"
    /\ c.kind = "smoke" =>
          /\ c.minOut = 0
          /\ \/ c.tx = "buy" /\ c.step \in {"ready", "sent", "wait"}
             \/ c.tx = "sell" /\ c.step \in {"approve", "ready", "sent"}

\* A sell that is past its approval has it: nobody else spends it.
Approved(u, c) ==
    c.tx = "sell" /\ c.step \in {"ready", "sent"} => c.amount <= allowance[u]

\* The command quoted with the contract's parameters and took its floor from that.
AsMirrored(c) ==
    /\ MirrorQuotable(OnChain, 0, c.amount)
    /\ c.promised = quoteBuyAtOkbCum(OnChain, 0, c.amount).tokensOut
    /\ c.minOut <= c.promised

\* A creation runs with the owner's key, before there is a launch.
Floored(u, c) ==
    c.kind = "create" =>
        /\ u = Owner /\ ~created
        /\ c.step = "sent" => c.amount <= wallet[u]
        /\ c.given \/ c.stale \/ AsMirrored(c)

\* As long as nobody else's transaction came in, what the command knows is true.
Current(u, c) ==
    c.kind # "none" /\ ~c.moved =>
        /\ NotEntered
        /\ c.step = "sent" => Value(c) <= wallet[u] /\ Accepted(u, c)
        /\ c.kind \in {"buy", "sell", "claim"} => Payout(c) = c.promised
        /\ c.kind = "smoke" /\ c.step = "wait" => world.lastBuyBlock[u] <= c.since
        /\ c.kind = "smoke" /\ c.tx = "sell" => world.lastBuyBlock[u] < block
        /\ c.kind = "inspect" => \A f \in Fields : c.seen[f] \in {Unread, Answer(f)}

\* The smoke script's accounts trade while it runs their chunk.
Chunked(u, c) == c.kind = "smoke" => smoke.step = "running" /\ InChunk(u)

CommandOK(u, c) ==
    Shaped(c) /\ Approved(u, c) /\ Floored(u, c) /\ Current(u, c) /\ Chunked(u, c)

\* Until the launch is created, its owner may be at it and nothing else happens.
Fresh ==
    ~created =>
        /\ world.okbCum = 0 /\ ~world.selfDeprecated /\ NotEntered
        /\ smoke.step = "off"
        /\ \A u \in Users : command[u].kind \in {"none", "create"}

ScriptOK ==
    /\ smoke.next >= 1
    /\ smoke.step = "fund" => smoke.next <= Len(smoke.accounts)

\* What the properties say of one outcome.
AsShown(o) ==
    ~o.moved =>
      /\ o.why # "reverted"
      /\ o.why = "assert" => o.stale \/ o.short
      /\ o.why = "none" /\ o.kind \in {"buy", "sell", "claim"} => o.paid = o.promised

SmokeSold(o) ==
    o.kind = "smoke" /\ o.tx = "sell" /\ o.why # "none" => o.moved \/ o.short

WellRefused(o) ==
    o.kind = "create" /\ o.why \in {"refused", "reverted"} =>
      \/ ~o.taken
      \/ o.given /\ o.short
      \/ ~o.given /\ (o.stale \/ o.promised - o.minOut \in 0..(MirrorDust - 1))

OutcomeOK(o) == AsShown(o) /\ SmokeSold(o) /\ WellRefused(o)

CInv ==
    /\ ChainOK
    /\ Types
    /\ \A u \in Users : CommandOK(u, command[u])
    /\ Fresh
    /\ ScriptOK
    /\ \A u \in Users : OutcomeOK(outcome[u])

-----------------------------------------------------------------------------
(* The two computations of the first buy.                                  *)

\* What is left of an amount after a share of it.
AfterShare(amount, bps) == amount - Bps(amount, bps)

(***************************************************************************)
(* What is left grows with the amount, and no faster than the amount.      *)
(***************************************************************************)
LEMMA AfterShareGrows ==
    ASSUME NEW g \in Nat, NEW h \in Nat, g <= h, NEW bps \in 0..BPS_DENOMINATOR
    PROVE  /\ AfterShare(g, bps) \in Nat /\ AfterShare(h, bps) \in Nat
           /\ AfterShare(g, bps) <= AfterShare(h, bps)
           /\ AfterShare(h, bps) - AfterShare(g, bps) <= h - g
<1> DEFINE p == Bps(g, bps)
           q == Bps(h, bps)
<1>1. p \in 0..g /\ q \in 0..h
  BY BpsBound
<1>2. bps \in Nat /\ bps <= 10000
  BY DEF BPS_DENOMINATOR
<1>3. g * bps \in Nat /\ h * bps \in Nat /\ (h - g) * bps \in Nat
  BY <1>2, SMT
<1>4. /\ h * bps = g * bps + (h - g) * bps
      /\ (h - g) * bps <= (h - g) * 10000
  BY <1>2, SMT
<1>5. p = (g * bps) \div 10000 /\ q = (h * bps) \div 10000
  BY DEF Bps, BPS_DENOMINATOR
<1>6. /\ 10000 * p <= g * bps /\ g * bps < 10000 * p + 10000
      /\ 10000 * q <= h * bps /\ h * bps < 10000 * q + 10000
  BY <1>3, <1>5, DivFloor
<1> HIDE DEF p, q
<1>7. p <= q
  BY <1>1, <1>3, <1>4, <1>6
<1>8. q <= p + (h - g)
  <2>1. 10000 * q < 10000 * p + 10000 + (h - g) * 10000
    BY <1>1, <1>3, <1>4, <1>6
  <2> QED
    BY <1>1, <2>1
<1>9. AfterShare(g, bps) = g - p /\ AfterShare(h, bps) = h - q
  BY DEF AfterShare, p, q
<1> QED
  BY <1>1, <1>7, <1>8, <1>9

LEMMA BpsIsNat ==
    ASSUME NEW bps \in 0..BPS_DENOMINATOR
    PROVE  bps \in Nat /\ bps <= 10000
BY DEF BPS_DENOMINATOR

(***************************************************************************)
(* An empty curve is taxed at the maximum, by the mirror and by the chain. *)
(***************************************************************************)
LEMMA FirstTax ==
    /\ totalMinted(0) = 0 /\ ExpDefined(0)
    /\ burnTaxBps(0) = BurnTaxMaxBps
    /\ \A params \in CurveParams : burnTaxBpsAtOkbCum(params, 0) = params.burnTaxMaxBps
<1>1. totalMinted(0) = 0
  BY DEF totalMinted
<1>2. ExpDefined(0)
  <2>1. Unit \in Nat /\ S \in Nat \ {0} /\ MaxExpInput \in Nat
    BY FixedPointAssumption, ParamsAssumption DEF ValidParams
  <2>2. (0 * Unit) \div S = 0
    BY <2>1
  <2> QED
    BY <2>1, <2>2, FixedPointAssumption DEF ExpDefined, div
<1>3. Threshold \in Nat /\ Threshold > 0
  BY ThresholdType, ThresholdAssumption, ParamsAssumption DEF ValidParams
<1>4. ASSUME NEW n \in Int
      PROVE  (0 * n) \div Threshold = 0
  <2>1. 0 * n = 0
    BY <1>4
  <2>2. 0 \div Threshold = 0
    <3>1. /\ 0 \div Threshold \in Nat /\ Threshold * (0 \div Threshold) <= 0
      BY <1>3, DivFloor
    <3> QED
      BY <1>3, <3>1, Z3
  <2> QED
    BY <2>1, <2>2
<1>5. BurnTaxMaxBps \in Int /\ BurnTaxMinBps \in Int
  BY ParamsAssumption DEF ValidParams, BPS_DENOMINATOR
<1>6. burnTaxBps(0) = BurnTaxMaxBps
  <2>1. (0 * (BurnTaxMaxBps - BurnTaxMinBps)) \div Threshold = 0
    BY <1>4, <1>5
  <2> HIDE DEF Threshold
  <2> QED
    BY <1>1, <1>3, <1>5, <2>1 DEF burnTaxBps
<1>7. ASSUME NEW params \in CurveParams
      PROVE  burnTaxBpsAtOkbCum(params, 0) = params.burnTaxMaxBps
  <2>1. params.burnTaxMaxBps \in Int /\ params.burnTaxMinBps \in Int
    <3>1. /\ params.burnTaxMaxBps \in 0..BPS_DENOMINATOR
          /\ params.burnTaxMinBps \in 0..BPS_DENOMINATOR
      BY DEF CurveParams
    <3> QED
      BY <3>1, BpsIsNat
  <2>2. (0 * (params.burnTaxMaxBps - params.burnTaxMinBps)) \div Threshold = 0
    BY <1>4, <2>1
  <2>3. deriveCurvePoint(0).totalMinted = 0
    BY MirrorAssumption DEF deriveCurvePoint
  <2> HIDE DEF Threshold
  <2> QED
    BY <1>3, <2>1, <2>2, <2>3 DEF burnTaxBpsAtOkbCum
<1> QED
  BY <1>1, <1>2, <1>6, <1>7

(***************************************************************************)
(* The contract's parameters are parameters of a record.                   *)
(***************************************************************************)
LEMMA OnChainIsParams == OnChain \in CurveParams
<1>1. FeeBps \in 0..BPS_DENOMINATOR /\ BurnTaxMinBps \in 0..BPS_DENOMINATOR
  BY ParamsAssumption DEF ValidParams
<1>2. BurnTaxMaxBps \in 0..BPS_DENOMINATOR
  <2>1. burnTaxBps(0) = BurnTaxMaxBps /\ ExpDefined(0)
    BY FirstTax
  <2> QED
    BY <2>1, TaxIsBps
<1> QED
  BY <1>1, <1>2 DEF OnChain, CurveParams

(***************************************************************************)
(* The mirror's quote of a first buy is the minted amount of its table     *)
(* after the highest tax.                                                  *)
(***************************************************************************)
LEMMA FirstQuote ==
    ASSUME NEW params \in CurveParams, NEW okb, MirrorQuotable(params, 0, okb)
    PROVE  LET net == netOf(params, okb)
           IN  /\ okb \in Nat /\ net \in Nat /\ net \in DOMAIN MintedUnits
               /\ MintedUnits[net] \in Nat
               /\ params.burnTaxMaxBps \in 0..BPS_DENOMINATOR
               /\ quoteBuyAtOkbCum(params, 0, okb).tokensOut
                    = AfterShare(MintedUnits[net], params.burnTaxMaxBps)
<1> DEFINE net == netOf(params, okb)
<1>1. okb \in Nat
  BY ParamsAssumption DEF MirrorQuotable, ValidParams
<1>2. params.feeBps \in 0..BPS_DENOMINATOR /\ params.burnTaxMaxBps \in 0..BPS_DENOMINATOR
  BY DEF CurveParams
<1>3. net \in Nat
  BY <1>1, <1>2, BpsBound DEF netOf
<1> HIDE DEF net
<1>4. 0 + net = net
  BY <1>3
<1>5. net \in DOMAIN MintedUnits
  BY <1>4 DEF MirrorQuotable, deriveCurvePoint, net
<1>6. MintedUnits[net] \in Nat /\ MintedUnits[0] = 0
  BY <1>5, MirrorAssumption
<1>7. MintedUnits[net] - MintedUnits[0] = MintedUnits[net]
  BY <1>6
<1>8. quoteBuyAtOkbCum(params, 0, okb).tokensOut
        = AfterShare(MintedUnits[net], params.burnTaxMaxBps)
  BY <1>4, <1>7, FirstTax DEF quoteBuyAtOkbCum, deriveCurvePoint, AfterShare, net
<1> QED
  BY <1>1, <1>2, <1>3, <1>5, <1>6, <1>8 DEF net

(***************************************************************************)
(* With the contract's parameters the chain accepts the quoted buy on an   *)
(* empty curve, and pays less than quoted by MirrorDust at most.           *)
(***************************************************************************)
LEMMA MirrorIsClose ==
    ASSUME NEW okb, MirrorQuotable(OnChain, 0, okb)
    PROVE  /\ BuyQuotable(0, okb)
           /\ quoteBuy(0, okb).tokensOut \in Nat
           /\ quoteBuyAtOkbCum(OnChain, 0, okb).tokensOut \in Nat
           /\ quoteBuyAtOkbCum(OnChain, 0, okb).tokensOut
                <= quoteBuy(0, okb).tokensOut + MirrorDust
<1> DEFINE net == netOf(OnChain, okb)
           m == MintedUnits[net]
           g == totalMinted(net)
           tax == BurnTaxMaxBps
<1>1. /\ okb \in Nat /\ net \in Nat /\ net \in DOMAIN MintedUnits /\ m \in Nat
      /\ tax \in 0..BPS_DENOMINATOR
      /\ quoteBuyAtOkbCum(OnChain, 0, okb).tokensOut = AfterShare(m, tax)
  BY OnChainIsParams, FirstQuote DEF OnChain
<1>2. net = effectiveOkbIn(okb) /\ okb \in 1..MaxBuyOkb
  BY DEF netOf, OnChain, effectiveOkbIn, MirrorQuotable
<1>3. ExpDefined(net)
  BY <1>2, FirstBuyAssumption
<1> HIDE DEF net
<1>4. g \in Nat
  BY <1>1, <1>3, MintedMonotoneAndCapped, ParamsAssumption DEF ValidParams
<1>5. 0 + net = net /\ g - 0 = g
  BY <1>1, <1>4
<1>6. /\ quoteBuy(0, okb).tokensOut = AfterShare(g, tax)
      /\ quoteBuy(0, okb).grossTokensOut = g
  BY <1>2, <1>5, FirstTax DEF quoteBuy, AfterShare
<1>7. BuyQuotable(0, okb)
  BY <1>2, <1>3, <1>4, <1>5, <1>6, FirstTax DEF BuyQuotable
<1>8. MirrorDust \in Nat /\ m - g \in -MirrorDust..MirrorDust
  BY <1>1, <1>3, MirrorAssumption
<1> HIDE DEF m, g
<1>9. /\ AfterShare(m, tax) \in Nat /\ AfterShare(g, tax) \in Nat
      /\ AfterShare(m, tax) <= AfterShare(g, tax) + MirrorDust
  <2>1. CASE m <= g
    <3>1. /\ AfterShare(m, tax) \in Nat /\ AfterShare(g, tax) \in Nat
          /\ AfterShare(m, tax) <= AfterShare(g, tax)
      BY <1>1, <1>4, <2>1, AfterShareGrows
    <3> QED
      BY <1>8, <3>1
  <2>2. CASE g <= m
    <3>1. /\ AfterShare(m, tax) \in Nat /\ AfterShare(g, tax) \in Nat
          /\ AfterShare(m, tax) - AfterShare(g, tax) <= m - g
      BY <1>1, <1>4, <2>2, AfterShareGrows
    <3> QED
      BY <1>1, <1>4, <1>8, <3>1
  <2> QED
    BY <1>1, <1>4, <2>1, <2>2
<1> QED
  BY <1>1, <1>6, <1>7, <1>9

-----------------------------------------------------------------------------
(* The accounts of the smoke script.                                       *)

(***************************************************************************)
(* A set of natural numbers has a least member.                            *)
(***************************************************************************)
LEMMA Least ==
    ASSUME NEW T, T \subseteq Nat, T # {}
    PROVE  \E x \in T : \A y \in T : x <= y
<1>1. OpToRel(<, Nat) = {ss \in Nat \X Nat : ss[1] < ss[2]}
  BY Zenon DEF OpToRel
<1>2. PICK R : R = OpToRel(<, Nat)
  BY Zenon
<1>3. IsWellFoundedOn(R, Nat)
  BY <1>2, NatLessThanWellFounded, Zenon
<1>4. R = {ss \in Nat \X Nat : ss[1] < ss[2]}
  BY <1>1, <1>2, Zenon
<1>5. PICK x \in T : \A y \in T : ~(<<y, x>> \in R)
  BY <1>3, WFMin
<1>6. \A y \in T : y < x => <<y, x>> \in {ss \in Nat \X Nat : ss[1] < ss[2]}
  OBVIOUS
<1>7. \A y \in T : ~(y < x)
  BY <1>4, <1>5, <1>6
<1> QED
  BY <1>7

\* others keeps rows, up to the n-th, but those of the owner.
KeepsOthers(others, rows, n) ==
    others = [i \in 0..n |->
                IF i = 0 THEN <<>>
                ELSE IF rows[i].address = Owner THEN others[i - 1]
                ELSE Append(others[i - 1], rows[i])]

(***************************************************************************)
(* There is such a function, for however many rows.                        *)
(***************************************************************************)
LEMMA OthersExist ==
    ASSUME NEW rows, NEW len \in Nat
    PROVE  \E others : KeepsOthers(others, rows, len)
<1> DEFINE T == {n \in Nat : ~ \E others : KeepsOthers(others, rows, n)}
<1> SUFFICES ASSUME T # {} PROVE FALSE
  OBVIOUS
<1>1. PICK n \in T : \A m \in T : n <= m
  BY Least
<1>2. CASE n = 0
  <2>1. KeepsOthers([i \in 0..0 |-> <<>>], rows, 0)
    BY DEF KeepsOthers
  <2> QED
    BY <1>2, <2>1
<1>3. CASE n # 0
  <2>1. n - 1 \in Nat /\ n - 1 \notin T
    BY <1>1, <1>3
  <2>2. PICK g : KeepsOthers(g, rows, n - 1)
    BY <2>1
  <2>3. PICK x : x = IF rows[n].address = Owner THEN g[n - 1] ELSE Append(g[n - 1], rows[n])
    OBVIOUS
  <2>4. PICK h : h = [i \in 0..n |-> IF i = n THEN x ELSE g[i]]
    OBVIOUS
  <2>5. \A i \in 0..(n - 1) : h[i] = g[i]
    BY <2>4
  <2>6. \A i \in 0..n : h[i] = IF i = 0 THEN <<>>
                               ELSE IF rows[i].address = Owner THEN h[i - 1]
                               ELSE Append(h[i - 1], rows[i])
    <3> TAKE i \in 0..n
    <3>1. CASE i = n
      BY <1>3, <2>3, <2>4, <2>5, <3>1
    <3>2. CASE i # n
      <4>1. i \in 0..(n - 1) /\ (i # 0 => i - 1 \in 0..(n - 1))
        BY <3>2
      <4>2. g[i] = IF i = 0 THEN <<>>
                   ELSE IF rows[i].address = Owner THEN g[i - 1]
                   ELSE Append(g[i - 1], rows[i])
        BY <2>2, <4>1 DEF KeepsOthers
      <4> QED
        BY <2>5, <4>1, <4>2
    <3> QED
      BY <3>1, <3>2
  <2>7. KeepsOthers(h, rows, n)
    BY <2>4, <2>6 DEF KeepsOthers
  <2> QED
    BY <2>7
<1> QED
  BY <1>2, <1>3

(***************************************************************************)
(* What is left of the rows are rows.                                      *)
(***************************************************************************)
LEMMA OthersAreRows ==
    ASSUME NEW Row, NEW rows \in Seq(Row), NEW others, KeepsOthers(others, rows, Len(rows))
    PROVE  others[Len(rows)] \in Seq(Row)
<1> DEFINE T == {n \in 0..Len(rows) : others[n] \notin Seq(Row)}
<1> SUFFICES ASSUME T # {} PROVE FALSE
  OBVIOUS
<1>1. PICK n \in T : \A m \in T : n <= m
  <2>1. T \subseteq Nat
    OBVIOUS
  <2> HIDE DEF T
  <2> QED
    BY <2>1, Least
<1>2. others[n] = IF n = 0 THEN <<>>
                  ELSE IF rows[n].address = Owner THEN others[n - 1]
                  ELSE Append(others[n - 1], rows[n])
  BY DEF KeepsOthers
<1>3. n # 0 => n - 1 \in 0..Len(rows) /\ n - 1 \notin T
  BY <1>1
<1>4. n # 0 => others[n - 1] \in Seq(Row) /\ rows[n] \in Row
  BY <1>3
<1>5. <<>> \in Seq(Row) /\ \A q \in Seq(Row), e \in Row : Append(q, e) \in Seq(Row)
  OBVIOUS
<1> QED
  BY <1>2, <1>4, <1>5

(***************************************************************************)
(* The script trades with a sequence of accounts.                          *)
(***************************************************************************)
LEMMA TargetsAreAccounts ==
    ASSUME NEW rows \in Seq([address : Users, key : Users]), NEW limit \in Nat
    PROVE  selectHashKeyTestSmokeTargets(rows, limit) \in Seq(Users)
<1> DEFINE Row == [address : Users, key : Users]
           others == excludeOwnerWallet(rows)
           targets == [i \in DOMAIN others \cap 1..limit |-> others[i].address]
<1>1. others = (CHOOSE h : KeepsOthers(h, rows, Len(rows)))[Len(rows)]
  BY DEF excludeOwnerWallet, KeepsOthers
<1>2. KeepsOthers(CHOOSE h : KeepsOthers(h, rows, Len(rows)), rows, Len(rows))
  <2>1. Len(rows) \in Nat
    OBVIOUS
  <2>2. \E h : KeepsOthers(h, rows, Len(rows))
    BY <2>1, OthersExist
  <2> QED
    BY <2>2, Zenon
<1>3. others \in Seq(Row)
  BY <1>1, <1>2, OthersAreRows
<1>4. selectHashKeyTestSmokeTargets(rows, limit) = targets
  BY DEF selectHashKeyTestSmokeTargets
<1> HIDE DEF others
<1>5. PICK n \in Nat : n = IF Len(others) <= limit THEN Len(others) ELSE limit
  BY <1>3
<1>6. DOMAIN others \cap 1..limit = 1..n
  BY <1>3, <1>5
<1>7. ASSUME NEW i \in 1..n
      PROVE  others[i].address \in Users
  <2>1. i \in 1..Len(others)
    BY <1>3, <1>5
  <2>2. others[i] \in Row
    BY <1>3, <2>1, ElementOfSeq
  <2> QED
    BY <2>2
<1>8. targets \in [1..n -> Users]
  BY <1>6, <1>7
<1> HIDE DEF targets
<1>9. targets \in UNION {[1..k -> Users] : k \in Nat}
  BY <1>8, Zenon
<1>10. Seq(Users) = UNION {[1..k -> Users] : k \in Nat}
  BY SeqDef, Zenon
<1> QED
  BY <1>4, <1>9, <1>10

-----------------------------------------------------------------------------
(* One command.                                                            *)

(***************************************************************************)
(* An account without a command has nothing to go wrong.                   *)
(***************************************************************************)
LEMMA NothingRuns ==
    ASSUME NEW u \in Users
    PROVE  /\ NoCommand \in Commands /\ NoCommand.kind = "none" /\ NoCommand.moved = FALSE
           /\ CommandOK(u, NoCommand) /\ CommandOK(u, NoCommand)'
<1>1. NoCommand \in Commands
  BY CommandsAssumption
     DEF NoCommand, Commands, Kinds, Steps, Transactions, Fields, Unread, Unset
<1>2. NoCommand.kind = "none" /\ NoCommand.tx = "buy" /\ NoCommand.moved = FALSE
  BY DEF NoCommand
<1> HIDE DEF NoCommand
<1>3. Shaped(NoCommand)
  BY <1>2 DEF Shaped
<1>4. CommandOK(u, NoCommand)
  BY <1>2, <1>3 DEF CommandOK, Approved, Floored, Current, Chunked
<1>5. CommandOK(u, NoCommand)'
  BY <1>2, <1>3 DEF CommandOK, Approved, Floored, Current, Chunked
<1> QED
  BY <1>1, <1>2, <1>4, <1>5

(***************************************************************************)
(* What a command knows stays true while only time passes, its account is  *)
(* given OKB, and others spend their own.                                  *)
(***************************************************************************)
LEMMA StillCurrent ==
    ASSUME NEW u \in Users, NEW c \in Commands, Current(u, c),
           world' = world, call' = call, created' = created,
           hookImplementation' = hookImplementation,
           block \in Nat, block' \in Nat, block <= block',
           world.lastBuyBlock[u] \in Nat, world.lastBuyBlock[u] <= block,
           wallet[u] \in Nat, wallet'[u] \in Nat, wallet[u] <= wallet'[u],
           allowance'[u] = allowance[u]
    PROVE  Current(u, c)'
<1> SUFFICES ASSUME c.kind # "none", ~c.moved
             PROVE  Current(u, c)'
  BY DEF Current
<1>1. /\ NotEntered
      /\ c.step = "sent" => Value(c) <= wallet[u] /\ Accepted(u, c)
      /\ c.kind \in {"buy", "sell", "claim"} => Payout(c) = c.promised
      /\ c.kind = "smoke" /\ c.step = "wait" => world.lastBuyBlock[u] <= c.since
      /\ c.kind = "smoke" /\ c.tx = "sell" => world.lastBuyBlock[u] < block
      /\ c.kind = "inspect" => \A f \in Fields : c.seen[f] \in {Unread, Answer(f)}
  BY DEF Current
<1>2. Value(c) \in Nat
  BY DEF Value, Commands
<1>3. NotEntered'
  BY <1>1 DEF NotEntered
<1>4. c.step = "sent" => Value(c) <= wallet'[u]
  BY <1>1, <1>2
<1>5. Accepted(u, c) => Accepted(u, c)'
  <2>1. world.lastBuyBlock[u] # block => world'.lastBuyBlock[u] # block'
    OBVIOUS
  <2>2. MaySell(u, c.amount, c.minOut) => MaySell(u, c.amount, c.minOut)'
    BY <1>3, <2>1 DEF MaySell
  <2>3. MayBuy(c.amount, c.minOut) => MayBuy(c.amount, c.minOut)'
    BY <1>3 DEF MayBuy
  <2>4. MayClaim => MayClaim'
    BY <1>3 DEF MayClaim
  <2> QED
    BY <2>2, <2>3, <2>4 DEF Accepted, FactoryTakes
<1>6. Payout(c)' = Payout(c)
  BY DEF Payout
<1>7. \A f \in Fields : Answer(f)' = Answer(f)
  BY DEF Answer
<1>8. c.kind = "smoke" /\ c.tx = "sell" => world'.lastBuyBlock[u] < block'
  BY <1>1
<1>9. c.kind = "smoke" /\ c.step = "wait" => world'.lastBuyBlock[u] <= c.since
  BY <1>1
<1>10. c.kind = "inspect" => \A f \in Fields : c.seen[f] \in {Unread, Answer(f)'}
  BY <1>1, <1>7
<1>11. /\ c.step = "sent" => Accepted(u, c)'
       /\ c.kind \in {"buy", "sell", "claim"} => Payout(c)' = c.promised
  BY <1>1, <1>5, <1>6
<1> QED
  BY <1>3, <1>4, <1>8, <1>9, <1>10, <1>11 DEF Current

(***************************************************************************)
(* The same for everything that is said of a command.                      *)
(***************************************************************************)
LEMMA StillOK ==
    ASSUME NEW u \in Users, NEW c \in Commands, CommandOK(u, c),
           world' = world, call' = call, created' = created,
           hookImplementation' = hookImplementation,
           block \in Nat, block' \in Nat, block <= block',
           world.lastBuyBlock[u] \in Nat, world.lastBuyBlock[u] <= block,
           wallet[u] \in Nat, wallet'[u] \in Nat, wallet[u] <= wallet'[u],
           allowance'[u] = allowance[u], Chunked(u, c)'
    PROVE  CommandOK(u, c)'
<1>1. Current(u, c)'
  BY StillCurrent DEF CommandOK
<1>2. Shaped(c)'
  BY DEF CommandOK
<1>3. Approved(u, c)'
  BY DEF CommandOK, Approved
<1>4. Floored(u, c)'
  <2>1. c.amount \in Nat
    BY DEF Commands
  <2> QED
    BY <2>1 DEF CommandOK, Floored
<1> QED
  BY <1>1, <1>2, <1>3, <1>4 DEF CommandOK

\* The command after somebody else's transaction.
Overtaken(c) == [c EXCEPT !.moved = c.moved \/ c.kind # "none"]

(***************************************************************************)
(* Overtaking a command changes its mark alone.                            *)
(***************************************************************************)
LEMMA OvertakenFields ==
    ASSUME NEW c \in Commands, Shaped(c)
    PROVE  /\ Overtaken(c) \in Commands /\ Shaped(Overtaken(c))
           /\ Overtaken(c).kind = c.kind /\ Overtaken(c).step = c.step
           /\ Overtaken(c).tx = c.tx /\ Overtaken(c).amount = c.amount
           /\ Overtaken(c).stale = c.stale /\ Overtaken(c).promised = c.promised
           /\ Overtaken(c).minOut = c.minOut /\ Overtaken(c).given = c.given
           /\ c.kind # "none" => Overtaken(c).moved
           /\ c.kind = "none" => Overtaken(c) = NoCommand
<1> DEFINE m == c.moved \/ c.kind # "none"
           d == [c EXCEPT !.moved = m]
<1>1. m \in BOOLEAN
  BY Zenon
<1>2. Overtaken(c) = d
  BY DEF Overtaken
<1>3. c.kind # "none" => m
  OBVIOUS
<1>4. c.kind = "none" => m = c.moved
  <2>1. c.moved \in BOOLEAN
    BY DEF Commands
  <2> QED
    BY <2>1, Zenon
<1> HIDE DEF m
<1>5. /\ d \in Commands /\ d.moved = m
      /\ d.kind = c.kind /\ d.step = c.step /\ d.tx = c.tx /\ d.amount = c.amount
      /\ d.stale = c.stale /\ d.promised = c.promised /\ d.minOut = c.minOut
      /\ d.given = c.given
  BY <1>1 DEF Commands
<1>6. m = c.moved => d = c
  BY DEF Commands
<1>7. c.kind = "none" => d = NoCommand
  BY <1>4, <1>6 DEF Shaped
<1> HIDE DEF d
<1>8. Shaped(d)
  BY <1>5, <1>7 DEF Shaped
<1> QED
  BY <1>2, <1>3, <1>5, <1>7, <1>8

(***************************************************************************)
(* An overtaken command has nothing to rely on but its own approval.       *)
(***************************************************************************)
LEMMA OvertakenOK ==
    ASSUME NEW u \in Users, NEW c \in Commands, CommandOK(u, c),
           allowance'[u] = allowance[u], Chunked(u, c)',
           c.kind = "create" => ~created' /\ (c.step = "sent" => c.amount <= wallet'[u])
    PROVE  CommandOK(u, Overtaken(c))'
<1> DEFINE d == Overtaken(c)
<1>1. /\ d \in Commands /\ Shaped(d)
      /\ d.kind = c.kind /\ d.step = c.step /\ d.tx = c.tx /\ d.amount = c.amount
      /\ d.stale = c.stale /\ d.promised = c.promised /\ d.minOut = c.minOut
      /\ d.given = c.given
      /\ c.kind # "none" => d.moved
  BY OvertakenFields DEF CommandOK
<1> HIDE DEF d
<1>2. Approved(u, d)'
  BY <1>1 DEF CommandOK, Approved
<1>3. Floored(u, d)'
  BY <1>1 DEF CommandOK, Floored, AsMirrored
<1>4. Current(u, d)'
  BY <1>1 DEF Current
<1>5. Chunked(u, d)'
  BY <1>1 DEF Chunked
<1> QED
  BY <1>1, <1>2, <1>3, <1>4, <1>5 DEF CommandOK, d

(***************************************************************************)
(* The types of what the steps compute with.                               *)
(***************************************************************************)
LEMMA Typed ==
    ASSUME CInv
    PROVE  /\ world \in Worlds /\ saved \in Worlds /\ block \in Nat
           /\ \A a \in Accounts : world.lastBuyBlock[a] \in Nat
           /\ \A a \in Users : a \in Accounts /\ wallet[a] \in Nat /\ allowance[a] \in Nat
           /\ \A a \in Users : command[a] \in Commands /\ CommandOK(a, command[a])
           /\ \A a \in Users : outcome[a] \in Outcomes /\ OutcomeOK(outcome[a])
           /\ NotEntered => world = saved
<1>1. world \in Worlds /\ saved \in Worlds /\ block \in Nat
  BY DEF CInv, ChainOK, IInv, TypeOK
<1>2. \A a \in Accounts : world.lastBuyBlock[a] \in Nat
  BY <1>1 DEF Worlds
<1>3. \A a \in Users : a \in Accounts /\ wallet[a] \in Nat /\ allowance[a] \in Nat
  BY DEF CInv, Types, Accounts
<1>4. \A a \in Users : command[a] \in Commands /\ CommandOK(a, command[a])
  BY DEF CInv, Types
<1>5. \A a \in Users : outcome[a] \in Outcomes /\ OutcomeOK(outcome[a])
  BY DEF CInv, Types
<1>6. NotEntered => world = saved
  BY DEF CInv, ChainOK, IInv
<1> QED
  BY <1>1, <1>2, <1>3, <1>4, <1>5, <1>6

(***************************************************************************)
(* A step of one command that leaves the chain, the purses and the script  *)
(* alone.                                                                  *)
(***************************************************************************)
LEMMA OwnStep ==
    ASSUME CInv, NEW u \in Users, NEW d \in Commands,
           UNCHANGED <<vars, setup, created, recorded, wallet, smoke>>,
           command' = [command EXCEPT ![u] = d],
           allowance' \in [Users -> Nat],
           \A v \in Users \ {u} : allowance'[v] = allowance[v],
           CommandOK(u, d)',
           created \/ d.kind \in {"none", "create"},
           outcome' \in [Users -> Outcomes],
           \A v \in Users : OutcomeOK(outcome'[v]),
           left' \in 0..MaxCommands
    PROVE  CInv'
<1>1. /\ world' = world /\ saved' = saved /\ call' = call /\ block' = block
      /\ network' = network /\ endpoint' = endpoint
      /\ hookImplementation' = hookImplementation /\ created' = created
      /\ recorded' = recorded /\ wallet' = wallet /\ smoke' = smoke
  BY DEF vars, setup
<1>2. ChainOK'
  BY <1>1 DEF CInv, ChainOK, IInv, TypeOK, NotEntered
<1>3. command' \in [Users -> Commands] /\ \A v \in Users : command'[v] = IF v = u THEN d ELSE command[v]
  BY DEF CInv, Types
<1>4. Types'
  BY <1>1, <1>3 DEF CInv, Types
<1>5. ASSUME NEW v \in Users
      PROVE  CommandOK(v, command[v])'
  <2>1. CASE v = u
    BY <1>3, <2>1
  <2>2. CASE v # u
    <3>1. PICK c \in Commands : c = command[v] /\ CommandOK(v, c)
      BY Typed
    <3>2. world.lastBuyBlock[v] \in Nat /\ world.lastBuyBlock[v] <= block /\ block \in Nat
      BY Typed DEF CInv, ChainOK
    <3>3. wallet[v] \in Nat /\ wallet'[v] = wallet[v]
      BY <1>1, Typed
    <3>4. Chunked(v, c)'
      BY <1>1, <3>1 DEF CommandOK, Chunked, InChunk, Chunk
    <3>5. CommandOK(v, c)'
      BY <1>1, <2>2, <3>1, <3>2, <3>3, <3>4, StillOK
    <3> QED
      BY <1>3, <2>2, <3>1, <3>5
  <2> QED
    BY <2>1, <2>2
<1>6. Fresh'
  BY <1>1, <1>3 DEF CInv, Fresh, NotEntered
<1>7. ScriptOK'
  BY <1>1 DEF CInv, ScriptOK
<1> QED
  BY <1>2, <1>4, <1>5, <1>6, <1>7 DEF CInv

\* What is reported of a command that ends.
Report(c, why, paid, short) ==
    [kind |-> c.kind, tx |-> c.tx, why |-> why, promised |-> c.promised,
     paid |-> paid, minOut |-> c.minOut, moved |-> c.moved,
     short |-> short, stale |-> c.stale, given |-> c.given, taken |-> FactoryTakes(c)]

(***************************************************************************)
(* The report of a command is an outcome.                                  *)
(***************************************************************************)
LEMMA ReportFields ==
    ASSUME NEW c \in Commands, NEW why \in Failures, NEW paid \in Nat, NEW short \in BOOLEAN
    PROVE  LET o == Report(c, why, paid, short)
           IN  /\ o \in Outcomes
               /\ o.kind = c.kind /\ o.tx = c.tx /\ o.why = why /\ o.promised = c.promised
               /\ o.paid = paid /\ o.minOut = c.minOut /\ o.moved = c.moved
               /\ o.short = short /\ o.stale = c.stale /\ o.given = c.given
               /\ o.taken = FactoryTakes(c)
<1>1. PICK taken : taken = FactoryTakes(c)
  OBVIOUS
<1>2. FactoryTakes(c) \in BOOLEAN
  BY Zenon DEF FactoryTakes
<1>3. taken \in BOOLEAN
  BY <1>1, <1>2, Zenon
<1>4. Report(c, why, paid, short) =
        [kind |-> c.kind, tx |-> c.tx, why |-> why, promised |-> c.promised,
         paid |-> paid, minOut |-> c.minOut, moved |-> c.moved,
         short |-> short, stale |-> c.stale, given |-> c.given, taken |-> taken]
  BY <1>1, Zenon DEF Report
<1>5. LET o == Report(c, why, paid, short)
      IN  /\ o \in Outcomes
          /\ o.kind = c.kind /\ o.tx = c.tx /\ o.why = why /\ o.promised = c.promised
          /\ o.paid = paid /\ o.minOut = c.minOut /\ o.moved = c.moved
          /\ o.short = short /\ o.stale = c.stale /\ o.given = c.given
          /\ o.taken = taken
  BY <1>3, <1>4 DEF Outcomes, Commands
<1> QED
  BY <1>1, <1>5, Zenon

(***************************************************************************)
(* A command is reported with whether it asked for what is not there.      *)
(***************************************************************************)
LEMMA EndedReports ==
    ASSUME CInv, NEW u \in Users, NEW c \in Commands, c = command[u], NEW why \in Failures,
           NEW paid \in Nat, Ended(u, why, paid)
    PROVE  \E short \in BOOLEAN :
             /\ short <=> Lacking(u, c)
             /\ outcome' = [outcome EXCEPT ![u] = Report(c, why, paid, short)]
<1>1. PICK short : short = Lacking(u, c)
  OBVIOUS
<1>2. Lacking(u, c) \in BOOLEAN
  BY Zenon DEF Lacking
<1>3. short \in BOOLEAN
  BY <1>1, <1>2, Zenon
<1>4. outcome' = [outcome EXCEPT ![u] = Report(c, why, paid, short)]
  BY <1>1, Zenon DEF Ended, Report
<1>5. short <=> Lacking(u, c)
  BY <1>1, Zenon
<1> QED
  BY <1>3, <1>4, <1>5, Zenon

(***************************************************************************)
(* A command that ends without a transaction.                              *)
(***************************************************************************)
LEMMA Ends ==
    ASSUME CInv, NEW u \in Users, NEW why \in Failures, EndWith(u, why),
           UNCHANGED <<smoke, left>>,
           \A short \in BOOLEAN :
             (short <=> Lacking(u, command[u])) => OutcomeOK(Report(command[u], why, 0, short))
    PROVE  CInv'
<1>1. PICK c \in Commands : c = command[u]
  BY Typed
<1>2. PICK short \in BOOLEAN :
        /\ short <=> Lacking(u, c)
        /\ outcome' = [outcome EXCEPT ![u] = Report(c, why, 0, short)]
  <2>1. Ended(u, why, 0)
    BY DEF EndWith
  <2> QED
    BY <1>1, <2>1, EndedReports
<1>3. PICK o : o = Report(c, why, 0, short)
  OBVIOUS
<1>4. o \in Outcomes /\ OutcomeOK(o)
  BY <1>1, <1>2, <1>3, ReportFields
<1>5. outcome' \in [Users -> Outcomes] /\ \A v \in Users : OutcomeOK(outcome'[v])
  BY <1>2, <1>3, <1>4 DEF CInv, Types
<1>6. NoCommand \in Commands /\ NoCommand.kind = "none" /\ CommandOK(u, NoCommand)'
  BY NothingRuns
<1>7. /\ command' = [command EXCEPT ![u] = NoCommand]
      /\ UNCHANGED <<vars, setup, created, recorded, wallet, smoke>>
      /\ allowance' = allowance /\ left' = left
  BY DEF EndWith, accounts
<1>8. allowance' \in [Users -> Nat] /\ left' \in 0..MaxCommands
  BY <1>7 DEF CInv, Types
<1> QED
  BY <1>5, <1>6, <1>7, <1>8, OwnStep

(***************************************************************************)
(* A command that goes on without a transaction.                           *)
(***************************************************************************)
LEMMA Proceeds ==
    ASSUME CInv, NEW u \in Users, NEW d \in Commands, Proceed(u, d),
           UNCHANGED <<smoke, left>>, CommandOK(u, d)',
           created \/ d.kind \in {"none", "create"}
    PROVE  CInv'
<1>1. /\ command' = [command EXCEPT ![u] = d]
      /\ UNCHANGED <<vars, setup, created, recorded, wallet, smoke>>
      /\ allowance' = allowance /\ left' = left /\ outcome' = outcome
  BY DEF Proceed, accounts
<1>2. allowance' \in [Users -> Nat] /\ left' \in 0..MaxCommands
  BY <1>1 DEF CInv, Types
<1>3. outcome' \in [Users -> Outcomes] /\ \A v \in Users : OutcomeOK(outcome'[v])
  BY <1>1 DEF CInv, Types
<1> QED
  BY <1>1, <1>2, <1>3, OwnStep

(***************************************************************************)
(* A command that starts, other than the smoke script.                     *)
(***************************************************************************)
LEMMA Started ==
    ASSUME CInv, NEW u \in Users, NEW d \in Commands, Start(u, d), left > 0,
           CommandOK(u, d)', created \/ d.kind \in {"none", "create"}
    PROVE  CInv'
<1>1. /\ command' = [command EXCEPT ![u] = d]
      /\ UNCHANGED <<vars, setup, created, recorded, wallet, smoke>>
      /\ allowance' = allowance /\ outcome' = outcome /\ left' = left - 1
  BY DEF Start, accounts
<1>2. allowance' \in [Users -> Nat] /\ left' \in 0..MaxCommands
  BY <1>1, CommandsAssumption DEF CInv, Types
<1>3. outcome' \in [Users -> Outcomes] /\ \A v \in Users : OutcomeOK(outcome'[v])
  BY <1>1 DEF CInv, Types
<1> QED
  BY <1>1, <1>2, <1>3, OwnStep

-----------------------------------------------------------------------------
(* The starts.                                                             *)

(***************************************************************************)
(* A command that may start may, and none runs for its account.            *)
(***************************************************************************)
LEMMA StartsIdle ==
    ASSUME CInv, NEW u \in Users, MayStart(u)
    PROVE  /\ left > 0 /\ NotEntered /\ command[u].kind = "none"
           /\ world \in Worlds /\ world.okbCum \in Nat /\ world.claimableFeeOkb \in Nat
<1>1. left > 0 /\ NotEntered /\ command[u].kind = "none"
  BY DEF MayStart, Free
<1> QED
  BY <1>1, Typed DEF Worlds

\* A command as it starts.
New(kind, step, tx, amount, minOut, recipient, promised, stale, given, valid) ==
    [kind |-> kind, step |-> step, tx |-> tx, amount |-> amount, minOut |-> minOut,
     recipient |-> recipient, promised |-> promised, moved |-> FALSE, since |-> 0, buys |-> 0,
     maxBuys |-> Unset, seen |-> [f \in Fields |-> Unread], stale |-> stale,
     given |-> given, valid |-> valid]

\* d is a command with these fields that nobody has overtaken.
Has(d, kind, step, tx, amount, minOut, promised, stale, given) ==
    /\ d \in Commands /\ d.kind = kind /\ d.step = step /\ d.tx = tx
    /\ d.amount = amount /\ d.minOut = minOut /\ d.promised = promised
    /\ d.moved = FALSE /\ d.stale = stale /\ d.given = given

(***************************************************************************)
(* A command as it starts has the fields it is given.                      *)
(***************************************************************************)
LEMMA NewFields ==
    ASSUME NEW kind \in Kinds, NEW step \in Steps, NEW tx \in Transactions, NEW amount \in Nat,
           NEW minOut \in Nat, NEW recipient \in Users, NEW promised \in Nat,
           NEW stale \in BOOLEAN, NEW given \in BOOLEAN, NEW valid \in BOOLEAN
    PROVE  Has(New(kind, step, tx, amount, minOut, recipient, promised, stale, given, valid),
               kind, step, tx, amount, minOut, promised, stale, given)
<1>0. PICK d : d = New(kind, step, tx, amount, minOut, recipient, promised, stale, given, valid)
  OBVIOUS
<1>1. PICK seen : seen = [f \in Fields |-> Unread]
  OBVIOUS
<1>2. seen \in [Fields -> Nat \cup {Unread}] /\ \A f \in Fields : seen[f] = Unread
  BY <1>1
<1>3. d = [kind |-> kind, step |-> step, tx |-> tx, amount |-> amount, minOut |-> minOut,
           recipient |-> recipient, promised |-> promised, moved |-> FALSE, since |-> 0,
           buys |-> 0, maxBuys |-> Unset, seen |-> seen, stale |-> stale,
           given |-> given, valid |-> valid]
  BY <1>0, <1>1 DEF New
<1>4. d \in Commands
  BY <1>2, <1>3 DEF Commands, Unset
<1>5. /\ d.kind = kind /\ d.step = step /\ d.tx = tx
      /\ d.amount = amount /\ d.minOut = minOut /\ d.promised = promised
      /\ d.moved = FALSE /\ d.stale = stale /\ d.given = given
  BY <1>3
<1> QED
  BY <1>0, <1>4, <1>5, Zenon DEF Has

(***************************************************************************)
(* buy shows what the hook quotes.                                         *)
(***************************************************************************)
LEMMA StartBuyKeeps ==
    ASSUME CInv, NEW u \in Keys, NEW to \in {u} \cup Recipients,
           NEW okb \in BuyAmounts, NEW min \in MinAmounts, StartBuy(u, okb, min, to)
    PROVE  CInv'
<1>1. /\ u \in Users /\ to \in Users /\ okb \in Nat /\ min \in Nat
  BY CommandsAssumption, AmountsAssumption
<1>2. MayStart(u) /\ created /\ BuyQuotable(world.okbCum, okb)
  BY DEF StartBuy, MayStartOnLaunch
<1>3. left > 0 /\ NotEntered /\ world.okbCum \in Nat
  BY <1>1, <1>2, StartsIdle
<1>4. PICK quoted : quoted = quoteBuy(world.okbCum, okb).tokensOut
  OBVIOUS
<1>5. quoted \in Nat
  BY <1>1, <1>2, <1>3, <1>4, BuyQuoteConserves
<1>6. PICK d : d = [NoCommand EXCEPT
            !.kind = "buy", !.step = "ready", !.tx = "buy", !.amount = okb,
            !.minOut = min, !.recipient = to, !.promised = quoted]
  OBVIOUS
<1>7. Start(u, d)
  BY <1>4, <1>6 DEF StartBuy, TokensOut
<1>8. /\ d \in Commands /\ d.kind = "buy" /\ d.step = "ready" /\ d.tx = "buy"
      /\ d.amount = okb /\ d.promised = quoted /\ d.moved = FALSE
  <2>1. d = New("buy", "ready", "buy", okb, min, to, quoted, FALSE, FALSE, TRUE)
    BY <1>6 DEF NoCommand, New
  <2>2. "buy" \in Kinds /\ "ready" \in Steps /\ "buy" \in Transactions
    BY DEF Kinds, Steps, Transactions
  <2>3. Has(d, "buy", "ready", "buy", okb, min, quoted, FALSE, FALSE)
    BY <1>1, <1>5, <2>1, <2>2, NewFields
  <2> QED
    BY <2>3 DEF Has
<1>9. world' = world /\ call' = call
  BY <1>7 DEF Start, vars
<1>10. Payout(d)' = quoted
  BY <1>4, <1>8, <1>9 DEF Payout
<1>11. CommandOK(u, d)'
  <2>1. Current(u, d)'
    BY <1>3, <1>8, <1>9, <1>10 DEF Current, NotEntered
  <2>2. Shaped(d) /\ Approved(u, d)' /\ Floored(u, d)' /\ Chunked(u, d)'
    BY <1>8 DEF Shaped, Approved, Floored, Chunked
  <2> QED
    BY <2>1, <2>2 DEF CommandOK
<1> QED
  BY <1>1, <1>2, <1>3, <1>7, <1>8, <1>11, Started

(***************************************************************************)
(* sell shows what the hook quotes, before its approval.                   *)
(***************************************************************************)
LEMMA StartSellKeeps ==
    ASSUME CInv, NEW u \in Keys, NEW to \in {u} \cup Recipients,
           NEW tokens \in SellAmounts, NEW min \in MinAmounts, StartSell(u, tokens, min, to)
    PROVE  CInv'
<1>1. /\ u \in Users /\ to \in Users /\ tokens \in Nat /\ min \in Nat
  BY CommandsAssumption, AmountsAssumption
<1>2. MayStart(u) /\ created /\ SellQuotable(world.okbCum, tokens)
  BY DEF StartSell, MayStartOnLaunch
<1>3. left > 0 /\ NotEntered /\ world.okbCum \in Nat
  BY <1>1, <1>2, StartsIdle
<1>4. PICK quoted : quoted = quoteSell(world.okbCum, tokens).netOkbOut
  OBVIOUS
<1>5. quoted \in Nat
  BY <1>1, <1>2, <1>3, <1>4, SellQuoteConserves
<1>6. PICK d : d = [NoCommand EXCEPT
            !.kind = "sell", !.step = "approve", !.tx = "sell", !.amount = tokens,
            !.minOut = min, !.recipient = to, !.promised = quoted]
  OBVIOUS
<1>7. Start(u, d)
  BY <1>4, <1>6 DEF StartSell, NetOut
<1>8. /\ d \in Commands /\ d.kind = "sell" /\ d.step = "approve" /\ d.tx = "sell"
      /\ d.amount = tokens /\ d.promised = quoted /\ d.moved = FALSE
  <2>1. d = New("sell", "approve", "sell", tokens, min, to, quoted, FALSE, FALSE, TRUE)
    BY <1>6 DEF NoCommand, New
  <2>2. "sell" \in Kinds /\ "approve" \in Steps /\ "sell" \in Transactions
    BY DEF Kinds, Steps, Transactions
  <2>3. Has(d, "sell", "approve", "sell", tokens, min, quoted, FALSE, FALSE)
    BY <1>1, <1>5, <2>1, <2>2, NewFields
  <2> QED
    BY <2>3 DEF Has
<1>9. world' = world /\ call' = call
  BY <1>7 DEF Start, vars
<1>10. Payout(d)' = quoted
  BY <1>4, <1>8, <1>9 DEF Payout
<1>11. CommandOK(u, d)'
  <2>1. Current(u, d)'
    BY <1>3, <1>8, <1>9, <1>10 DEF Current, NotEntered
  <2>2. Shaped(d) /\ Approved(u, d)' /\ Floored(u, d)' /\ Chunked(u, d)'
    BY <1>8 DEF Shaped, Approved, Floored, Chunked
  <2> QED
    BY <2>1, <2>2 DEF CommandOK
<1> QED
  BY <1>1, <1>2, <1>3, <1>7, <1>8, <1>11, Started

(***************************************************************************)
(* claim-fees reads the fees before it claims them.                        *)
(***************************************************************************)
LEMMA StartClaimKeeps ==
    ASSUME CInv, NEW to \in {Owner} \cup Recipients, StartClaim(to)
    PROVE  CInv'
<1>1. Owner \in Users /\ to \in Users
  BY CommandsAssumption
<1>2. MayStart(Owner) /\ created
  BY DEF StartClaim, MayStartOnLaunch
<1>3. left > 0 /\ NotEntered /\ world.claimableFeeOkb \in Nat
  BY <1>1, <1>2, StartsIdle
<1>4. PICK fees \in Nat : fees = world.claimableFeeOkb
  BY <1>3
<1>5. PICK d : d = [NoCommand EXCEPT
            !.kind = "claim", !.step = "ready", !.tx = "claim", !.recipient = to,
            !.promised = fees]
  OBVIOUS
<1>6. Start(Owner, d)
  BY <1>4, <1>5 DEF StartClaim
<1>7. /\ d \in Commands /\ d.kind = "claim" /\ d.step = "ready" /\ d.tx = "claim"
      /\ d.promised = fees /\ d.moved = FALSE
  BY <1>1, <1>5 DEF NoCommand, Commands, Kinds, Steps, Transactions, Fields, Unread, Unset
<1>8. world' = world /\ call' = call
  BY <1>6 DEF Start, vars
<1>9. Payout(d)' = fees
  BY <1>4, <1>7, <1>8 DEF Payout
<1>10. CommandOK(Owner, d)'
  <2>1. Current(Owner, d)'
    BY <1>3, <1>7, <1>8, <1>9 DEF Current, NotEntered
  <2>2. Shaped(d) /\ Approved(Owner, d)' /\ Floored(Owner, d)' /\ Chunked(Owner, d)'
    BY <1>7 DEF Shaped, Approved, Floored, Chunked
  <2> QED
    BY <2>1, <2>2 DEF CommandOK
<1> QED
  BY <1>1, <1>2, <1>3, <1>6, <1>7, <1>10, Started

(***************************************************************************)
(* simulate-graduation and the inspection show nothing when they start.    *)
(***************************************************************************)
LEMMA StartGraduationKeeps ==
    ASSUME CInv, NEW u \in Keys, NEW maxBuys \in BuyLimits \cup {Unset},
           StartGraduation(u, maxBuys)
    PROVE  CInv'
<1>1. u \in Users /\ TenOkb \in Nat /\ maxBuys \in Nat \cup {Unset}
  BY CommandsAssumption
<1>2. MayStart(u) /\ created
  BY DEF StartGraduation, MayStartOnLaunch
<1>3. left > 0 /\ NotEntered
  BY <1>1, <1>2, StartsIdle
<1>4. PICK d : d = [NoCommand EXCEPT
            !.kind = "graduate", !.step = "check", !.tx = "buy", !.amount = TenOkb,
            !.recipient = u, !.maxBuys = maxBuys]
  OBVIOUS
<1>5. Start(u, d)
  BY <1>4 DEF StartGraduation
<1>6. d \in Commands /\ d.kind = "graduate" /\ d.step = "check" /\ d.tx = "buy"
  BY <1>1, <1>4, CommandsAssumption
     DEF NoCommand, Commands, Kinds, Steps, Transactions, Fields, Unread, Unset
<1>7. call' = call
  BY <1>5 DEF Start, vars
<1>8. CommandOK(u, d)'
  <2>1. Current(u, d)'
    BY <1>3, <1>6, <1>7 DEF Current, NotEntered
  <2>2. Shaped(d) /\ Approved(u, d)' /\ Floored(u, d)' /\ Chunked(u, d)'
    BY <1>6 DEF Shaped, Approved, Floored, Chunked
  <2> QED
    BY <2>1, <2>2 DEF CommandOK
<1> QED
  BY <1>1, <1>2, <1>3, <1>5, <1>6, <1>8, Started

LEMMA StartInspectKeeps ==
    ASSUME CInv, StartInspect
    PROVE  CInv'
<1>1. Owner \in Users
  BY CommandsAssumption
<1>2. MayStart(Owner) /\ created
  BY DEF StartInspect, MayStartOnLaunch
<1>3. left > 0 /\ NotEntered
  BY <1>1, <1>2, StartsIdle
<1>4. PICK stale \in BOOLEAN : stale = (recorded # OnChain)
  <2>1. (recorded # OnChain) \in BOOLEAN
    BY Zenon
  <2> QED
    BY <2>1
<1>5. PICK d : d = [NoCommand EXCEPT
            !.kind = "inspect", !.step = "read", !.stale = stale]
  OBVIOUS
<1>6. Start(Owner, d)
  BY <1>4, <1>5, Zenon DEF StartInspect
<1>7. /\ d \in Commands /\ d.kind = "inspect" /\ d.step = "read" /\ d.tx = "buy"
      /\ \A f \in Fields : d.seen[f] = Unread
  BY <1>1, <1>5
     DEF NoCommand, Commands, Kinds, Steps, Transactions, Fields, Unread, Unset
<1>8. call' = call
  BY <1>6 DEF Start, vars
<1>9. CommandOK(Owner, d)'
  <2>1. Current(Owner, d)'
    BY <1>3, <1>7, <1>8 DEF Current, NotEntered
  <2>2. Shaped(d) /\ Approved(Owner, d)' /\ Floored(Owner, d)' /\ Chunked(Owner, d)'
    BY <1>7 DEF Shaped, Approved, Floored, Chunked
  <2> QED
    BY <2>1, <2>2 DEF CommandOK
<1> QED
  BY <1>1, <1>2, <1>3, <1>6, <1>7, <1>9, Started

(***************************************************************************)
(* create-token-and-buy computes its quote, and its floor from that.       *)
(***************************************************************************)
LEMMA StartCreateKeeps ==
    ASSUME CInv, NEW okb \in BuyAmounts, NEW custom \in BOOLEAN,
           NEW minOutRaw \in Floors \cup {Unset}, NEW bps \in Slippages, NEW valid \in BOOLEAN,
           NEW to \in {Owner} \cup Recipients,
           StartCreate(okb, custom, minOutRaw, bps, valid, to)
    PROVE  CInv'
<1>1. /\ Owner \in Users /\ to \in Users /\ okb \in Nat /\ bps \in Nat
      /\ minOutRaw # Unset => minOutRaw \in Nat
  BY CommandsAssumption, AmountsAssumption
<1>2. PICK params : params = QuoteParams(custom)
  OBVIOUS
<1>3. params \in CurveParams
  BY <1>2, OnChainIsParams, CommandsAssumption DEF QuoteParams
<1> DEFINE given == minOutRaw # Unset
<1>4. given \in BOOLEAN /\ (given => minOutRaw \in Nat)
  BY <1>1, Zenon
<1>5. PICK quoted : quoted = IF given THEN 0 ELSE quoteBuyAtOkbCum(params, 0, okb).tokensOut
  OBVIOUS
<1>6. PICK floor : floor = IF given THEN minOutRaw ELSE minTokensOut(quoted, bps)
  OBVIOUS
<1>7. PICK stale \in BOOLEAN : stale = (params # OnChain)
  <2>1. (params # OnChain) \in BOOLEAN
    BY Zenon
  <2> QED
    BY <2>1
<1>8. PICK d : d = [NoCommand EXCEPT
            !.kind = "create", !.step = "ready", !.tx = "create", !.amount = okb,
            !.minOut = floor, !.recipient = to, !.promised = quoted, !.stale = stale,
            !.given = given, !.valid = valid]
  OBVIOUS
<1>9. /\ ~created /\ MayStart(Owner) /\ bps <= 9999
      /\ given \/ MirrorQuotable(params, 0, okb)
      /\ Start(Owner, d)
  <2>1. ~created /\ MayStart(Owner) /\ bps <= 9999
    BY DEF StartCreate, optionalUint16Arg
  <2>2. given \/ MirrorQuotable(params, 0, okb)
    BY <1>2 DEF StartCreate
  <2>3. Start(Owner, [NoCommand EXCEPT
            !.kind = "create", !.step = "ready", !.tx = "create", !.amount = okb,
            !.minOut = floor, !.recipient = to, !.promised = quoted,
            !.stale = params # OnChain, !.given = given, !.valid = valid])
    BY <1>2, <1>5, <1>6 DEF StartCreate
  <2>4. Start(Owner, d)
    BY <1>7, <1>8, <2>3, Zenon
  <2> QED
    BY <2>1, <2>2, <2>4
<1> HIDE DEF given
<1>10. left > 0 /\ NotEntered
  BY <1>1, <1>9, StartsIdle
<1>11. given => quoted = 0 /\ floor \in Nat
  BY <1>4, <1>5, <1>6
<1>12. ~given => quoted \in Nat
  <2>1. SUFFICES ASSUME ~given PROVE quoted \in Nat
    OBVIOUS
  <2>2. MirrorQuotable(params, 0, okb)
    BY <1>9, <2>1
  <2>3. PICK gross \in Nat : quoted = AfterShare(gross, params.burnTaxMaxBps)
    <3>1. /\ MintedUnits[netOf(params, okb)] \in Nat
          /\ quoted = AfterShare(MintedUnits[netOf(params, okb)], params.burnTaxMaxBps)
      BY <1>3, <1>5, <2>1, <2>2, FirstQuote
    <3> QED
      BY <3>1
  <2>4. params.burnTaxMaxBps \in 0..BPS_DENOMINATOR
    BY <1>3, <2>2, FirstQuote
  <2>5. gross <= gross
    BY <2>3
  <2> QED
    BY <2>3, <2>4, <2>5, AfterShareGrows
<1>13. ~given => floor \in 0..quoted
  <2>1. BPS_DENOMINATOR - bps \in 0..BPS_DENOMINATOR
    BY <1>1, <1>9 DEF BPS_DENOMINATOR
  <2> QED
    BY <1>6, <1>12, <2>1, BpsBound DEF minTokensOut
<1>14. quoted \in Nat /\ floor \in Nat
  BY <1>11, <1>12, <1>13
<1>15. /\ d \in Commands /\ d.kind = "create" /\ d.step = "ready" /\ d.tx = "create"
       /\ d.amount = okb /\ d.promised = quoted /\ d.minOut = floor /\ d.stale = stale
       /\ d.given = given
  <2>1. d = New("create", "ready", "create", okb, floor, to, quoted, stale, given, valid)
    BY <1>8 DEF NoCommand, New
  <2>2. "create" \in Kinds /\ "ready" \in Steps /\ "create" \in Transactions
    BY DEF Kinds, Steps, Transactions
  <2>3. Has(New("create", "ready", "create", okb, floor, to, quoted, stale, given, valid),
            "create", "ready", "create", okb, floor, quoted, stale, given)
    <3>1. PICK g \in BOOLEAN : g = given
      BY <1>4
    <3>2. stale \in BOOLEAN
      BY <1>7
    <3>3. Has(New("create", "ready", "create", okb, floor, to, quoted, stale, g, valid),
              "create", "ready", "create", okb, floor, quoted, stale, g)
      BY <1>1, <1>14, <2>2, <3>2, NewFields
    <3> QED
      BY <3>1, <3>3, Zenon
  <2>4. Has(d, "create", "ready", "create", okb, floor, quoted, stale, given)
    BY <2>1, <2>3, Zenon
  <2> QED
    BY <2>4 DEF Has
<1>16. call' = call /\ created' = created
  BY <1>9 DEF Start, vars, accounts
<1>17. d.given \/ d.stale \/ AsMirrored(d)
  <2>1. CASE ~given /\ ~stale
    <3>1. params = OnChain
      BY <1>7, <2>1
    <3>2. d.amount = okb /\ d.promised = quoted /\ d.minOut = floor
      BY <1>15
    <3>3. MirrorQuotable(OnChain, 0, okb) /\ quoted = quoteBuyAtOkbCum(OnChain, 0, okb).tokensOut
      BY <1>5, <1>9, <2>1, <3>1
    <3>4. floor <= quoted
      BY <1>13, <1>14, <2>1
    <3> QED
      BY <3>2, <3>3, <3>4 DEF AsMirrored
  <2> QED
    BY <1>15, <2>1
<1>18. CommandOK(Owner, d)'
  <2>1. Current(Owner, d)'
    BY <1>10, <1>15, <1>16 DEF Current, NotEntered
  <2>2. Shaped(d) /\ Approved(Owner, d)' /\ Chunked(Owner, d)'
    BY <1>15 DEF Shaped, Approved, Chunked
  <2>3. Floored(Owner, d)'
    BY <1>9, <1>15, <1>16, <1>17 DEF Floored, AsMirrored
  <2> QED
    BY <2>1, <2>2, <2>3 DEF CommandOK
<1> QED
  BY <1>1, <1>9, <1>10, <1>15, <1>18, Started

-----------------------------------------------------------------------------
(* The steps of a command that change no state of the chain.               *)

(***************************************************************************)
(* A command that goes to another of its steps knows what it knew.         *)
(***************************************************************************)
LEMMA StepOK ==
    ASSUME NEW u \in Users, NEW c \in Commands, CommandOK(u, c), NEW s \in Steps,
           s # "wait", Shaped([c EXCEPT !.step = s]), c.kind # "none",
           UNCHANGED <<vars, hookImplementation, created, wallet, smoke>>,
           c.tx = "sell" /\ s \in {"ready", "sent"} => c.amount <= allowance'[u],
           s = "sent" => /\ allowance' = allowance
                         /\ Value(c) <= wallet[u] /\ Accepted(u, c)
    PROVE  /\ [c EXCEPT !.step = s] \in Commands /\ [c EXCEPT !.step = s].kind = c.kind
           /\ CommandOK(u, [c EXCEPT !.step = s])'
<1>1. PICK d : d = [c EXCEPT !.step = s]
  OBVIOUS
<1>2. /\ d \in Commands /\ d.step = s /\ Shaped(d)
      /\ d.kind = c.kind /\ d.tx = c.tx /\ d.amount = c.amount /\ d.minOut = c.minOut
      /\ d.promised = c.promised /\ d.since = c.since /\ d.seen = c.seen /\ d.stale = c.stale
      /\ d.given = c.given /\ d.valid = c.valid
  BY <1>1 DEF Commands
<1>3. d.moved = c.moved /\ c.moved \in BOOLEAN
  BY <1>1 DEF Commands
<1>4. /\ world' = world /\ call' = call /\ block' = block /\ created' = created
      /\ wallet' = wallet /\ smoke' = smoke
  BY DEF vars
<1>5. Approved(u, d)'
  BY <1>2 DEF Approved
<1>6. Chunked(u, d)'
  BY <1>2, <1>4 DEF CommandOK, Chunked, InChunk, Chunk
<1>7. Floored(u, d)'
  <2>1. c.kind = "create" => c.tx = "create"
    BY DEF CommandOK, Shaped
  <2>2. c.kind = "create" /\ s = "sent" => c.amount <= wallet[u]
    BY <2>1 DEF Value
  <2>3. AsMirrored(c) => AsMirrored(d)
    BY <1>2 DEF AsMirrored
  <2> QED
    BY <1>2, <1>4, <2>2, <2>3 DEF CommandOK, Floored, AsMirrored
<1>8. Current(u, d)'
  <2>1. Value(d) = Value(c) /\ Payout(d) = Payout(c)
    BY <1>2 DEF Value, Payout
  <2>2. Payout(d)' = Payout(d) /\ \A f \in Fields : Answer(f)' = Answer(f)
    BY <1>4 DEF Payout, Answer
  <2>3. s = "sent" => Accepted(u, d)'
    BY <1>2, <1>4 DEF Accepted, MayBuy, MaySell, MayClaim, BuysOpen, NotEntered,
                      ReserveSuffices, Reserve, FactoryTakes
  <2>4. NotEntered' = NotEntered
    BY <1>4 DEF NotEntered
  <2>5. SUFFICES ASSUME c.kind # "none", ~c.moved
                 PROVE  Current(u, d)'
    BY <1>2, <1>3 DEF Current
  <2>6. /\ NotEntered
        /\ c.kind \in {"buy", "sell", "claim"} => Payout(c) = c.promised
        /\ c.kind = "smoke" /\ c.tx = "sell" => world.lastBuyBlock[u] < block
        /\ c.kind = "inspect" => \A f \in Fields : c.seen[f] \in {Unread, Answer(f)}
    BY <2>5 DEF CommandOK, Current
  <2>7. /\ d.step = "sent" => Value(d) <= wallet'[u]
        /\ d.kind \in {"buy", "sell", "claim"} => Payout(d)' = d.promised
        /\ d.kind = "smoke" /\ d.tx = "sell" => world'.lastBuyBlock[u] < block'
        /\ d.kind = "inspect" => \A f \in Fields : d.seen[f] \in {Unread, Answer(f)'}
    BY <1>2, <1>4, <2>1, <2>2, <2>6
  <2> QED
    BY <1>2, <2>3, <2>4, <2>6, <2>7 DEF Current
<1> QED
  BY <1>1, <1>2, <1>5, <1>6, <1>7, <1>8 DEF CommandOK

(***************************************************************************)
(* A smoke account that nobody has overtaken sells what it may, or has too *)
(* little, or the curve has: the reserve always suffices.                  *)
(***************************************************************************)
LEMMA RefusedSellLacks ==
    ASSUME CInv, NEW u \in Users, NEW c \in Commands, c = command[u], ~c.moved,
           c.kind = "smoke", c.tx = "sell", c.step \in {"ready", "sent"}, ~Accepted(u, c)
    PROVE  Lacking(u, c)
<1>1. CommandOK(u, c)
  BY Typed
<1>2. /\ NotEntered /\ world.lastBuyBlock[u] < block
      /\ c.amount <= allowance[u] /\ c.minOut = 0 /\ c.amount \in Nat
  BY <1>1 DEF CommandOK, Current, Approved, Shaped, Commands
<1>3. world.lastBuyBlock[u] \in Nat /\ block \in Nat /\ u \in Accounts
  BY Typed
<1> SUFFICES ASSUME c.amount <= world.balanceOf[u], SellQuotable(world.okbCum, c.amount)
             PROVE  FALSE
  <2>1. world.balanceOf[u] \in Nat
    BY <1>3, Typed DEF Worlds
  <2>2. ~(c.amount <= world.balanceOf[u] /\ SellQuotable(world.okbCum, c.amount))
    OBVIOUS
  <2>3. world.balanceOf[u] < c.amount \/ ~SellQuotable(world.okbCum, c.amount)
    BY <1>2, <2>1, <2>2
  <2> QED
    BY <2>3 DEF Lacking
<1>4. /\ world.okbCum \in Nat /\ world.donated \in Nat /\ world.balance \in Nat
      /\ world.claimableFeeOkb \in Nat
  BY Typed DEF Worlds
<1>5. Reserve(world) = world.donated + world.okbCum
  BY DEF CInv, ChainOK, IInv, Good, Backed
<1>6. PICK q : q = quoteSell(world.okbCum, c.amount)
  OBVIOUS
<1>7. /\ q.newOkbCum \in Nat /\ q.grossOkbOut \in Nat
      /\ q.newOkbCum + q.grossOkbOut = world.okbCum /\ q.netOkbOut \in Nat
  BY <1>2, <1>4, <1>6, SellQuoteConserves
<1>8. ReserveSuffices(world, q.grossOkbOut)
  BY <1>4, <1>5, <1>7 DEF ReserveSuffices
<1>9. MaySell(u, c.amount, c.minOut)
  BY <1>2, <1>3, <1>6, <1>7, <1>8 DEF MaySell
<1> QED
  BY <1>2, <1>9 DEF Accepted

(***************************************************************************)
(* A creation the factory takes is refused for a floor of its user's that  *)
(* the first buy does not pay or, quoted as the contract would have, for   *)
(* one that is closer to the quote than the rounding.                      *)
(***************************************************************************)
LEMMA RefusedCreateRounds ==
    ASSUME CInv, NEW u \in Users, NEW c \in Commands, c = command[u],
           c.kind = "create", FactoryTakes(c), ~Accepted(u, c)
    PROVE  \/ c.given /\ Lacking(u, c)
           \/ ~c.given /\ (c.stale \/ c.promised - c.minOut \in 0..(MirrorDust - 1))
<1>1. CommandOK(u, c)
  BY Typed
<1>2. /\ ~created /\ c.tx = "create" /\ (c.given \/ c.stale \/ AsMirrored(c))
      /\ c.amount \in Nat /\ c.promised \in Nat /\ c.minOut \in Nat
  BY <1>1 DEF CommandOK, Floored, Shaped, Commands
<1>3. world.okbCum = 0 /\ ~world.selfDeprecated /\ NotEntered
  BY <1>2 DEF CInv, Fresh
<1>4. PICK paid : paid = quoteBuy(0, c.amount).tokensOut
  OBVIOUS
<1>5. ~(BuyQuotable(0, c.amount) /\ paid >= c.minOut)
  BY <1>2, <1>3, <1>4 DEF Accepted, MayBuy, BuysOpen
<1>6. CASE c.given
  <2>1. BuyQuotable(0, c.amount) => paid \in Nat
    BY <1>2, <1>4, BuyQuoteConserves
  <2>2. ~BuyQuotable(0, c.amount) \/ paid < c.minOut
    BY <1>2, <1>5, <2>1
  <2> QED
    BY <1>2, <1>3, <1>4, <1>6, <2>2 DEF Lacking
<1>7. CASE ~c.given /\ ~c.stale
  <2>1. /\ BuyQuotable(0, c.amount) /\ paid \in Nat
        /\ c.promised <= paid + MirrorDust /\ c.minOut <= c.promised
    BY <1>2, <1>4, <1>7, MirrorIsClose DEF AsMirrored
  <2>2. MirrorDust \in Nat
    BY MirrorAssumption
  <2>3. c.promised - c.minOut \in 0..(MirrorDust - 1)
    BY <1>2, <1>5, <2>1, <2>2
  <2> QED
    BY <1>7, <2>3
<1> QED
  BY <1>6, <1>7

(***************************************************************************)
(* What a report has to show follows from what is known of its command.    *)
(***************************************************************************)
LEMMA ReportOK ==
    ASSUME NEW c \in Commands, NEW why \in Failures, NEW paid \in Nat, NEW short \in BOOLEAN,
           ~c.moved => /\ why # "reverted"
                       /\ why = "assert" => c.stale \/ short
                       /\ why = "none" /\ c.kind \in {"buy", "sell", "claim"} =>
                             paid = c.promised,
           c.kind = "smoke" /\ c.tx = "sell" /\ why # "none" => c.moved \/ short,
           c.kind = "create" /\ why \in {"refused", "reverted"} =>
             \/ ~FactoryTakes(c)
             \/ c.given /\ short
             \/ ~c.given /\ (c.stale \/ c.promised - c.minOut \in 0..(MirrorDust - 1))
    PROVE  OutcomeOK(Report(c, why, paid, short))
<1>1. PICK o : o = Report(c, why, paid, short)
  OBVIOUS
<1>2. /\ o.kind = c.kind /\ o.tx = c.tx /\ o.why = why /\ o.promised = c.promised
      /\ o.paid = paid /\ o.minOut = c.minOut /\ o.moved = c.moved
      /\ o.short = short /\ o.stale = c.stale /\ o.given = c.given
      /\ o.taken = FactoryTakes(c)
  BY <1>1, ReportFields
<1>3. c.moved \in BOOLEAN /\ c.stale \in BOOLEAN /\ c.given \in BOOLEAN
  BY DEF Commands
<1>4. AsShown(o)
  BY <1>2, <1>3 DEF AsShown
<1>5. SmokeSold(o)
  BY <1>2, <1>3 DEF SmokeSold
<1>6. WellRefused(o)
  BY <1>2, <1>3 DEF WellRefused
<1> QED
  BY <1>1, <1>4, <1>5, <1>6 DEF OutcomeOK

(***************************************************************************)
(* The command of an account, and what runs before there is a launch.      *)
(***************************************************************************)
LEMMA Running ==
    ASSUME CInv, NEW u \in Users
    PROVE  /\ command[u] \in Commands /\ CommandOK(u, command[u])
           /\ created \/ command[u].kind \in {"none", "create"}
BY Typed DEF CInv, Fresh

(***************************************************************************)
(* The node's estimate.                                                    *)
(***************************************************************************)
LEMMA SendKeeps ==
    ASSUME CInv, NEW u \in Users, Send(u), UNCHANGED <<smoke, left>>
    PROVE  CInv'
<1>1. PICK c \in Commands : c = command[u]
  BY Typed
<1>2. /\ CommandOK(u, c) /\ (created \/ c.kind \in {"none", "create"})
      /\ c.kind # "none" /\ c.step = "ready"
  BY <1>1, Running DEF Send
<1>3. Value(c) \in Nat /\ wallet[u] \in Nat
  BY Typed DEF Value, Commands
<1>4. CASE Value(c) > wallet[u] /\ EndWith(u, "funds")
  <2>1. ASSUME NEW short \in BOOLEAN
        PROVE  OutcomeOK(Report(c, "funds", 0, short))
    <3>1. c.tx # "sell"
      BY <1>3, <1>4 DEF Value
    <3>2. "funds" \in Failures
      BY DEF Failures
    <3> QED
      BY <3>1, <3>2, ReportOK
  <2>2. "funds" \in Failures
    BY DEF Failures
  <2> QED
    BY <1>1, <1>4, <2>1, <2>2, Ends
<1>5. CASE ~Accepted(u, c) /\ EndWith(u, "refused")
  <2>1. ASSUME NEW short \in BOOLEAN, short <=> Lacking(u, c)
        PROVE  OutcomeOK(Report(c, "refused", 0, short))
    <3>1. "refused" \in Failures
      BY DEF Failures
    <3>2. c.kind = "smoke" /\ c.tx = "sell" => c.moved \/ short
      BY <1>1, <1>2, <1>5, <2>1, RefusedSellLacks
    <3>3. c.kind = "create" =>
            \/ ~FactoryTakes(c)
            \/ c.given /\ short
            \/ ~c.given /\ (c.stale \/ c.promised - c.minOut \in 0..(MirrorDust - 1))
      BY <1>1, <1>5, <2>1, RefusedCreateRounds
    <3> QED
      BY <3>1, <3>2, <3>3, ReportOK
  <2>2. "refused" \in Failures
    BY DEF Failures
  <2> QED
    BY <1>1, <1>5, <2>1, <2>2, Ends
<1>6. CASE Value(c) <= wallet[u] /\ Accepted(u, c) /\ Proceed(u, [c EXCEPT !.step = "sent"])
  <2>1. /\ UNCHANGED <<vars, hookImplementation, created, wallet, smoke>>
        /\ allowance' = allowance
    BY <1>6 DEF Proceed, accounts, setup
  <2>2. Shaped([c EXCEPT !.step = "sent"])
    BY <1>2 DEF CommandOK, Shaped, Commands
  <2>3. c.tx = "sell" => c.amount <= allowance'[u]
    BY <1>2, <2>1 DEF CommandOK, Approved
  <2>4. "sent" \in Steps /\ "sent" # "wait"
    BY DEF Steps
  <2>5. PICK d : d = [c EXCEPT !.step = "sent"]
    OBVIOUS
  <2>6. d \in Commands /\ d.kind = c.kind /\ CommandOK(u, d)'
    BY <1>2, <1>6, <2>1, <2>2, <2>3, <2>4, <2>5, StepOK
  <2>7. Proceed(u, d)
    BY <1>6, <2>5
  <2> QED
    BY <1>2, <2>6, <2>7, Proceeds
<1> QED
  BY <1>1, <1>3, <1>4, <1>5, <1>6 DEF Send

(***************************************************************************)
(* A transaction that reverts.                                             *)
(***************************************************************************)
LEMMA RevertKeeps ==
    ASSUME CInv, NEW u \in Users, command[u].kind # "none", command[u].step = "sent",
           ~(Value(command[u]) <= wallet[u] /\ Accepted(u, command[u])),
           EndWith(u, "reverted"), UNCHANGED <<smoke, left>>
    PROVE  CInv'
<1>1. PICK c \in Commands : c = command[u] /\ CommandOK(u, c)
  BY Running
<1>2. c.moved
  BY <1>1 DEF CommandOK, Current
<1>3. "reverted" \in Failures
  BY DEF Failures
<1>4. ASSUME NEW short \in BOOLEAN, short <=> Lacking(u, c)
      PROVE  OutcomeOK(Report(c, "reverted", 0, short))
  <2>1. c.kind = "create" =>
          \/ ~FactoryTakes(c)
          \/ c.given /\ short
          \/ ~c.given /\ (c.stale \/ c.promised - c.minOut \in 0..(MirrorDust - 1))
    <3>1. c.kind = "create" => Value(c) <= wallet[u]
      BY <1>1 DEF CommandOK, Floored, Shaped, Value
    <3> QED
      BY <1>1, <1>4, <3>1, RefusedCreateRounds
  <2> QED
    BY <1>2, <1>3, <2>1, ReportOK
<1> QED
  BY <1>1, <1>3, <1>4, Ends

(***************************************************************************)
(* The approval of what is to be sold.                                     *)
(***************************************************************************)
LEMMA ApproveKeeps ==
    ASSUME CInv, NEW u \in Users, Approve(u), UNCHANGED <<smoke, left>>
    PROVE  CInv'
<1>1. PICK c \in Commands : c = command[u]
  BY Typed
<1>2. /\ CommandOK(u, c) /\ (created \/ c.kind \in {"none", "create"})
      /\ c.kind # "none" /\ c.step = "approve"
  BY <1>1, Running DEF Approve
<1>3. /\ UNCHANGED <<vars, setup, created, recorded, wallet, smoke>>
      /\ outcome' = outcome /\ left' = left
  BY DEF Approve
<1>4. allowance' = [allowance EXCEPT ![u] = c.amount] /\ c.amount \in Nat
  BY <1>1 DEF Approve, Commands
<1>5. /\ allowance' \in [Users -> Nat] /\ allowance'[u] = c.amount
      /\ \A v \in Users \ {u} : allowance'[v] = allowance[v]
  BY <1>4 DEF CInv, Types
<1>6. PICK d : d = [c EXCEPT !.step = "ready"]
  OBVIOUS
<1>7. command' = [command EXCEPT ![u] = d]
  BY <1>1, <1>6 DEF Approve
<1>8. Shaped([c EXCEPT !.step = "ready"])
  BY <1>2 DEF CommandOK, Shaped, Commands
<1>9. "ready" \in Steps /\ "ready" # "wait" /\ c.amount <= allowance'[u]
  BY <1>4, <1>5 DEF Steps
<1>9a. UNCHANGED <<vars, hookImplementation, created, wallet, smoke>>
  BY <1>3 DEF setup
<1>10. d \in Commands /\ d.kind = c.kind /\ CommandOK(u, d)'
  BY <1>2, <1>6, <1>8, <1>9, <1>9a, StepOK
<1>11. /\ outcome' \in [Users -> Outcomes] /\ left' \in 0..MaxCommands
       /\ \A v \in Users : OutcomeOK(outcome'[v])
  BY <1>3 DEF CInv, Types
<1> QED
  BY <1>2, <1>3, <1>5, <1>7, <1>10, <1>11, OwnStep

(***************************************************************************)
(* The look at selfDeprecated before each buy of simulate-graduation.      *)
(***************************************************************************)
LEMMA CheckGraduationKeeps ==
    ASSUME CInv, NEW u \in Users, CheckGraduation(u), UNCHANGED <<smoke, left>>
    PROVE  CInv'
<1>1. PICK c \in Commands : c = command[u]
  BY Typed
<1>2. /\ CommandOK(u, c) /\ (created \/ c.kind \in {"none", "create"})
      /\ c.kind = "graduate" /\ c.step = "check"
  BY <1>1, Running DEF CheckGraduation
<1>3. ASSUME NEW why \in {"none", "max-buys"}, EndWith(u, why)
      PROVE  CInv'
  <2>1. why \in Failures /\ why # "reverted" /\ why # "assert" /\ why # "refused"
    BY DEF Failures
  <2>2. ASSUME NEW short \in BOOLEAN
        PROVE  OutcomeOK(Report(c, why, 0, short))
    BY <1>2, <2>1, ReportOK
  <2> QED
    BY <1>1, <1>3, <2>1, <2>2, Ends
<1>4. CASE Proceed(u, [c EXCEPT !.step = "ready"])
  <2>1. /\ UNCHANGED <<vars, hookImplementation, created, wallet, smoke>>
        /\ allowance' = allowance
    BY <1>4 DEF Proceed, accounts, setup
  <2>2. Shaped([c EXCEPT !.step = "ready"]) /\ c.tx # "sell"
    BY <1>2 DEF CommandOK, Shaped, Commands
  <2>3. "ready" \in Steps /\ "ready" # "wait"
    BY DEF Steps
  <2>4. PICK d : d = [c EXCEPT !.step = "ready"]
    OBVIOUS
  <2>5. d \in Commands /\ d.kind = c.kind /\ CommandOK(u, d)'
    BY <1>2, <2>1, <2>2, <2>3, <2>4, StepOK
  <2>6. Proceed(u, d)
    BY <1>4, <2>4
  <2> QED
    BY <1>2, <2>5, <2>6, Proceeds
<1> QED
  BY <1>1, <1>3, <1>4 DEF CheckGraduation

(***************************************************************************)
(* What the inspection has read adds up, unless the sells were rounded by  *)
(* more than it takes for dust.                                            *)
(***************************************************************************)
LEMMA ReadsTrack ==
    ASSUME CInv, NEW seen, Dust(world) <= DustLimit,
           \A f \in Fields : seen[f] = Answer(f)
    PROVE  TracksMinted(seen)
<1>1. /\ seen.totalSupply = world.totalSupply
      /\ seen.taxBurnedTokens = world.taxBurnedTokens
      /\ seen.totalMinted = totalMinted(world.okbCum)
  BY DEF Fields, Answer
<1>2. world \in Worlds /\ ExpDefined(world.okbCum)
  BY DEF CInv, ChainOK, IInv, TypeOK, Good
<1>3. /\ world.totalSupply \in Nat /\ world.taxBurnedTokens \in Nat
      /\ totalMinted(world.okbCum) \in 0..K
  BY <1>2, GoodTypes
<1>4. world.totalSupply + world.taxBurnedTokens - totalMinted(world.okbCum)
        \in -Dust(world)..Dust(world)
  BY DEF CInv, ChainOK, IInv, Good, OnCurve
<1>5. Dust(world) \in Nat /\ DustLimit \in Nat
  <2>1. world.sells \in Nat
    BY <1>2 DEF Worlds
  <2> QED
    BY <2>1, RoundTripAssumption, CommandsAssumption DEF Dust
<1>6. PICK n : n = world.totalSupply + world.taxBurnedTokens - totalMinted(world.okbCum)
  OBVIOUS
<1>7. K \in Nat
  BY ParamsAssumption DEF ValidParams
<1>8. n \in -DustLimit..DustLimit
  <2>1. n \in Int
    BY <1>3, <1>6, <1>7
  <2>2. n \in -Dust(world)..Dust(world)
    BY <1>4, <1>6
  <2> QED
    BY <1>5, <2>1, <2>2
<1> QED
  BY <1>1, <1>6, <1>8 DEF TracksMinted

(***************************************************************************)
(* One read of the inspection, and its verdict after the last.             *)
(***************************************************************************)
LEMMA ReadFieldKeeps ==
    ASSUME CInv, NEW u \in Users, ReadField(u), UNCHANGED <<smoke, left>>
    PROVE  CInv'
<1>1. PICK c \in Commands : c = command[u]
  BY Typed
<1>2. PICK f \in {g \in Fields : c.seen[g] = Unread} :
        LET seen == [c.seen EXCEPT ![f] = Answer(f)]
        IN  /\ c.kind = "inspect" /\ c.step = "read"
            /\ IF \E g \in Fields : seen[g] = Unread THEN Proceed(u, [c EXCEPT !.seen = seen])
               ELSE IF ~c.stale /\ seen.taxBurnedTokens > 0 /\ TracksMinted(seen)
                    THEN EndWith(u, "none") ELSE EndWith(u, "assert")
  BY <1>1 DEF ReadField
<1>3. /\ CommandOK(u, c) /\ (created \/ c.kind \in {"none", "create"})
      /\ c.kind = "inspect" /\ c.step = "read"
  BY <1>1, <1>2, Running
<1>4. PICK seen : seen = [c.seen EXCEPT ![f] = Answer(f)]
  OBVIOUS
<1>5. \A g \in Fields : Answer(g) \in Nat
  <2>1. world \in Worlds /\ ExpDefined(world.okbCum)
    BY DEF CInv, ChainOK, IInv, TypeOK, Good
  <2>2. /\ world.totalSupply \in Nat /\ world.taxBurnedTokens \in Nat
        /\ totalMinted(world.okbCum) \in 0..K
    BY <2>1, GoodTypes
  <2>3. totalMinted(world.okbCum) \in Nat
    BY <2>2, ParamsAssumption DEF ValidParams
  <2> QED
    BY <2>2, <2>3 DEF Answer, Fields
<1>6. c.seen \in [Fields -> Nat \cup {Unread}] /\ c.stale \in BOOLEAN /\ c.moved \in BOOLEAN
  BY DEF Commands
<1>7. /\ seen \in [Fields -> Nat \cup {Unread}]
      /\ seen[f] = Answer(f) /\ \A g \in Fields \ {f} : seen[g] = c.seen[g]
  BY <1>2, <1>4, <1>5, <1>6
<1>8. ~c.moved => \A g \in Fields : seen[g] \in {Unread, Answer(g)}
  BY <1>3, <1>7 DEF CommandOK, Current
<1>9. CASE Proceed(u, [c EXCEPT !.seen = seen])
  <2>1. PICK d : d = [c EXCEPT !.seen = seen]
    OBVIOUS
  <2>2. /\ d \in Commands /\ d.kind = "inspect" /\ d.step = "read" /\ d.tx = "buy"
        /\ d.seen = seen /\ d.moved = c.moved
    BY <1>3, <1>7, <2>1 DEF Commands, CommandOK, Shaped
  <2>3. Proceed(u, d)
    BY <1>9, <2>1
  <2>4. world' = world /\ call' = call
    BY <2>3 DEF Proceed, vars
  <2>5. CommandOK(u, d)'
    <3>1. \A g \in Fields : Answer(g)' = Answer(g)
      BY <2>4 DEF Answer
    <3>2. ~c.moved => NotEntered
      BY <1>3 DEF CommandOK, Current
    <3>3. Current(u, d)'
      BY <1>6, <1>8, <2>2, <2>4, <3>1, <3>2 DEF Current, NotEntered
    <3>4. Shaped(d) /\ Approved(u, d)' /\ Floored(u, d)' /\ Chunked(u, d)'
      BY <2>2 DEF Shaped, Approved, Floored, Chunked
    <3> QED
      BY <3>3, <3>4 DEF CommandOK
  <2> QED
    BY <1>3, <2>2, <2>3, <2>5, Proceeds
<1>10. CASE EndWith(u, "none")
  <2>1. "none" \in Failures
    BY DEF Failures
  <2>2. ASSUME NEW short \in BOOLEAN
        PROVE  OutcomeOK(Report(c, "none", 0, short))
    BY <1>3, <2>1, ReportOK
  <2> QED
    BY <1>1, <1>10, <2>1, <2>2, Ends
<1>11. CASE /\ EndWith(u, "assert") /\ ~ \E g \in Fields : seen[g] = Unread
            /\ ~(~c.stale /\ seen.taxBurnedTokens > 0 /\ TracksMinted(seen))
  <2>1. "assert" \in Failures
    BY DEF Failures
  <2>2. ~c.moved /\ ~c.stale => Lacking(u, c)
    <3> SUFFICES ASSUME ~c.moved, ~c.stale
                 PROVE  world.taxBurnedTokens = 0 \/ Dust(world) > DustLimit
      BY <1>3 DEF Lacking
    <3>1. \A g \in Fields : seen[g] = Answer(g)
      BY <1>8, <1>11
    <3>2. seen.taxBurnedTokens = world.taxBurnedTokens /\ world.taxBurnedTokens \in Nat
      BY <1>5, <3>1 DEF Fields, Answer
    <3>3. Dust(world) \in Nat /\ DustLimit \in Nat
      <4>1. world.sells \in Nat
        BY Typed DEF Worlds
      <4> QED
        BY <4>1, RoundTripAssumption, CommandsAssumption DEF Dust
    <3>4. Dust(world) <= DustLimit => TracksMinted(seen)
      BY <3>1, ReadsTrack
    <3>5. ~(seen.taxBurnedTokens > 0) \/ ~TracksMinted(seen)
      BY <1>11
    <3> QED
      BY <3>2, <3>3, <3>4, <3>5
  <2>3. ASSUME NEW short \in BOOLEAN, short <=> Lacking(u, c)
        PROVE  OutcomeOK(Report(c, "assert", 0, short))
    BY <1>3, <2>1, <2>2, <2>3, ReportOK
  <2> QED
    BY <1>1, <1>11, <2>1, <2>3, Ends
<1> QED
  BY <1>2, <1>4, <1>9, <1>10, <1>11

(***************************************************************************)
(* waitForNextBlock: no later buy came in for the account, so it may sell. *)
(***************************************************************************)
LEMMA WaitKeeps ==
    ASSUME CInv, NEW u \in Users, waitForNextBlock(u), UNCHANGED <<smoke, left>>
    PROVE  CInv'
<1>1. PICK c \in Commands : c = command[u]
  BY Typed
<1>2. /\ CommandOK(u, c) /\ (created \/ c.kind \in {"none", "create"})
      /\ c.kind = "smoke" /\ c.step = "wait" /\ block > c.since
      /\ Proceed(u, SellNext(c))
  BY <1>1, Running DEF waitForNextBlock, LaterBlock
<1>3. PICK d : d = SellNext(c)
  OBVIOUS
<1>4. /\ d \in Commands /\ d.kind = "smoke" /\ d.step = "approve" /\ d.tx = "sell"
      /\ d.amount = SmokeSell /\ d.minOut = c.minOut /\ d.moved = c.moved
      /\ c.since \in Nat /\ c.moved \in BOOLEAN
  BY <1>2, <1>3, CommandsAssumption DEF SellNext, Commands, Kinds, Steps, Transactions
<1>5. Proceed(u, d)
  BY <1>2, <1>3
<1>6. /\ world' = world /\ call' = call /\ block' = block /\ smoke' = smoke
  BY <1>5 DEF Proceed, vars
<1>7. world.lastBuyBlock[u] \in Nat /\ block \in Nat
  BY Typed
<1>8. Current(u, d)'
  <2>1. ~c.moved => NotEntered /\ world.lastBuyBlock[u] <= c.since
    BY <1>2 DEF CommandOK, Current
  <2>2. ~c.moved => world.lastBuyBlock[u] < block
    BY <1>2, <1>4, <1>7, <2>1
  <2> QED
    BY <1>4, <1>6, <2>1, <2>2 DEF Current, NotEntered
<1>9. Shaped(d)
  BY <1>2, <1>4 DEF Shaped, CommandOK
<1>10. Approved(u, d)' /\ Floored(u, d)'
  BY <1>4 DEF Approved, Floored
<1>11. Chunked(u, d)'
  BY <1>2, <1>4, <1>6 DEF CommandOK, Chunked, InChunk, Chunk
<1>12. CommandOK(u, d)'
  BY <1>8, <1>9, <1>10, <1>11 DEF CommandOK
<1> QED
  BY <1>2, <1>4, <1>5, <1>12, Proceeds

(***************************************************************************)
(* A minute without a block: the account has not come to its sell.         *)
(***************************************************************************)
LEMMA TimeOutKeeps ==
    ASSUME CInv, NEW u \in Users, WaitTimesOut(u), UNCHANGED <<smoke, left>>
    PROVE  CInv'
<1>1. PICK c \in Commands : c = command[u]
  BY Typed
<1>2. /\ CommandOK(u, c) /\ c.kind = "smoke" /\ c.step = "wait" /\ EndWith(u, "timeout")
  BY <1>1, Running DEF WaitTimesOut
<1>3. c.tx = "buy" /\ "timeout" \in Failures
  BY <1>2 DEF CommandOK, Shaped, Failures
<1>4. ASSUME NEW short \in BOOLEAN
      PROVE  OutcomeOK(Report(c, "timeout", 0, short))
  BY <1>2, <1>3, ReportOK
<1> QED
  BY <1>1, <1>2, <1>3, <1>4, Ends

-----------------------------------------------------------------------------
(* The steps that change the chain.                                        *)

(***************************************************************************)
(* A transaction that is accepted pays a natural number.                   *)
(***************************************************************************)
LEMMA Pays ==
    ASSUME CInv, NEW u \in Users, NEW c \in Commands, Accepted(u, c)
    PROVE  Payout(c) \in Nat
<1>1. world.okbCum \in Nat /\ world.claimableFeeOkb \in Nat /\ c.amount \in Nat
  BY Typed DEF Worlds, Commands
<1>2. CASE c.tx \in {"buy", "create"}
  <2>1. BuyQuotable(world.okbCum, c.amount)
    BY <1>2 DEF Accepted, MayBuy
  <2>2. quoteBuy(world.okbCum, c.amount).tokensOut \in Nat
    BY <1>1, <2>1, BuyQuoteConserves
  <2> QED
    BY <1>2, <2>2 DEF Payout
<1>3. CASE c.tx = "sell"
  <2>1. SellQuotable(world.okbCum, c.amount)
    BY <1>3 DEF Accepted, MaySell
  <2>2. quoteSell(world.okbCum, c.amount).netOkbOut \in Nat
    BY <1>1, <2>1, SellQuoteConserves
  <2> QED
    BY <1>3, <2>2 DEF Payout
<1>4. CASE c.tx = "claim"
  BY <1>1, <1>4 DEF Payout
<1> QED
  BY <1>2, <1>3, <1>4 DEF Commands, Transactions

(***************************************************************************)
(* Whatever transaction is mined, the launch stays sound.                  *)
(***************************************************************************)
LEMMA Executed ==
    ASSUME CInv, NEW u \in Users, NEW c \in Commands, Execute(u, c)
    PROVE  /\ ChainOK' /\ block' = block
           /\ c.tx \in {"buy", "create"} => NotEntered'
<1>1. /\ IInv /\ Counted(world) /\ Counted(saved) /\ ~world.liquidityMigrated
      /\ \A a \in Accounts : world.lastBuyBlock[a] <= block
  BY DEF CInv, ChainOK
<1>2. /\ c.recipient \in Users /\ c.recipient \in Users \cup {Hook}
      /\ c.amount \in Nat
  BY DEF Commands
<1>3. \A a \in Accounts : world.lastBuyBlock[a] \in Nat
  BY Typed
<1>4. world.lastBuyBlock \in [Accounts -> Nat] /\ block \in Nat
  BY Typed DEF Worlds
<1>5. CASE c.tx \in {"buy", "create"} /\ Buy(u, c.recipient, c.amount, c.minOut)
  <2>1. IInv'
    BY <1>1, <1>2, <1>5, BuyKeeps DEF Kept
  <2>2. /\ Counted(world') /\ saved' = world' /\ call' = "none" /\ block' = block
        /\ ~world'.liquidityMigrated
        /\ world'.lastBuyBlock = MarkBuyers(world.lastBuyBlock, u, c.recipient)
    BY <1>1, <1>2, <1>5, BuyCounts
  <2>3. \A a \in Accounts : world'.lastBuyBlock[a] <= block'
    BY <1>1, <1>4, <2>2 DEF MarkBuyers
  <2>4. Counted(world)' /\ Counted(saved)'
    BY <2>2 DEF Counted
  <2> QED
    BY <2>1, <2>2, <2>3, <2>4 DEF ChainOK, NotEntered
<1>6. CASE c.tx = "sell" /\ Sell(u, c.recipient, c.amount, c.minOut)
  <2>1. /\ c.amount <= world.totalSupply
        /\ Counted(world') /\ block' = block
        /\ \/ saved' = world' /\ call' = "none"
           \/ saved' = saved /\ call' = "sell"
        /\ world'.liquidityMigrated = world.liquidityMigrated
        /\ world'.lastBuyBlock = world.lastBuyBlock
    BY <1>1, <1>2, <1>6, SellCounts
  <2>2. c.amount \in 0..world.totalSupply
    <3>1. world.totalSupply \in Nat
      BY Typed DEF Worlds
    <3> QED
      BY <1>2, <2>1, <3>1
  <2>3. IInv'
    BY <1>1, <1>2, <1>6, <2>2, SellKeeps DEF Kept
  <2>4. Counted(world)' /\ Counted(saved)'
    BY <1>1, <2>1 DEF Counted
  <2> QED
    BY <1>1, <1>6, <2>1, <2>3, <2>4 DEF ChainOK
<1>7. CASE c.tx = "claim" /\ ClaimFees(c.recipient)
  <2>1. /\ Counted(world') /\ saved' = saved /\ call' = "claim" /\ block' = block
        /\ world'.liquidityMigrated = world.liquidityMigrated
        /\ world'.lastBuyBlock = world.lastBuyBlock
    BY <1>1, <1>2, <1>7, ClaimCounts
  <2>2. IInv'
    BY <1>1, <1>2, <1>7, ClaimFeesKeeps DEF Kept
  <2>3. Counted(world)' /\ Counted(saved)'
    BY <1>1, <2>1 DEF Counted
  <2> QED
    BY <1>1, <1>7, <2>1, <2>2, <2>3 DEF ChainOK
<1> QED
  BY <1>5, <1>6, <1>7 DEF Execute

(***************************************************************************)
(* A transaction overtakes every command but its own.                      *)
(***************************************************************************)
LEMMA OthersOvertaken ==
    ASSUME CInv, NEW u \in Users, NEW d \in Commands, CommandOK(u, d)',
           command' = Moved(u, d), smoke' = smoke,
           \A v \in Users \ {u} : allowance'[v] = allowance[v],
           \A v \in Users \ {u} : command[v].kind = "create" =>
              ~created' /\ wallet'[v] = wallet[v]
    PROVE  /\ command' \in [Users -> Commands]
           /\ \A v \in Users : CommandOK(v, command[v])'
           /\ command'[u] = d
           /\ \A v \in Users \ {u} : command'[v].kind = command[v].kind
<1>1. command'[u] = d
  BY DEF Moved
<1>2. ASSUME NEW v \in Users \ {u}
      PROVE  /\ command'[v] \in Commands /\ CommandOK(v, command[v])'
             /\ command'[v].kind = command[v].kind
  <2>1. PICK c \in Commands : c = command[v] /\ CommandOK(v, c)
    BY Typed
  <2>2. PICK e : e = Overtaken(c)
    OBVIOUS
  <2>3. command'[v] = e
    BY <1>2, <2>1, <2>2 DEF Moved, Overtaken
  <2>4. e \in Commands /\ e.kind = c.kind
    BY <2>1, <2>2, OvertakenFields DEF CommandOK
  <2>5. Chunked(v, c)'
    BY <2>1 DEF CommandOK, Chunked, InChunk, Chunk
  <2>6. c.kind = "create" => ~created' /\ (c.step = "sent" => c.amount <= wallet'[v])
    BY <2>1 DEF CommandOK, Floored
  <2>7. allowance'[v] = allowance[v] /\ v \in Users
    OBVIOUS
  <2>8. CommandOK(v, Overtaken(c))'
    BY <2>1, <2>5, <2>6, <2>7, OvertakenOK
  <2>9. CommandOK(v, e)'
    BY <2>2, <2>8
  <2> QED
    BY <2>1, <2>3, <2>4, <2>9
<1>3. ASSUME NEW v \in Users
      PROVE  command'[v] \in Commands /\ CommandOK(v, command[v])'
  BY <1>1, <1>2
<1>4. command' = [v \in Users |-> command'[v]]
  BY DEF Moved
<1> QED
  BY <1>1, <1>2, <1>3, <1>4

(***************************************************************************)
(* What a mined transaction does to the purses.                            *)
(***************************************************************************)
LEMMA Purses ==
    ASSUME CInv, NEW u \in Users, NEW c \in Commands, Execute(u, c),
           Value(c) <= wallet[u], Accepted(u, c)
    PROVE  /\ network' = network /\ endpoint' = endpoint
           /\ hookImplementation' = hookImplementation
           /\ created' \in BOOLEAN /\ recorded' \in CurveParams
           /\ wallet' \in [Users -> Nat] /\ allowance' \in [Users -> Nat]
           /\ \A v \in Users \ {u} : allowance'[v] = allowance[v]
<1>1. /\ wallet \in [Users -> Nat] /\ allowance \in [Users -> Nat]
      /\ recorded \in CurveParams /\ created \in BOOLEAN
  BY DEF CInv, Types
<1>2. Value(c) \in Nat /\ c.amount \in Nat /\ c.recipient \in Users
  BY DEF Value, Commands
<1>3. Received(c) \in Nat
  BY Pays DEF Received
<1>4. /\ network' = network /\ endpoint' = endpoint
      /\ hookImplementation' = hookImplementation
  BY DEF Execute, setup
<1>5. created' \in BOOLEAN
  <2>1. created' = (created \/ c.tx = "create")
    BY DEF Execute
  <2> QED
    BY <2>1, Zenon
<1>6. recorded' \in CurveParams
  BY <1>1, OnChainIsParams DEF Execute
<1>7. wallet' \in [Users -> Nat]
  <2>1. PICK w : w = Spent(u, c)
    OBVIOUS
  <2>2. w \in [Users -> Nat]
    BY <1>1, <1>2, <2>1 DEF Spent
  <2>3. wallet' = [w EXCEPT ![c.recipient] = w[c.recipient] + Received(c)]
    BY <2>1 DEF Execute
  <2> QED
    BY <1>2, <1>3, <2>2, <2>3
<1>8. allowance' = IF c.tx = "sell" THEN [allowance EXCEPT ![u] = allowance[u] - c.amount]
                   ELSE allowance
  BY DEF Execute
<1>9. c.tx = "sell" => c.amount <= allowance[u]
  BY DEF Accepted
<1>10. allowance' \in [Users -> Nat] /\ \A v \in Users \ {u} : allowance'[v] = allowance[v]
  BY <1>1, <1>2, <1>8, <1>9
<1> QED
  BY <1>4, <1>5, <1>6, <1>7, <1>10

(***************************************************************************)
(* The command whose transaction was mined goes on or is done.             *)
(***************************************************************************)
LEMMA AfterReceiptOK ==
    ASSUME CInv, NEW u \in Users, NEW c \in Commands, CommandOK(u, c), c.kind # "none",
           c.step = "sent", Execute(u, c), smoke' = smoke,
           NEW d, d = AfterReceipt(c)
    PROVE  d \in Commands /\ CommandOK(u, d)'
<1>2. ChainOK' /\ block' = block /\ (c.tx \in {"buy", "create"} => NotEntered')
  BY Executed
<1>3. block \in Nat /\ u \in Accounts
  BY Typed
<1>4. c.moved \in BOOLEAN /\ c.buys \in Nat /\ Shaped(c)
  BY DEF Commands, CommandOK
<1>5. CASE c.kind = "graduate"
  <2>0. PICK n \in Nat : n = c.buys + 1
    BY <1>4
  <2>1. d = [c EXCEPT !.step = "check", !.buys = n]
    BY <1>5, <2>0 DEF AfterReceipt
  <2>2. /\ d \in Commands /\ d.kind = "graduate" /\ d.step = "check"
        /\ d.tx = "buy" /\ c.tx = "buy" /\ d.moved = c.moved
    BY <1>4, <1>5, <2>0, <2>1 DEF Commands, Steps, Shaped
  <2>3. Current(u, d)'
    BY <1>2, <2>2 DEF Current
  <2>4. Shaped(d) /\ Approved(u, d)' /\ Floored(u, d)' /\ Chunked(u, d)'
    BY <2>2 DEF Shaped, Approved, Floored, Chunked
  <2>5. CommandOK(u, d)'
    BY <2>3, <2>4 DEF CommandOK
  <2> QED
    BY <2>2, <2>5
<1>6. CASE c.kind = "smoke" /\ c.tx = "buy"
  <2>1. PICK b \in Nat : b = block
    BY <1>3
  <2>2. d = [c EXCEPT !.step = "wait", !.since = b]
    BY <1>6, <2>1 DEF AfterReceipt
  <2>3. /\ d \in Commands /\ d.kind = "smoke" /\ d.step = "wait" /\ d.tx = "buy"
        /\ d.moved = c.moved /\ d.since = b /\ d.minOut = c.minOut
    BY <1>6, <2>2 DEF Commands, Steps
  <2>4. world'.lastBuyBlock[u] <= b
    BY <1>2, <1>3, <2>1 DEF ChainOK
  <2>5. Current(u, d)'
    BY <1>2, <1>6, <2>3, <2>4 DEF Current
  <2>6. Shaped(d) /\ Approved(u, d)' /\ Floored(u, d)'
    BY <1>4, <1>6, <2>3 DEF Shaped, Approved, Floored
  <2>7. Chunked(u, d)'
    BY <1>6, <2>3 DEF CommandOK, Chunked, InChunk, Chunk
  <2>8. CommandOK(u, d)'
    BY <2>5, <2>6, <2>7 DEF CommandOK
  <2> QED
    BY <2>3, <2>8
<1>7. CASE c.kind # "graduate" /\ ~(c.kind = "smoke" /\ c.tx = "buy")
  <2>1. d = NoCommand
    BY <1>7 DEF AfterReceipt
  <2>2. NoCommand \in Commands /\ CommandOK(u, NoCommand)'
    BY NothingRuns
  <2> QED
    BY <2>1, <2>2
<1> QED
  BY <1>5, <1>6, <1>7

(***************************************************************************)
(* A transaction is mined, or reverts.                                     *)
(***************************************************************************)
LEMMA MineKeeps ==
    ASSUME CInv, NEW u \in Users, Mine(u), UNCHANGED <<smoke, left>>
    PROVE  CInv'
<1>1. PICK c \in Commands : c = command[u]
  BY Typed
<1>2. /\ CommandOK(u, c) /\ (created \/ c.kind \in {"none", "create"})
      /\ c.kind # "none" /\ c.step = "sent"
  BY <1>1, Running DEF Mine
<1>3. CASE ~(Value(c) <= wallet[u] /\ Accepted(u, c))
  <2>1. EndWith(u, "reverted")
    BY <1>1, <1>3 DEF Mine
  <2> QED
    BY <1>1, <1>2, <1>3, <2>1, RevertKeeps
<1>4. CASE Value(c) <= wallet[u] /\ Accepted(u, c)
  <2>1. /\ Execute(u, c)
        /\ command' = Moved(u, AfterReceipt(c))
        /\ IF AfterReceipt(c) = NoCommand THEN Ended(u, "none", Payout(c))
           ELSE UNCHANGED outcome
    BY <1>1, <1>4 DEF Mine
  <2>2. ChainOK'
    BY <2>1, Executed
  <2>3. PICK d : d = AfterReceipt(c)
    OBVIOUS
  <2>4. d \in Commands /\ CommandOK(u, d)'
    BY <1>2, <2>1, <2>3, AfterReceiptOK
  <2>5. created'
    <3>1. created' = (created \/ c.tx = "create")
      BY <2>1 DEF Execute
    <3>2. c.kind = "create" => c.tx = "create"
      BY <1>2 DEF CommandOK, Shaped
    <3> QED
      BY <1>2, <3>1, <3>2, Zenon
  <2>6. \A v \in Users \ {u} : command[v].kind # "create"
    <3> SUFFICES ASSUME NEW v \in Users \ {u}, command[v].kind = "create"
                 PROVE  FALSE
      OBVIOUS
    <3>1. v = Owner /\ ~created
      BY Running DEF CommandOK, Floored
    <3>2. u = Owner
      BY <1>2, <3>1 DEF CommandOK, Floored
    <3> QED
      BY <3>1, <3>2
  <2>7. /\ network' = network /\ endpoint' = endpoint
        /\ hookImplementation' = hookImplementation
        /\ created' \in BOOLEAN /\ recorded' \in CurveParams
        /\ wallet' \in [Users -> Nat] /\ allowance' \in [Users -> Nat]
        /\ \A v \in Users \ {u} : allowance'[v] = allowance[v]
    BY <1>4, <2>1, Purses
  <2>8. command' = Moved(u, d)
    BY <2>1, <2>3
  <2>9. /\ command' \in [Users -> Commands]
        /\ \A v \in Users : CommandOK(v, command[v])'
    BY <2>4, <2>6, <2>7, <2>8, OthersOvertaken
  <2>10. outcome' \in [Users -> Outcomes] /\ \A v \in Users : OutcomeOK(outcome'[v])
    <3>1. CASE outcome' = outcome
      BY <3>1 DEF CInv, Types
    <3>2. CASE Ended(u, "none", Payout(c))
      <4>1. PICK paid \in Nat : paid = Payout(c)
        BY <1>4, Pays
      <4>2. "none" \in Failures
        BY DEF Failures
      <4>3. Ended(u, "none", paid)
        BY <3>2, <4>1
      <4>4. PICK short \in BOOLEAN :
              outcome' = [outcome EXCEPT ![u] = Report(c, "none", paid, short)]
        BY <1>1, <4>2, <4>3, EndedReports
      <4>5. ~c.moved /\ c.kind \in {"buy", "sell", "claim"} => paid = c.promised
        BY <1>2, <4>1 DEF CommandOK, Current
      <4>6. PICK o : o = Report(c, "none", paid, short)
        OBVIOUS
      <4>7. o \in Outcomes /\ OutcomeOK(o)
        BY <4>2, <4>5, <4>6, ReportFields, ReportOK
      <4> QED
        BY <4>4, <4>6, <4>7 DEF CInv, Types
    <3> QED
      BY <2>1, <3>1, <3>2
  <2>11. Types'
    BY <2>7, <2>9, <2>10 DEF CInv, Types
  <2>12. Fresh'
    BY <2>5 DEF Fresh
  <2>13. ScriptOK'
    BY DEF CInv, ScriptOK
  <2> QED
    BY <2>2, <2>9, <2>10, <2>11, <2>12, <2>13 DEF CInv
<1> QED
  BY <1>3, <1>4

(***************************************************************************)
(* A payout is taken: whoever has not been overtaken was not running.      *)
(***************************************************************************)
LEMMA SettleKeeps ==
    ASSUME CInv, Settle
    PROVE  CInv'
<1>1. /\ SellReturns \/ ClaimReturns
      /\ UNCHANGED <<accounts, commands>>
  BY DEF Settle
<1>2. /\ call # "none" /\ world' = world /\ saved' = world /\ call' = "none" /\ block' = block
      /\ network' = network /\ endpoint' = endpoint
      /\ hookImplementation' = hookImplementation /\ created' = created
      /\ recorded' = recorded /\ wallet' = wallet /\ allowance' = allowance
      /\ command' = command /\ outcome' = outcome /\ smoke' = smoke /\ left' = left
  BY <1>1 DEF SellReturns, ClaimReturns, Finish, accounts, commands, setup
<1>3. ChainOK'
  <2>1. IInv'
    BY <1>1, SellOrClaimReturnsKeeps DEF CInv, ChainOK, Kept
  <2>2. Counted(world)' /\ Counted(saved)'
    BY <1>2 DEF CInv, ChainOK, Counted
  <2> QED
    BY <1>2, <2>1, <2>2 DEF CInv, ChainOK
<1>4. Types'
  BY <1>2 DEF CInv, Types
<1>5. ASSUME NEW v \in Users
      PROVE  CommandOK(v, command[v])'
  <2>1. PICK c \in Commands : c = command[v] /\ CommandOK(v, c)
    BY Typed
  <2>2. c.kind # "none" => c.moved
    BY <1>2, <2>1 DEF CommandOK, Current, NotEntered
  <2>3. Current(v, c)'
    BY <2>2 DEF Current
  <2>4. Shaped(c) /\ Approved(v, c)' /\ Chunked(v, c)'
    BY <1>2, <2>1 DEF CommandOK, Approved, Chunked, InChunk, Chunk
  <2>5. Floored(v, c)'
    BY <1>2, <2>1 DEF CommandOK, Floored, AsMirrored
  <2>6. CommandOK(v, c)'
    BY <2>3, <2>4, <2>5 DEF CommandOK
  <2> QED
    BY <1>2, <2>1, <2>6
<1>6. Fresh'
  BY <1>2 DEF CInv, Fresh, NotEntered
<1>7. ScriptOK' /\ \A v \in Users : OutcomeOK(outcome'[v])
  BY <1>2 DEF CInv, ScriptOK
<1> QED
  BY <1>3, <1>4, <1>5, <1>6, <1>7 DEF CInv

(***************************************************************************)
(* A holder moves tokens, and so overtakes every command.                  *)
(***************************************************************************)
LEMMA TransfersKeep ==
    ASSUME CInv, Transfers
    PROVE  CInv'
<1>1. PICK u \in Keys, to \in Users, amount \in TransferAmounts :
        /\ NotEntered /\ u # to
        /\ TransferTokens(u, to, amount)
        /\ command' = Moved(u, [command[u] EXCEPT
                                 !.moved = command[u].moved \/ command[u].kind # "none"])
        /\ UNCHANGED <<accounts, outcome, smoke, left>>
  BY DEF Transfers
<1>2. u \in Users /\ u \in Users \cup {Target} /\ to \in Accounts
  BY CommandsAssumption DEF Accounts
<1>3. /\ network' = network /\ endpoint' = endpoint
      /\ hookImplementation' = hookImplementation /\ created' = created
      /\ recorded' = recorded /\ wallet' = wallet /\ allowance' = allowance
      /\ outcome' = outcome /\ smoke' = smoke /\ left' = left
  BY <1>1 DEF accounts, setup
<1>4. /\ Counted(world') /\ Counted(saved') /\ call' = call /\ block' = block
      /\ SameButLedger(world', world)
  BY <1>1, <1>2, TransferCounts DEF CInv, ChainOK
<1>5. ChainOK'
  <2>1. IInv'
    BY <1>1, <1>2, TransferTokensKeeps DEF CInv, ChainOK, Kept
  <2>2. Counted(world)' /\ Counted(saved)'
    BY <1>4 DEF Counted
  <2>3. world'.liquidityMigrated = world.liquidityMigrated
        /\ world'.lastBuyBlock = world.lastBuyBlock
    BY <1>4 DEF SameButLedger
  <2> QED
    BY <1>4, <2>1, <2>2, <2>3 DEF CInv, ChainOK
<1>6. PICK c \in Commands : c = command[u] /\ CommandOK(u, c)
  BY <1>2, Typed
<1>7. PICK d : d = Overtaken(c)
  OBVIOUS
<1>8. command' = Moved(u, d)
  BY <1>1, <1>6, <1>7 DEF Overtaken
<1>9. d \in Commands /\ d.kind = c.kind
  BY <1>6, <1>7, OvertakenFields DEF CommandOK
<1>10. CommandOK(u, d)'
  <2>1. Chunked(u, c)'
    BY <1>3, <1>6 DEF CommandOK, Chunked, InChunk, Chunk
  <2>2. c.kind = "create" => ~created' /\ (c.step = "sent" => c.amount <= wallet'[u])
    BY <1>3, <1>6 DEF CommandOK, Floored
  <2>3. CommandOK(u, Overtaken(c))'
    BY <1>2, <1>3, <1>6, <2>1, <2>2, OvertakenOK
  <2> QED
    BY <1>7, <2>3
<1>11. \A v \in Users \ {u} : command[v].kind = "create" => ~created' /\ wallet'[v] = wallet[v]
  BY <1>3, Running DEF CommandOK, Floored
<1>12. /\ command' \in [Users -> Commands]
       /\ \A v \in Users : CommandOK(v, command[v])'
       /\ command'[u] = d
       /\ \A v \in Users \ {u} : command'[v].kind = command[v].kind
  BY <1>2, <1>3, <1>8, <1>9, <1>10, <1>11, OthersOvertaken
<1>13. Types'
  BY <1>3, <1>12 DEF CInv, Types
<1>14. Fresh'
  <2>1. \A v \in Users : command'[v].kind = command[v].kind
    BY <1>6, <1>9, <1>12
  <2>2. world'.okbCum = world.okbCum /\ world'.selfDeprecated = world.selfDeprecated
    BY <1>4 DEF SameButLedger
  <2> QED
    BY <1>3, <1>4, <2>1, <2>2 DEF CInv, Fresh, NotEntered
<1>15. ScriptOK' /\ \A v \in Users : OutcomeOK(outcome'[v])
  BY <1>3 DEF CInv, ScriptOK
<1> QED
  BY <1>5, <1>12, <1>13, <1>14, <1>15 DEF CInv

(***************************************************************************)
(* A later block: nothing a command knows is about the block, but that its *)
(* account has not bought in it.                                           *)
(***************************************************************************)
LEMMA BlocksKeep ==
    ASSUME CInv, Blocks
    PROVE  CInv'
<1>1. /\ NextBlock /\ block' = block + 1
      /\ world' = world /\ saved' = saved /\ call' = call
      /\ network' = network /\ endpoint' = endpoint
      /\ hookImplementation' = hookImplementation /\ created' = created
      /\ recorded' = recorded /\ wallet' = wallet /\ allowance' = allowance
      /\ command' = command /\ outcome' = outcome /\ smoke' = smoke /\ left' = left
  BY DEF Blocks, NextBlock, accounts, commands, setup
<1>2. /\ block \in Nat /\ block' \in Nat /\ block <= block'
      /\ \A a \in Accounts : world.lastBuyBlock[a] \in Nat /\ world.lastBuyBlock[a] <= block
  BY <1>1, Typed DEF CInv, ChainOK
<1>3. ChainOK'
  <2>1. IInv'
    BY <1>1, NextBlockKeeps DEF CInv, ChainOK, Kept
  <2>2. Counted(world)' /\ Counted(saved)'
    BY <1>1 DEF CInv, ChainOK, Counted
  <2>3. \A a \in Accounts : world'.lastBuyBlock[a] <= block'
    BY <1>1, <1>2
  <2> QED
    BY <1>1, <2>1, <2>2, <2>3 DEF CInv, ChainOK
<1>4. Types'
  BY <1>1 DEF CInv, Types
<1>5. ASSUME NEW v \in Users
      PROVE  CommandOK(v, command[v])'
  <2>1. PICK c \in Commands : c = command[v] /\ CommandOK(v, c)
    BY Typed
  <2>2. Chunked(v, c)'
    BY <1>1, <2>1 DEF CommandOK, Chunked, InChunk, Chunk
  <2>3. v \in Accounts /\ wallet[v] \in Nat /\ wallet'[v] = wallet[v]
    BY <1>1, Typed
  <2>4. CommandOK(v, c)'
    BY <1>1, <1>2, <2>1, <2>2, <2>3, StillOK
  <2> QED
    BY <1>1, <2>1, <2>4
<1>6. Fresh'
  BY <1>1 DEF CInv, Fresh, NotEntered
<1>7. ScriptOK' /\ \A v \in Users : OutcomeOK(outcome'[v])
  BY <1>1 DEF CInv, ScriptOK
<1> QED
  BY <1>3, <1>4, <1>5, <1>6, <1>7 DEF CInv

-----------------------------------------------------------------------------
(* The smoke script.                                                       *)

(***************************************************************************)
(* Its accounts trade while a chunk runs, and it runs once there is a      *)
(* launch.                                                                 *)
(***************************************************************************)
LEMMA ScriptRuns ==
    ASSUME CInv
    PROVE  /\ smoke.step # "off" => created
           /\ smoke.step # "running" => \A u \in Users : command[u].kind # "smoke"
           /\ smoke \in Scripts /\ smoke.accounts \in Seq(Users) /\ smoke.next \in Nat
           /\ smoke.due \in Nat /\ smoke.next >= 1
           /\ smoke.step = "fund" => smoke.next <= Len(smoke.accounts)
<1>1. smoke.step # "off" => created
  BY DEF CInv, Fresh
<1>2. smoke.step # "running" => \A u \in Users : command[u].kind # "smoke"
  BY Typed DEF CommandOK, Chunked
<1>3. /\ smoke \in Scripts /\ smoke.accounts \in Seq(Users) /\ smoke.next \in Nat
      /\ smoke.due \in Nat
  BY DEF CInv, Types, Scripts
<1>4. smoke.next >= 1 /\ (smoke.step = "fund" => smoke.next <= Len(smoke.accounts))
  BY DEF CInv, ScriptOK
<1> QED
  BY <1>1, <1>2, <1>3, <1>4

(***************************************************************************)
(* The script moves on by itself, while none of its accounts trades.       *)
(***************************************************************************)
LEMMA ScriptAlone ==
    ASSUME CInv, NEW s \in Scripts, ScriptStep(s), UNCHANGED <<wallet, command>>,
           left' \in 0..MaxCommands, created,
           s.next >= 1, s.step = "fund" => s.next <= Len(s.accounts),
           \A u \in Users : command[u].kind # "smoke"
    PROVE  CInv'
<1>1. /\ world' = world /\ saved' = saved /\ call' = call /\ block' = block
      /\ network' = network /\ endpoint' = endpoint
      /\ hookImplementation' = hookImplementation /\ created' = created
      /\ recorded' = recorded /\ wallet' = wallet /\ allowance' = allowance
      /\ command' = command /\ outcome' = outcome /\ smoke' = s
  BY DEF ScriptStep, vars, setup
<1>2. ChainOK'
  BY <1>1 DEF CInv, ChainOK, IInv, TypeOK, NotEntered
<1>3. Types'
  BY <1>1 DEF CInv, Types
<1>4. ASSUME NEW v \in Users
      PROVE  CommandOK(v, command[v])'
  <2>1. PICK c \in Commands : c = command[v] /\ CommandOK(v, c)
    BY Typed
  <2>2. world.lastBuyBlock[v] \in Nat /\ world.lastBuyBlock[v] <= block /\ block \in Nat
    BY Typed DEF CInv, ChainOK
  <2>3. wallet[v] \in Nat /\ wallet'[v] = wallet[v]
    BY <1>1, Typed
  <2>4. Chunked(v, c)'
    BY <2>1 DEF Chunked
  <2>5. CommandOK(v, c)'
    BY <1>1, <2>1, <2>2, <2>3, <2>4, StillOK
  <2> QED
    BY <1>1, <2>1, <2>5
<1>5. Fresh' /\ ScriptOK'
  BY <1>1 DEF Fresh, ScriptOK
<1>6. \A v \in Users : OutcomeOK(outcome'[v])
  BY <1>1 DEF CInv
<1> QED
  BY <1>2, <1>3, <1>4, <1>5, <1>6 DEF CInv

(***************************************************************************)
(* The wallets are read and chosen.                                        *)
(***************************************************************************)
LEMMA StartSmokeKeeps ==
    ASSUME CInv, NEW rows \in WalletFiles, NEW limit \in Limits, NEW mayFund \in BOOLEAN,
           StartSmoke(rows, limit, mayFund)
    PROVE  CInv'
<1>1. PICK targets : targets = selectHashKeyTestSmokeTargets(rows, limit)
  OBVIOUS
<1>2. targets \in Seq(Users)
  BY <1>1, TargetsAreAccounts, CommandsAssumption
<1>3. PICK s : s = [smoke EXCEPT !.step = "balance", !.accounts = targets, !.mayFund = mayFund]
  OBVIOUS
<1>4. /\ created /\ left > 0 /\ smoke.step = "off" /\ left' = left - 1
      /\ ScriptStep(s) /\ UNCHANGED <<wallet, command>>
  BY <1>1, <1>3 DEF StartSmoke
<1>5. /\ s \in Scripts /\ s.step = "balance" /\ s.next = smoke.next /\ s.accounts = targets
  BY <1>2, <1>3, ScriptRuns DEF Scripts
<1>6. left' \in 0..MaxCommands
  BY <1>4, CommandsAssumption DEF CInv, Types
<1>7. s.next >= 1 /\ \A u \in Users : command[u].kind # "smoke"
  BY <1>4, <1>5, ScriptRuns
<1> QED
  BY <1>4, <1>5, <1>6, <1>7, ScriptAlone

(***************************************************************************)
(* The balance of one account is read.                                     *)
(***************************************************************************)
LEMMA ReadBalanceKeeps ==
    ASSUME CInv, ReadBalance
    PROVE  CInv'
<1>1. PICK i \in Nat : i = smoke.next
  BY ScriptRuns
<1>2. PICK account \in Users : account = smoke.accounts[i] /\ i <= Len(smoke.accounts)
  <2>1. i \in 1..Len(smoke.accounts)
    BY <1>1, ScriptRuns DEF ReadBalance
  <2> QED
    BY <2>1, ScriptRuns, ElementOfSeq
<1>3. PICK balance \in Nat : balance = wallet[account]
  BY Typed
<1>4. PICK s : s = IF balance >= MinBalance THEN [smoke EXCEPT !.next = i + 1]
                   ELSE IF ~smoke.mayFund \/ FundBalance <= balance
                        THEN [smoke EXCEPT !.step = "failed"]
                   ELSE [smoke EXCEPT !.step = "fund", !.due = FundBalance - balance]
  OBVIOUS
<1>5. /\ smoke.step = "balance" /\ ScriptStep(s) /\ UNCHANGED <<wallet, command, left>>
  BY <1>1, <1>2, <1>3, <1>4 DEF ReadBalance
<1>6. s \in Scripts /\ s.next >= 1 /\ (s.step = "fund" => s.next <= Len(s.accounts))
  <2>1. FundBalance \in Nat
    BY CommandsAssumption
  <2>2. CASE balance >= MinBalance
    BY <1>1, <1>4, <1>5, <2>2, ScriptRuns DEF Scripts
  <2>3. CASE s = [smoke EXCEPT !.step = "failed"]
    BY <1>1, <1>4, <1>5, <2>3, ScriptRuns DEF Scripts
  <2>4. CASE /\ s = [smoke EXCEPT !.step = "fund", !.due = FundBalance - balance]
             /\ ~(FundBalance <= balance)
    <3>1. PICK n \in Nat : n = FundBalance - balance
      BY <2>1, <2>4
    <3>2. s = [smoke EXCEPT !.step = "fund", !.due = n]
      BY <2>4, <3>1
    <3> QED
      BY <1>1, <1>2, <3>2, ScriptRuns DEF Scripts
  <2> QED
    BY <1>4, <2>2, <2>3, <2>4
<1>7. left' \in 0..MaxCommands
  BY <1>5 DEF CInv, Types
<1>8. created /\ \A u \in Users : command[u].kind # "smoke"
  BY <1>5, ScriptRuns
<1> QED
  BY <1>5, <1>6, <1>7, <1>8, ScriptAlone

(***************************************************************************)
(* Every account can be used: the chunks begin.                            *)
(***************************************************************************)
LEMMA PreparedKeeps ==
    ASSUME CInv, Prepared
    PROVE  CInv'
<1>1. PICK s : s = [smoke EXCEPT !.step = "run", !.next = 1]
  OBVIOUS
<1>2. /\ smoke.step = "balance" /\ ScriptStep(s) /\ UNCHANGED <<wallet, command, left>>
  BY <1>1 DEF Prepared
<1>3. s \in Scripts /\ s.next >= 1 /\ s.step = "run"
  <2>1. PICK n \in Nat : n = 1
    OBVIOUS
  <2>2. s = [smoke EXCEPT !.step = "run", !.next = n]
    BY <1>1, <2>1
  <2>3. s \in Scripts /\ s.next = n /\ s.step = "run"
    BY <2>2, ScriptRuns DEF Scripts
  <2> QED
    BY <2>1, <2>3
<1>4. left' \in 0..MaxCommands
  BY <1>2 DEF CInv, Types
<1>5. created /\ \A u \in Users : command[u].kind # "smoke"
  BY <1>2, ScriptRuns
<1> QED
  BY <1>2, <1>3, <1>4, <1>5, ScriptAlone

(***************************************************************************)
(* A chunk is done when none of its accounts trades any more.              *)
(***************************************************************************)
LEMMA ChunkEndsKeeps ==
    ASSUME CInv, ChunkEnds
    PROVE  CInv'
<1>1. PICK n \in Nat : n = smoke.next + Concurrency /\ n >= 1
  BY ScriptRuns, CommandsAssumption
<1>2. PICK step \in {"done", "run"} : step = IF n > Len(smoke.accounts) THEN "done" ELSE "run"
  OBVIOUS
<1>3. PICK s : s = [smoke EXCEPT !.next = n, !.step = step]
  OBVIOUS
<1>4. /\ smoke.step = "running" /\ ScriptStep(s) /\ UNCHANGED <<wallet, command, left>>
      /\ \A u \in Users : InChunk(u) => command[u].kind = "none"
  BY <1>1, <1>2, <1>3 DEF ChunkEnds
<1>5. s \in Scripts /\ s.next >= 1 /\ s.step # "fund"
  BY <1>1, <1>2, <1>3, ScriptRuns DEF Scripts
<1>6. left' \in 0..MaxCommands
  BY <1>4 DEF CInv, Types
<1>7. created
  BY <1>4, ScriptRuns
<1>8. \A u \in Users : command[u].kind # "smoke"
  BY <1>4, Typed DEF CommandOK, Chunked
<1> QED
  BY <1>4, <1>5, <1>6, <1>7, <1>8, ScriptAlone

(***************************************************************************)
(* The owner gives an account what it lacks.                               *)
(***************************************************************************)
LEMMA FundKeeps ==
    ASSUME CInv, Fund
    PROVE  CInv'
<1>1. PICK i \in Nat : i = smoke.next
  BY ScriptRuns
<1>2. smoke.step = "fund" /\ i <= Len(smoke.accounts) /\ i >= 1 /\ NotEntered /\ left' = left
  BY <1>1, ScriptRuns DEF Fund
<1>3. PICK account \in Users : account = smoke.accounts[i]
  <2>1. i \in 1..Len(smoke.accounts)
    BY <1>2, ScriptRuns
  <2> QED
    BY <2>1, ScriptRuns, ElementOfSeq
<1>4. created /\ \A u \in Users : command[u].kind # "smoke"
  BY <1>2, ScriptRuns
<1>5. left' \in 0..MaxCommands
  BY <1>2 DEF CInv, Types
<1>6. CASE /\ ScriptStep([smoke EXCEPT !.step = "failed"])
           /\ UNCHANGED <<wallet, command>>
  <2>1. PICK s : s = [smoke EXCEPT !.step = "failed"]
    OBVIOUS
  <2>2. s \in Scripts /\ s.next >= 1 /\ s.step # "fund"
    BY <2>1, ScriptRuns DEF Scripts
  <2>3. ScriptStep(s)
    BY <1>6, <2>1
  <2> QED
    BY <1>4, <1>5, <1>6, <2>2, <2>3, ScriptAlone
<1>7. CASE smoke.due <= wallet[Owner] /\ ~(smoke.due > wallet[Owner])
  <2>1. PICK due \in Nat : due = smoke.due
    BY ScriptRuns
  <2>2. PICK n \in Nat : n = i + 1
    OBVIOUS
  <2>3. PICK s : s = [smoke EXCEPT !.step = "balance", !.next = n, !.due = 0]
    OBVIOUS
  <2>4. s \in Scripts /\ s.next >= 1 /\ s.step = "balance"
    <3>1. PICK zero \in Nat : zero = 0
      OBVIOUS
    <3>2. s = [smoke EXCEPT !.step = "balance", !.next = n, !.due = zero]
      BY <2>3, <3>1
    <3>3. s \in Scripts /\ s.next = n /\ s.step = "balance"
      BY <3>2, ScriptRuns DEF Scripts
    <3>4. n >= 1
      BY <2>2
    <3> QED
      BY <3>3, <3>4
  <2>5. /\ ScriptStep(s)
        /\ wallet' = [[wallet EXCEPT ![Owner] = @ - due] EXCEPT ![account] = @ + due]
        /\ command' = [command EXCEPT ![Owner].moved =
                          @ \/ command[Owner].kind # "none"]
    BY <1>1, <1>3, <1>7, <2>1, <2>2, <2>3 DEF Fund
  <2>6. /\ world' = world /\ saved' = saved /\ call' = call /\ block' = block
        /\ network' = network /\ endpoint' = endpoint
        /\ hookImplementation' = hookImplementation /\ created' = created
        /\ recorded' = recorded /\ allowance' = allowance
        /\ outcome' = outcome /\ smoke' = s
    BY <2>5 DEF ScriptStep, vars, setup
  <2>7. Owner \in Users /\ wallet \in [Users -> Nat] /\ command \in [Users -> Commands]
    BY CommandsAssumption DEF CInv, Types
  <2>8. /\ wallet' \in [Users -> Nat]
        /\ \A v \in Users \ {Owner} : wallet[v] <= wallet'[v]
    <3>1. PICK w : w = [wallet EXCEPT ![Owner] = @ - due]
      OBVIOUS
    <3>2. w \in [Users -> Nat] /\ \A v \in Users \ {Owner} : w[v] = wallet[v]
      BY <1>7, <2>1, <2>7, <3>1
    <3>3. wallet' = [w EXCEPT ![account] = @ + due]
      BY <2>5, <3>1, Zenon
    <3> QED
      BY <2>1, <2>7, <3>2, <3>3
  <2>9. PICK d : d = Overtaken(command[Owner])
    OBVIOUS
  <2>10. command' = [command EXCEPT ![Owner] = d]
    BY <2>5, <2>7, <2>9 DEF Overtaken
  <2>11. PICK o \in Commands : o = command[Owner] /\ CommandOK(Owner, o)
    BY <2>7, Typed
  <2>12. d \in Commands /\ d = Overtaken(o)
    BY <2>9, <2>11, OvertakenFields DEF CommandOK
  <2>13. command' \in [Users -> Commands]
    BY <2>7, <2>10, <2>12
  <2>14. ASSUME NEW v \in Users
         PROVE  CommandOK(v, command[v])'
    <3>1. CASE v = Owner
      <4>1. o.kind # "create" /\ o.kind # "smoke"
        BY <1>4, <2>7, <2>11 DEF CommandOK, Floored
      <4>2. Chunked(Owner, o)'
        BY <4>1 DEF Chunked
      <4>3. CommandOK(Owner, Overtaken(o))'
        BY <2>6, <2>7, <2>11, <4>1, <4>2, OvertakenOK
      <4>4. CommandOK(Owner, d)'
        BY <2>12, <4>3
      <4>5. command'[v] = d
        BY <2>7, <2>10, <3>1
      <4> QED
        BY <3>1, <4>4, <4>5
    <3>2. CASE v # Owner
      <4>1. PICK c \in Commands : c = command[v] /\ CommandOK(v, c)
        BY Typed
      <4>2. /\ world.lastBuyBlock[v] \in Nat /\ world.lastBuyBlock[v] <= block /\ block \in Nat
        BY Typed DEF CInv, ChainOK
      <4>3. wallet[v] \in Nat /\ wallet'[v] \in Nat /\ wallet[v] <= wallet'[v]
        BY <2>7, <2>8, <3>2
      <4>4. Chunked(v, c)'
        BY <1>4, <4>1 DEF Chunked
      <4>5. CommandOK(v, c)'
        BY <2>6, <4>1, <4>2, <4>3, <4>4, StillOK
      <4>6. command'[v] = c
        BY <2>10, <2>7, <3>2, <4>1
      <4> QED
        BY <4>5, <4>6
    <3> QED
      BY <3>1, <3>2
  <2>15. ChainOK'
    BY <2>6 DEF CInv, ChainOK, IInv, TypeOK, NotEntered
  <2>16. Types'
    BY <1>5, <2>4, <2>6, <2>8, <2>13 DEF CInv, Types
  <2>17. Fresh' /\ ScriptOK'
    BY <1>4, <2>4, <2>6 DEF Fresh, ScriptOK
  <2>18. \A v \in Users : OutcomeOK(outcome'[v])
    BY <2>6 DEF CInv
  <2> QED
    BY <2>14, <2>15, <2>16, <2>17, <2>18 DEF CInv
<1>8. smoke.due \in Nat /\ wallet[Owner] \in Nat
  BY ScriptRuns, Typed, CommandsAssumption
<1> QED
  BY <1>6, <1>7, <1>8 DEF Fund

(***************************************************************************)
(* The accounts of the next chunk begin with their buys.                   *)
(***************************************************************************)
LEMMA RunChunkKeeps ==
    ASSUME CInv, RunChunk
    PROVE  CInv'
<1>1. PICK s : s = [smoke EXCEPT !.step = "running"]
  OBVIOUS
<1>2. /\ smoke.step = "run" /\ ScriptStep(s) /\ wallet' = wallet /\ left' = left
      /\ \A u \in Users : InChunk(u) => Free(u)
  BY <1>1, Zenon DEF RunChunk
<1>3. /\ s \in Scripts /\ s.step = "running" /\ s.next >= 1
      /\ s.next = smoke.next /\ s.accounts = smoke.accounts
  BY <1>1, ScriptRuns DEF Scripts
<1>4. /\ world' = world /\ saved' = saved /\ call' = call /\ block' = block
      /\ network' = network /\ endpoint' = endpoint
      /\ hookImplementation' = hookImplementation /\ created' = created
      /\ recorded' = recorded /\ allowance' = allowance
      /\ outcome' = outcome /\ smoke' = s
  BY <1>2 DEF ScriptStep, vars, setup
<1>5. created /\ \A u \in Users : command[u].kind # "smoke"
  BY <1>2, ScriptRuns
<1>6. \A u \in Users : InChunk(u)' <=> InChunk(u)
  BY <1>3, <1>4 DEF InChunk, Chunk
<1>6a. command' = [u \in Users |->
                    IF InChunk(u)
                    THEN [NoCommand EXCEPT !.kind = "smoke", !.step = "ready", !.tx = "buy",
                                           !.amount = SmokeBuy, !.recipient = u]
                    ELSE command[u]]
  BY Zenon DEF RunChunk
<1>7. ASSUME NEW v \in Users
      PROVE  command'[v] \in Commands /\ CommandOK(v, command[v])'
  <2>1. CASE InChunk(v)
    <3>1. PICK d : d = [NoCommand EXCEPT !.kind = "smoke", !.step = "ready", !.tx = "buy",
                                         !.amount = SmokeBuy, !.recipient = v]
      OBVIOUS
    <3>2. command'[v] = d
      BY <1>6a, <2>1, <3>1, Zenon
    <3>3. d = New("smoke", "ready", "buy", SmokeBuy, 0, v, 0, FALSE, FALSE, TRUE)
      BY <3>1 DEF NoCommand, New
    <3>4. "smoke" \in Kinds /\ "ready" \in Steps /\ "buy" \in Transactions
      BY DEF Kinds, Steps, Transactions
    <3>5. SmokeBuy \in Nat /\ 0 \in Nat /\ FALSE \in BOOLEAN
      BY CommandsAssumption
    <3>6. Has(d, "smoke", "ready", "buy", SmokeBuy, 0, 0, FALSE, FALSE)
      BY <3>3, <3>4, <3>5, NewFields
    <3>7. /\ d \in Commands /\ d.kind = "smoke" /\ d.step = "ready" /\ d.tx = "buy"
          /\ d.minOut = 0
      BY <3>6 DEF Has
    <3>8. NotEntered
      BY <1>2, <2>1 DEF Free
    <3>9. Current(v, d)'
      BY <1>4, <3>7, <3>8 DEF Current, NotEntered
    <3>10. Shaped(d) /\ Approved(v, d)' /\ Floored(v, d)'
      BY <3>7 DEF Shaped, Approved, Floored
    <3>11. Chunked(v, d)'
      BY <1>3, <1>4, <1>6, <2>1 DEF Chunked
    <3>12. CommandOK(v, d)'
      BY <3>9, <3>10, <3>11 DEF CommandOK
    <3> QED
      BY <3>2, <3>7, <3>12
  <2>2. CASE ~InChunk(v)
    <3>1. PICK c \in Commands : c = command[v] /\ CommandOK(v, c)
      BY Typed
    <3>2. command'[v] = c
      BY <1>6a, <2>2, <3>1, Zenon
    <3>3. world.lastBuyBlock[v] \in Nat /\ world.lastBuyBlock[v] <= block /\ block \in Nat
      BY Typed DEF CInv, ChainOK
    <3>4. wallet[v] \in Nat /\ wallet'[v] = wallet[v]
      BY <1>2, Typed
    <3>5. Chunked(v, c)'
      BY <1>5, <3>1 DEF Chunked
    <3>6. CommandOK(v, c)'
      BY <1>4, <3>1, <3>3, <3>4, <3>5, StillOK
    <3> QED
      BY <3>1, <3>2, <3>6
  <2> QED
    BY <2>1, <2>2
<1>8. command' \in [Users -> Commands]
  <2>1. command' = [u \in Users |-> command'[u]]
    BY <1>6a, Zenon
  <2> QED
    BY <1>7, <2>1
<1>9. ChainOK'
  BY <1>4 DEF CInv, ChainOK, IInv, TypeOK, NotEntered
<1>10. Types'
  BY <1>2, <1>3, <1>4, <1>8 DEF CInv, Types
<1>11. Fresh' /\ ScriptOK'
  BY <1>3, <1>4, <1>5 DEF Fresh, ScriptOK
<1>12. \A v \in Users : OutcomeOK(outcome'[v])
  BY <1>4 DEF CInv
<1> QED
  BY <1>7, <1>9, <1>10, <1>11, <1>12 DEF CInv

-----------------------------------------------------------------------------
(* The invariant holds at the start and is kept by every step.             *)

LEMMA CommandsInitOK ==
    ASSUME CommandsInit
    PROVE  CInv
<1>1. IInv
  BY InitIInv DEF CommandsInit
<1>2. world = Launched /\ saved = Launched /\ call = "none" /\ block = 1
  BY DEF CommandsInit, Init
<1>3. /\ Launched.okbCum = 0 /\ Launched.selfDeprecated = FALSE
      /\ Launched.liquidityMigrated = FALSE /\ Launched.totalSupply = 0
      /\ Launched.balanceOf = NoBalance /\ Launched.lastBuyBlock = NoBalance
  BY DEF Launched
<1>4. Counted(Launched)
  <2>1. Coins(NoBalance) = {}
    BY DEF Coins, NoBalance
  <2> QED
    BY <1>3, <2>1, FS_EmptySet DEF Counted
<1>5. ChainOK
  <2>1. Counted(world) /\ Counted(saved)
    BY <1>2, <1>4
  <2>2. ~world.liquidityMigrated /\ \A a \in Accounts : world.lastBuyBlock[a] <= block
    BY <1>2, <1>3 DEF NoBalance
  <2> QED
    BY <1>1, <1>2, <2>1, <2>2 DEF ChainOK
<1>6. /\ network \in Networks /\ endpoint \in Endpoints /\ hookImplementation \in BOOLEAN
      /\ created = FALSE /\ recorded = RecordedParams
      /\ wallet \in [Users -> Wallets \cup {OwnerWallet}]
      /\ allowance = [u \in Users |-> 0]
      /\ command = [u \in Users |-> NoCommand]
      /\ outcome = [u \in Users |-> NoOutcome]
      /\ smoke = [step |-> "off", accounts |-> <<>>, next |-> 1, due |-> 0, mayFund |-> FALSE]
      /\ left = MaxCommands
  BY DEF CommandsInit
<1>7. \A u \in Users : NoCommand \in Commands /\ NoCommand.kind = "none" /\ CommandOK(u, NoCommand)
  BY NothingRuns
<1>8. PICK o : o = NoOutcome
  OBVIOUS
<1>9. o \in Outcomes /\ OutcomeOK(o)
  <2>1. /\ o \in Outcomes /\ o.kind = "none" /\ o.why = "none"
    BY <1>8 DEF NoOutcome, Outcomes, Kinds, Transactions, Failures
  <2> QED
    BY <2>1 DEF OutcomeOK, AsShown, SmokeSold, WellRefused
<1>10. Types
  <2>1. wallet \in [Users -> Nat] /\ allowance \in [Users -> Nat] /\ recorded \in CurveParams
    BY <1>6, CommandsAssumption
  <2>2. command \in [Users -> Commands] /\ outcome \in [Users -> Outcomes]
    BY <1>6, <1>7, <1>8, <1>9
  <2>3. smoke \in Scripts
    BY <1>6 DEF Scripts
  <2>4. left \in 0..MaxCommands
    BY <1>6, CommandsAssumption
  <2> QED
    BY <1>6, <2>1, <2>2, <2>3, <2>4 DEF Types
<1>11. \A u \in Users : CommandOK(u, command[u])
  BY <1>6, <1>7
<1>12. Fresh
  BY <1>2, <1>3, <1>6, <1>7 DEF Fresh, NotEntered
<1>13. ScriptOK /\ \A u \in Users : OutcomeOK(outcome[u])
  BY <1>6, <1>8, <1>9 DEF ScriptOK
<1> QED
  BY <1>5, <1>10, <1>11, <1>12, <1>13 DEF CInv

(***************************************************************************)
(* No step of a command, of the script, of the chain or of anybody else    *)
(* breaks the invariant.                                                   *)
(***************************************************************************)
LEMMA CommandsNextKeeps ==
    ASSUME CInv, [CommandsNext]_allVars
    PROVE  CInv'
<1>1. CASE Starts
  BY <1>1, StartCreateKeeps, StartBuyKeeps, StartSellKeeps, StartClaimKeeps,
     StartGraduationKeeps, StartInspectKeeps, StartSmokeKeeps DEF Starts
<1>2. ASSUME NEW u \in Users, Advance(u)
      PROVE  CInv'
  <2>1. UNCHANGED <<smoke, left>>
    BY <1>2 DEF Advance
  <2> QED
    BY <1>2, <2>1, SendKeeps, MineKeeps, ApproveKeeps, CheckGraduationKeeps, ReadFieldKeeps,
       WaitKeeps, TimeOutKeeps DEF Advance
<1>3. CASE Smoke
  BY <1>3, ReadBalanceKeeps, FundKeeps, PreparedKeeps, RunChunkKeeps, ChunkEndsKeeps DEF Smoke
<1>4. CASE Settle \/ Transfers \/ Blocks
  BY <1>4, SettleKeeps, TransfersKeep, BlocksKeep
<1>5. CASE UNCHANGED allVars
  <2>1. /\ world' = world /\ saved' = saved /\ call' = call /\ block' = block
        /\ network' = network /\ endpoint' = endpoint
        /\ hookImplementation' = hookImplementation /\ created' = created
        /\ recorded' = recorded /\ wallet' = wallet /\ allowance' = allowance
        /\ command' = command /\ outcome' = outcome /\ smoke' = smoke /\ left' = left
    BY <1>5 DEF allVars, vars, accounts, setup, commands
  <2>2. ChainOK'
    BY <2>1 DEF CInv, ChainOK, IInv, TypeOK, NotEntered
  <2>3. Types'
    BY <2>1 DEF CInv, Types
  <2>4. ASSUME NEW v \in Users
        PROVE  CommandOK(v, command[v])'
    <3>1. PICK c \in Commands : c = command[v] /\ CommandOK(v, c)
      BY Typed
    <3>2. world.lastBuyBlock[v] \in Nat /\ world.lastBuyBlock[v] <= block /\ block \in Nat
      BY Typed DEF CInv, ChainOK
    <3>3. wallet[v] \in Nat /\ wallet'[v] = wallet[v]
      BY <2>1, Typed
    <3>4. Chunked(v, c)'
      BY <2>1, <3>1 DEF CommandOK, Chunked, InChunk, Chunk
    <3>5. CommandOK(v, c)'
      BY <2>1, <3>1, <3>2, <3>3, <3>4, StillOK
    <3> QED
      BY <2>1, <3>1, <3>5
  <2>5. Fresh' /\ ScriptOK' /\ \A v \in Users : OutcomeOK(outcome'[v])
    BY <2>1 DEF CInv, Fresh, ScriptOK, NotEntered
  <2> QED
    BY <2>2, <2>3, <2>4, <2>5 DEF CInv
<1> QED
  BY <1>1, <1>2, <1>3, <1>4, <1>5 DEF CommandsNext

-----------------------------------------------------------------------------
(* The theorems.                                                           *)

(***************************************************************************)
(* Of however many commands with whatever amounts, each knows what it has  *)
(* read or been promised, as long as nobody else's transaction came in.    *)
(***************************************************************************)
THEOREM CommandsHold == CommandsSpec => []CInv
<1>1. CommandsInit => CInv
  BY CommandsInitOK
<1>2. CInv /\ [CommandsNext]_allVars => CInv'
  BY CommandsNextKeeps
<1>3. CommandsSpec => CommandsInit /\ [][CommandsNext]_allVars
  BY PTL DEF CommandsSpec
<1> QED
  BY <1>1, <1>2, <1>3, PTL

(***************************************************************************)
(* The accounts that trade for the smoke script fit into its chunk.        *)
(***************************************************************************)
LEMMA ChunkBounds ==
    ASSUME CInv
    PROVE  Cardinality(Smoking) <= Concurrency
<1> DEFINE I == smoke.next..(smoke.next + Concurrency - 1)
           f == [i \in Chunk |-> smoke.accounts[i]]
           T == {f[i] : i \in Chunk}
<1>1. smoke.next \in Nat /\ smoke.accounts \in Seq(Users) /\ Concurrency \in Nat
  BY ScriptRuns, CommandsAssumption
<1>2. IsFiniteSet(I) /\ Cardinality(I) = Concurrency
  <2>1. smoke.next + Concurrency - 1 \in Int /\ smoke.next \in Int
    BY <1>1
  <2>2. PICK a \in Int, b \in Int : a = smoke.next /\ b = smoke.next + Concurrency - 1
    BY <2>1
  <2>3. IsFiniteSet(a..b) /\ Cardinality(a..b) = IF a > b THEN 0 ELSE b - a + 1
    BY FS_Interval
  <2>4. ~(a > b) /\ b - a + 1 = Concurrency
    <3>1. PICK n \in Nat : n = Concurrency /\ n # 0
      BY CommandsAssumption
    <3>2. PICK i \in Nat : i = smoke.next
      BY <1>1
    <3>3. a = i /\ b = i + n - 1
      BY <2>2, <3>1, <3>2
    <3> QED
      BY <3>1, <3>2, <3>3
  <2>5. I = a..b
    BY <2>2
  <2> QED
    BY <2>3, <2>4, <2>5
<1>3. IsFiniteSet(Chunk) /\ Cardinality(Chunk) <= Concurrency
  <2>1. Chunk \subseteq I
    BY DEF Chunk
  <2> HIDE DEF I
  <2> QED
    BY <1>2, <2>1, FS_Subset
<1>4. f \in Surjection(Chunk, T)
  <2>1. f \in [Chunk -> T]
    OBVIOUS
  <2>2. \A t \in T : \E i \in Chunk : f[i] = t
    OBVIOUS
  <2> QED
    BY <2>1, <2>2, Fun_IsSurj
<1>5. IsFiniteSet(T) /\ Cardinality(T) <= Cardinality(Chunk)
  BY <1>3, <1>4, FS_Surjection
<1>6. Smoking \subseteq T
  <2> SUFFICES ASSUME NEW u \in Users, command[u].kind = "smoke"
               PROVE  u \in T
    BY DEF Smoking
  <2>1. InChunk(u)
    BY Typed DEF CommandOK, Chunked
  <2> QED
    BY <2>1 DEF InChunk
<1> HIDE DEF T
<1>7. IsFiniteSet(Smoking) /\ Cardinality(Smoking) <= Cardinality(T)
  BY <1>5, <1>6, FS_Subset
<1>8. Cardinality(Smoking) \in Nat /\ Cardinality(T) \in Nat /\ Cardinality(Chunk) \in Nat
  BY <1>3, <1>5, <1>7, FS_CardinalityType
<1> QED
  BY <1>1, <1>3, <1>5, <1>7, <1>8

(***************************************************************************)
(* The commands keep their types, overdraw no purse, and no more smoke     *)
(* accounts trade at a time than --concurrency allows.                     *)
(***************************************************************************)
THEOREM CommandsTyped == CommandsSpec => []CommandsTypeOK
<1>1. CInv => CommandsTypeOK
  BY ChunkBounds DEF CInv, ChainOK, IInv, Types, CommandsTypeOK
<1> QED
  BY <1>1, CommandsHold, PTL

(***************************************************************************)
(* buy, sell and claim-fees pay what they showed, nothing that was sent    *)
(* reverts and no inspection fails to add up, unless somebody else's       *)
(* transaction came in between.                                            *)
(***************************************************************************)
THEOREM TradesAsShown == CommandsSpec => []TradesAsShownUnlessOvertaken
<1>1. CInv => TradesAsShownUnlessOvertaken
  BY DEF CInv, OutcomeOK, AsShown, TradesAsShownUnlessOvertaken
<1> QED
  BY <1>1, CommandsHold, PTL

(***************************************************************************)
(* waitForNextBlock is enough: the smoke script's sell is not refused      *)
(* because of its own buy.                                                 *)
(***************************************************************************)
THEOREM SmokeSells == CommandsSpec => []SmokeSellsUnlessOvertaken
<1>1. CInv => SmokeSellsUnlessOvertaken
  BY DEF CInv, OutcomeOK, SmokeSold, SmokeSellsUnlessOvertaken
<1> QED
  BY <1>1, CommandsHold, PTL

(***************************************************************************)
(* A creation that was quoted with the contract's parameters and can be    *)
(* paid for is refused only for a slippage below the rounding.             *)
(***************************************************************************)
THEOREM CreationsWellRefused == CommandsSpec => []CreateRefusedOnlyByRounding
<1>1. CInv => CreateRefusedOnlyByRounding
  BY DEF CInv, OutcomeOK, WellRefused, CreateRefusedOnlyByRounding
<1> QED
  BY <1>1, CommandsHold, PTL

=============================================================================
