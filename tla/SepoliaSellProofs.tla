--------------------------- MODULE SepoliaSellProofs ---------------------------
(***************************************************************************)
(* What SepoliaSell says of its swaps, for every balance, limit, allowance *)
(* and argument.                                                           *)
(***************************************************************************)
EXTENDS SepoliaSell, TLAPS

\* The steps between a choice of an amount and its swap.
Chosen == {"try", "call", "erc20", "permit2", "swap"}

\* A simulation has succeeded, unless it was left out.
Simulated == {"erc20", "permit2", "swap"}

(***************************************************************************)
(* From the choice on the attempt is no more than was wanted and than      *)
(* exists; each allowance covers it once it was seen to, and if nobody     *)
(* else has moved the simulation still tells the truth.                    *)
(***************************************************************************)
Covered(s, e, p) ==
    /\ s.step \in Chosen => s.attempt <= s.want /\ s.attempt <= max
    /\ s.step \in {"permit2", "swap"} => s.attempt <= e
    /\ s.step = "swap" => s.attempt <= p

Truthful ==
    script.step \in Simulated /\ moves = 0 /\ ~args.skipPrecall => ~Fails(script.attempt)

IInv ==
    /\ TypeOK
    /\ Covered(script, erc20, permit2.amount)
    /\ Truthful

Scripts == [step : Steps, want : Nat, attempt : Nat, tries : 0..MaxAttempts]

-----------------------------------------------------------------------------
LEMMA Typed ==
    ASSUME TypeOK
    PROVE  /\ script \in Scripts
           /\ script.want \in Nat /\ script.attempt \in Nat /\ script.tries \in 0..MaxAttempts
           /\ balance \in Nat /\ balance <= max
           /\ erc20 \in Nat /\ erc20 <= max
           /\ permit2.amount \in Nat /\ permit2.amount <= max
           /\ permit2.valid \in BOOLEAN
           /\ args.amount \in Nat /\ max \in Nat
<1>1. script \in Scripts /\ args \in Args /\ permit2 \in [amount : 0..max, valid : BOOLEAN]
  BY DEF TypeOK, Scripts
<1>2. balance \in 0..max /\ erc20 \in 0..max
  BY DEF TypeOK
<1>3. permit2.amount \in 0..max /\ permit2.valid \in BOOLEAN
  BY <1>1
<1>4. script.want \in Nat /\ script.attempt \in Nat /\ script.tries \in 0..MaxAttempts
  BY <1>1 DEF Scripts
<1>5. args.amount \in Nat
  BY <1>1 DEF Args
<1> QED
  BY <1>1, <1>2, <1>3, <1>4, <1>5, BoundsAssumption

LEMMA InitIsFine == Init => IInv
<1> SUFFICES ASSUME Init
             PROVE  IInv
  OBVIOUS
<1>1. /\ script = [step |-> "balance", want |-> 0, attempt |-> 0, tries |-> 0]
      /\ moves = 0
  BY DEF Init
<1>2. script \in Scripts /\ script.step = "balance"
  BY <1>1, ArgumentsAssumption DEF Scripts, Steps
<1>3. balance \in 0..max /\ erc20 \in 0..max
  BY ArgumentsAssumption, BoundsAssumption DEF Init
<1>4. permit2 \in [amount : 0..max, valid : BOOLEAN]
  <2>1. Allowances \subseteq 0..max
    BY ArgumentsAssumption, BoundsAssumption
  <2>2. permit2 \in [amount : Allowances, valid : BOOLEAN]
    BY DEF Init
  <2> QED
    BY <2>1, <2>2
<1>5. args \in Args
  <2>1. 1..balance \subseteq Nat
    BY <1>3
  <2>2. args \in [mode : Modes, amount : 1..balance, chunk : Chunks, dust : Dusts,
                  quote : Quotes, dryRun : BOOLEAN, skipPrecall : BOOLEAN]
    BY DEF Init
  <2> QED
    BY <2>1, <2>2 DEF Args
<1>6. limit \in Limits /\ moves \in 0..MaxMoves
  BY <1>1, BoundsAssumption DEF Init
<1>7. TypeOK
  BY <1>2, <1>3, <1>4, <1>5, <1>6 DEF TypeOK, Scripts
<1> QED
  BY <1>2, <1>7 DEF IInv, Covered, Chosen, Truthful, Simulated

(***************************************************************************)
(* A step of the script that leaves the wallet alone.                      *)
(***************************************************************************)
LEMMA ScriptOnly ==
    ASSUME IInv, UNCHANGED <<args, limit, wallet, moves>>, script' \in Scripts,
           script'.step \in Chosen =>
              script'.attempt <= script'.want /\ script'.attempt <= max,
           script'.step \notin {"permit2", "swap"},
           script'.step = "erc20" /\ ~args.skipPrecall => ~Fails(script'.attempt)
    PROVE  IInv'
<1>1. /\ args' = args /\ limit' = limit /\ moves' = moves /\ balance' = balance
      /\ erc20' = erc20 /\ permit2' = permit2
  BY DEF wallet
<1>2. TypeOK'
  BY <1>1 DEF IInv, TypeOK, Scripts
<1>3. Covered(script', erc20', permit2'.amount)
  BY DEF Covered
<1>4. \A n : Fails(n)' <=> Fails(n)
  BY <1>1 DEF Fails, TransferFails, OtherwiseFails, minEthOut
<1>5. Truthful'
  BY <1>1, <1>4 DEF Truthful, Simulated, Fails
<1> QED
  BY <1>2, <1>3, <1>5 DEF IInv, Covered

LEMMA LeastOf ==
    ASSUME NEW a \in Nat, NEW b \in Nat
    PROVE  /\ Least(a, b) \in Nat
           /\ Least(a, b) <= a /\ Least(a, b) <= b
           /\ applySellAllWeiMargin(a, b) \in Nat
  BY DEF Least, applySellAllWeiMargin

LEMMA ChunkKeeps == IInv /\ (NextChunk \/ OneSwap) => IInv'
<1> SUFFICES ASSUME IInv, NextChunk \/ OneSwap
             PROVE  IInv'
  OBVIOUS
<1>0. TypeOK
  BY DEF IInv
<1>1. UNCHANGED <<args, limit, wallet, moves>>
  BY DEF NextChunk, OneSwap
<1>2. script' \in Scripts /\ script'.step \in {"done", "check", "failed"}
  <2>1. "done" \in Steps /\ "check" \in Steps /\ "failed" \in Steps /\ 0 \in 0..MaxAttempts
    BY ArgumentsAssumption DEF Steps
  <2>2. CASE NextChunk
    <3> DEFINE w == applySellAllWeiMargin(balance, Least(balance, args.chunk))
    <3>1. args.chunk \in Nat
      <4>1. args \in Args
        BY <1>0 DEF TypeOK
      <4>2. args.chunk \in Chunks
        BY <4>1 DEF Args
      <4>3. Chunks \subseteq Nat
        BY ArgumentsAssumption
      <4> QED
        BY <4>2, <4>3
    <3>2. w \in Nat
      BY <1>0, <3>1, LeastOf, Typed
    <3>3. \/ script' = [script EXCEPT !.step = "done"]
          \/ script' = [script EXCEPT !.step = "check", !.want = w]
      BY <2>2 DEF NextChunk
    <3> HIDE DEF w
    <3> QED
      BY <1>0, <2>1, <3>2, <3>3, Typed DEF Scripts
  <2>3. CASE OneSwap
    <3> DEFINE w == IF args.mode = "amount" THEN args.amount
                    ELSE applySellAllWeiMargin(balance, balance)
    <3>1. w \in Nat
      BY <1>0, LeastOf, Typed
    <3>2. \/ script' = [script EXCEPT !.step = "failed"]
          \/ script' = [script EXCEPT !.step = "check", !.want = w]
      BY <2>3 DEF OneSwap
    <3> HIDE DEF w
    <3> QED
      BY <1>0, <2>1, <3>1, <3>2, Typed DEF Scripts
  <2> QED
    BY <2>2, <2>3
<1> QED
  BY <1>1, <1>2, ScriptOnly DEF Chosen

LEMMA RunOneKeeps == IInv /\ runOne => IInv'
<1> SUFFICES ASSUME IInv, runOne
             PROVE  IInv'
  OBVIOUS
<1>0. TypeOK
  BY DEF IInv
<1>1. UNCHANGED <<args, limit, wallet, moves>>
  BY DEF runOne
<1>2. {"done", "failed", "try"} \subseteq Steps /\ 0 \in 0..MaxAttempts
  BY ArgumentsAssumption DEF Steps
<1>3. CASE script' = [script EXCEPT !.step = "failed"] \/ script' = [script EXCEPT !.step = "done"]
  <2>1. script' \in Scripts /\ script'.step \in {"failed", "done"}
    BY <1>0, <1>2, <1>3, Typed DEF Scripts
  <2> QED
    BY <1>1, <2>1, ScriptOnly DEF Chosen
<1>4. CASE /\ script.want <= balance
           /\ script' = [script EXCEPT !.step = "try", !.attempt = script.want, !.tries = 0]
  <2>1. /\ script' \in Scripts /\ script'.step = "try"
        /\ script'.want = script.want /\ script'.attempt = script.want
    BY <1>0, <1>2, <1>4, Typed DEF Scripts
  <2>2. script'.attempt <= script'.want /\ script'.attempt <= max
    BY <1>0, <1>4, <2>1, Typed
  <2> QED
    BY <1>1, <2>1, <2>2, ScriptOnly
<1>5. \/ script' = [script EXCEPT !.step = "failed"] \/ script' = [script EXCEPT !.step = "done"]
      \/ /\ script.want <= balance
         /\ script' = [script EXCEPT !.step = "try", !.attempt = script.want, !.tries = 0]
  BY <1>0, Typed DEF runOne
<1> QED
  BY <1>3, <1>4, <1>5

LEMMA AttemptKeeps == IInv /\ Attempt => IInv'
<1> SUFFICES ASSUME IInv, Attempt
             PROVE  IInv'
  OBVIOUS
<1> DEFINE a == Least(script.attempt, balance)
           st == IF args.skipPrecall THEN "erc20" ELSE "call"
           n == script.tries + 1
<1>0. TypeOK
  BY DEF IInv
<1>1. UNCHANGED <<args, limit, wallet, moves>> /\ script.step = "try"
  BY DEF Attempt
<1>2. \/ script' = [script EXCEPT !.step = "failed"]
      \/ /\ script.tries # MaxAttempts
         /\ script' = [script EXCEPT !.step = st, !.attempt = a, !.tries = n]
  BY DEF Attempt
<1>3. a \in Nat /\ a <= script.attempt
  BY <1>0, LeastOf, Typed
<1>4. script.attempt <= script.want /\ script.attempt <= max
  BY <1>1 DEF IInv, Covered, Chosen
<1>5. st \in Steps /\ "failed" \in Steps /\ (st = "erc20" => args.skipPrecall) /\ st \in {"erc20", "call"}
  BY DEF Steps
<1>6. script.tries # MaxAttempts => n \in 0..MaxAttempts
  BY <1>0, Typed, ArgumentsAssumption
<1> HIDE DEF a, st, n
<1>7. CASE script' = [script EXCEPT !.step = "failed"]
  <2>1. script' \in Scripts /\ script'.step = "failed"
    BY <1>0, <1>5, <1>7, Typed DEF Scripts
  <2> QED
    BY <1>1, <2>1, ScriptOnly DEF Chosen
<1>8. CASE /\ script.tries # MaxAttempts
           /\ script' = [script EXCEPT !.step = st, !.attempt = a, !.tries = n]
  <2>1. /\ script' \in Scripts /\ script'.step = st
        /\ script'.want = script.want /\ script'.attempt = a
    BY <1>0, <1>3, <1>5, <1>6, <1>8, Typed DEF Scripts
  <2>2. a <= script.want /\ a <= max
    BY <1>0, <1>3, <1>4, Typed
  <2> QED
    BY <1>1, <1>5, <2>1, <2>2, ScriptOnly
<1> QED
  BY <1>2, <1>7, <1>8

LEMMA SimulateKeeps == IInv /\ Simulate => IInv'
<1> SUFFICES ASSUME IInv, Simulate
             PROVE  IInv'
  OBVIOUS
<1> DEFINE h == Half(script.attempt)
<1>0. TypeOK
  BY DEF IInv
<1>1. UNCHANGED <<args, limit, wallet, moves>> /\ script.step = "call"
  BY DEF Simulate
<1>2. \/ ~Fails(script.attempt) /\ script' = [script EXCEPT !.step = "erc20"]
      \/ script' = [script EXCEPT !.step = "failed"]
      \/ /\ ~BackedOff(script.attempt)
         /\ script' = [script EXCEPT !.step = "try", !.attempt = h]
  BY Zenon DEF Simulate
<1>3. script.attempt <= script.want /\ script.attempt <= max
  BY <1>1 DEF IInv, Covered, Chosen
<1>4. {"erc20", "failed", "try"} \subseteq Steps /\ 0 \in 0..MaxAttempts
  BY ArgumentsAssumption DEF Steps
<1>5. h \in Nat /\ (~BackedOff(script.attempt) => h <= script.attempt)
  BY <1>0, Typed, ArgumentsAssumption DEF Half, BackedOff
<1> HIDE DEF h
<1>6. CASE ~Fails(script.attempt) /\ script' = [script EXCEPT !.step = "erc20"]
  <2>1. /\ script' \in Scripts /\ script'.step = "erc20"
        /\ script'.want = script.want /\ script'.attempt = script.attempt
    BY <1>0, <1>4, <1>6, Typed DEF Scripts
  <2> QED
    BY <1>1, <1>3, <1>6, <2>1, ScriptOnly
<1>7. CASE script' = [script EXCEPT !.step = "failed"]
  <2>1. script' \in Scripts /\ script'.step = "failed"
    BY <1>0, <1>4, <1>7, Typed DEF Scripts
  <2> QED
    BY <1>1, <2>1, ScriptOnly DEF Chosen
<1>8. CASE ~BackedOff(script.attempt) /\ script' = [script EXCEPT !.step = "try", !.attempt = h]
  <2>1. /\ script' \in Scripts /\ script'.step = "try"
        /\ script'.want = script.want /\ script'.attempt = h
    BY <1>0, <1>4, <1>5, <1>8, Typed DEF Scripts
  <2>2. h <= script.want /\ h <= max
    BY <1>0, <1>3, <1>5, <1>8, Typed
  <2> QED
    BY <1>1, <2>1, <2>2, ScriptOnly
<1> QED
  BY <1>2, <1>6, <1>7, <1>8

-----------------------------------------------------------------------------
(* The steps that touch the wallet.                                        *)

LEMMA ApprovalKeeps == IInv /\ ensureErc20Approval => IInv'
<1> SUFFICES ASSUME IInv, ensureErc20Approval
             PROVE  IInv'
  OBVIOUS
<1>0. TypeOK
  BY DEF IInv
<1>1. /\ script.step = "erc20" /\ script' = [script EXCEPT !.step = "permit2"]
      /\ erc20' = IF erc20 >= script.attempt THEN erc20 ELSE max
      /\ args' = args /\ limit' = limit /\ balance' = balance
      /\ permit2' = permit2 /\ moves' = moves
  BY DEF ensureErc20Approval, Go, Suffices
<1>2. "permit2" \in Steps /\ 0 \in 0..MaxAttempts
  BY ArgumentsAssumption DEF Steps
<1>3. /\ script' \in Scripts /\ script'.step = "permit2"
      /\ script'.want = script.want /\ script'.attempt = script.attempt
  BY <1>0, <1>1, <1>2, Typed DEF Scripts
<1>4. script.attempt <= script.want /\ script.attempt <= max
  BY <1>1 DEF IInv, Covered, Chosen
<1>5. erc20' \in 0..max /\ script.attempt <= erc20'
  BY <1>0, <1>1, <1>4, Typed
<1>6. TypeOK'
  BY <1>0, <1>1, <1>3, <1>5 DEF TypeOK, Scripts
<1>7. Covered(script', erc20', permit2'.amount)
  BY <1>3, <1>4, <1>5 DEF Covered
<1>8. Truthful'
  <2> SUFFICES ASSUME moves' = 0, ~args'.skipPrecall
               PROVE  ~Fails(script.attempt)'
    BY DEF Truthful
  <2>1. ~Fails(script.attempt)
    BY <1>1 DEF IInv, Truthful, Simulated
  <2>2. erc20' = erc20
    BY <1>0, <1>1, <2>1, Typed DEF Fails, TransferFails
  <2>3. ~Fails(script'.attempt)
    BY <1>3, <2>1
  <2> QED
    BY <1>1, <2>2, <2>3 DEF Fails, TransferFails, OtherwiseFails, minEthOut
<1> QED
  BY <1>6, <1>7, <1>8 DEF IInv, Covered

LEMMA PermitKeeps == IInv /\ ensurePermit2RouterAllowance => IInv'
<1> SUFFICES ASSUME IInv, ensurePermit2RouterAllowance
             PROVE  IInv'
  OBVIOUS
<1>0. TypeOK
  BY DEF IInv
<1>1. /\ script.step = "permit2" /\ script' = [script EXCEPT !.step = "swap"]
      /\ permit2' = IF permit2.amount >= script.attempt /\ permit2.valid THEN permit2
                    ELSE [amount |-> max, valid |-> TRUE]
      /\ args' = args /\ limit' = limit /\ balance' = balance
      /\ erc20' = erc20 /\ moves' = moves
  BY DEF ensurePermit2RouterAllowance, Go, Suffices
<1>2. "swap" \in Steps /\ 0 \in 0..MaxAttempts
  BY ArgumentsAssumption DEF Steps
<1>3. /\ script' \in Scripts /\ script'.step = "swap"
      /\ script'.want = script.want /\ script'.attempt = script.attempt
  BY <1>0, <1>1, <1>2, Typed DEF Scripts
<1>4. /\ script.attempt <= script.want /\ script.attempt <= max /\ script.attempt <= erc20
  BY <1>1 DEF IInv, Covered, Chosen
<1>5. permit2' \in [amount : 0..max, valid : BOOLEAN] /\ script.attempt <= permit2'.amount
  <2>1. CASE permit2.amount >= script.attempt /\ permit2.valid
    BY <1>0, <1>1, <2>1, Typed DEF TypeOK
  <2>2. CASE ~(permit2.amount >= script.attempt /\ permit2.valid)
    BY <1>0, <1>1, <1>4, <2>2, Typed
  <2> QED
    BY <2>1, <2>2
<1>6. TypeOK'
  BY <1>0, <1>1, <1>3, <1>5 DEF TypeOK, Scripts
<1>7. Covered(script', erc20', permit2'.amount)
  BY <1>1, <1>3, <1>4, <1>5 DEF Covered
<1>8. Truthful'
  <2> SUFFICES ASSUME moves' = 0, ~args'.skipPrecall
               PROVE  ~Fails(script.attempt)'
    BY DEF Truthful
  <2>1. ~Fails(script.attempt)
    BY <1>1 DEF IInv, Truthful, Simulated
  <2>2. permit2' = permit2
    BY <1>0, <1>1, <2>1, Typed DEF Fails, OtherwiseFails
  <2>3. ~Fails(script'.attempt)
    BY <1>3, <2>1
  <2> QED
    BY <1>1, <2>2, <2>3 DEF Fails, TransferFails, OtherwiseFails, minEthOut
<1> QED
  BY <1>6, <1>7, <1>8 DEF IInv, Covered

LEMMA SpentOf ==
    ASSUME NEW a \in Nat, NEW n \in Nat, n <= a, a <= max
    PROVE  Spent(a, n) \in 0..max
  BY BoundsAssumption DEF Spent

LEMMA SwapKeeps == IInv /\ Swap => IInv'
<1> SUFFICES ASSUME IInv, Swap
             PROVE  IInv'
  OBVIOUS
<1>0. TypeOK
  BY DEF IInv
<1>1. /\ args' = args /\ limit' = limit /\ moves' = moves
      /\ {"failed", "balance", "done"} \subseteq Steps /\ 0 \in 0..MaxAttempts
  BY ArgumentsAssumption DEF Swap, Steps
<1>2. \E st \in {"failed", "balance", "done"} : script' = [script EXCEPT !.step = st]
  BY Zenon DEF Swap, Go
<1>3. script' \in Scripts /\ script'.step \in {"failed", "balance", "done"}
  BY <1>0, <1>1, <1>2, Typed DEF Scripts
<1>4. /\ balance' \in 0..max /\ erc20' \in 0..max
      /\ permit2' \in [amount : 0..max, valid : BOOLEAN]
  <2>1. CASE Fails(script.attempt)
    BY <1>0, <2>1 DEF Swap, wallet, TypeOK
  <2>2. CASE ~Fails(script.attempt)
    <3> DEFINE a == script.attempt
               p == Spent(permit2.amount, a)
    <3>1. /\ balance' = balance - a /\ erc20' = Spent(erc20, a)
          /\ permit2' = [permit2 EXCEPT !.amount = p]
      BY <2>2 DEF Swap, Swapped
    <3>2. a \in Nat /\ a <= balance /\ a <= erc20 /\ a <= permit2.amount
      BY <1>0, <2>2, Typed DEF Fails, TransferFails, OtherwiseFails
    <3>3. p \in 0..max /\ Spent(erc20, a) \in 0..max
      BY <1>0, <3>2, SpentOf, Typed
    <3>4. balance - a \in 0..max
      BY <1>0, <3>2, Typed
    <3> HIDE DEF a, p
    <3> QED
      BY <1>0, <3>1, <3>3, <3>4 DEF TypeOK
  <2> QED
    BY <2>1, <2>2
<1>5. TypeOK'
  BY <1>0, <1>1, <1>3, <1>4 DEF TypeOK, Scripts
<1> QED
  BY <1>3, <1>5 DEF IInv, Covered, Chosen, Truthful, Simulated

LEMMA OthersKeep == IInv /\ (TransferTokens \/ Expire) => IInv'
<1> SUFFICES ASSUME IInv, TransferTokens \/ Expire
             PROVE  IInv'
  OBVIOUS
<1>0. TypeOK
  BY DEF IInv
<1>1. /\ moves < MaxMoves /\ moves' = moves + 1
      /\ args' = args /\ limit' = limit /\ script' = script /\ erc20' = erc20
  BY DEF TransferTokens, Expire, Move
<1>2. balance' \in 0..max
  BY <1>0 DEF TransferTokens, Expire, TypeOK
<1>3. permit2' \in [amount : 0..max, valid : BOOLEAN] /\ permit2'.amount = permit2.amount
  BY <1>0 DEF TransferTokens, Expire, TypeOK
<1>4. moves \in Nat /\ moves' \in 0..MaxMoves /\ moves' # 0
  BY <1>0, <1>1, BoundsAssumption DEF TypeOK
<1>5. TypeOK'
  BY <1>0, <1>1, <1>2, <1>3, <1>4 DEF TypeOK
<1>6. Covered(script', erc20', permit2'.amount)
  BY <1>1, <1>3 DEF IInv, Covered
<1> QED
  BY <1>4, <1>5, <1>6 DEF IInv, Covered, Truthful

-----------------------------------------------------------------------------
LEMMA NextKeeps == IInv /\ [Next]_vars => IInv'
<1> SUFFICES ASSUME IInv, [Next]_vars
             PROVE  IInv'
  OBVIOUS
<1>1. CASE UNCHANGED vars
  <2>1. /\ args' = args /\ limit' = limit /\ moves' = moves /\ script' = script
        /\ balance' = balance /\ erc20' = erc20 /\ permit2' = permit2
    BY <1>1 DEF vars, wallet
  <2>2. TypeOK'
    BY <2>1 DEF IInv, TypeOK
  <2>3. Truthful'
    BY <2>1 DEF IInv, Truthful, Fails, TransferFails, OtherwiseFails, minEthOut
  <2> QED
    BY <2>1, <2>2, <2>3 DEF IInv, Covered
<1>2. CASE Next
  BY <1>2, ChunkKeeps, RunOneKeeps, AttemptKeeps, SimulateKeeps, ApprovalKeeps,
     PermitKeeps, SwapKeeps, OthersKeep DEF Next, Main
<1> QED
  BY <1>1, <1>2

(***************************************************************************)
(* From the choice of an amount to its swap the script keeps the amount    *)
(* within what it wanted, within each allowance it has seen to, and as     *)
(* good as its simulation.                                                 *)
(***************************************************************************)
THEOREM InvariantHolds == Spec => []IInv
<1> QED
  BY InitIsFine, NextKeeps, PTL DEF Spec

(***************************************************************************)
(* Balance and allowances never underflow, whatever is swapped.            *)
(***************************************************************************)
THEOREM TypeCorrect == Spec => []TypeOK
<1>1. IInv => TypeOK
  BY DEF IInv
<1> QED
  BY <1>1, InvariantHolds, PTL

(***************************************************************************)
(* Whenever the script sends a swap, both allowances cover its amount, and *)
(* only the step of somebody else can make a simulated swap fail.          *)
(***************************************************************************)
THEOREM SwapsAreCovered == Spec => []SwapIsCovered
<1>1. IInv => SwapIsCovered
  BY DEF IInv, Covered, Chosen, Truthful, Simulated, SwapIsCovered
<1> QED
  BY <1>1, InvariantHolds, PTL

=============================================================================
