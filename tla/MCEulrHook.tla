----------------------------- MODULE MCEulrHook -----------------------------
(***************************************************************************)
(* A launch small enough for TLC: a cap of 20 tokens, a curve scale of 4   *)
(* OKB, amounts of a few units.  The proportions are the code's: the       *)
(* graduation threshold is 80% of the cap, a couple of buys away, and the  *)
(* fee and the tax are large enough (25% and 25..50%) not to round to zero *)
(* on amounts this small.                                                  *)
(***************************************************************************)
EXTENDS EulrHook, UD60x18, TLC

MCUnit == 64

MCExps == Tabulate(LAMBDA x : exp(MCUnit, x), 0, MaxExpInput)

MCExp == [x \in 0..MaxExpInput |-> MCExps[x + 1]]

MCLns == Tabulate(LAMBDA m : ln(MCUnit, (K * MCUnit) \div (K - m)), 0, K - 1)

MCLnTable == [r \in {(K * MCUnit) \div (K - m) : m \in 0..(K - 1)} |->
            MCLns[1 + CHOOSE m \in 0..(K - 1) : (K * MCUnit) \div (K - m) = r]] @@ <<>>

\* TLC computes the table once, and what replaces a constant every time.
MCLn == MCLnTable

=============================================================================
