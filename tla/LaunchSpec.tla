----------------------------- MODULE LaunchSpec -----------------------------
(***************************************************************************)
(* What a launch promises to those who deal with it, each transaction one  *)
(* step: OKB comes in by buys and gifts, goes out against tokens, as fees  *)
(* or, once, to a venue, and what the hook holds always covers what it     *)
(* owes.  A recipient may send OKB back while it is paid, so a payout may  *)
(* leave more behind than it should, never less.  EulrHook implements this *)
(* with transactions that give control away and may revert.                *)
(***************************************************************************)
EXTENDS Integers

VARIABLES
    phase,      \* trading, graduated or migrated
    curve,      \* net OKB of the curve
    owed,       \* fees nobody has claimed yet
    held,       \* OKB of the hook
    supply,     \* tokens in existence
    venue       \* OKB the migration handed over

launch == <<phase, curve, owed, held, supply, venue>>

AtLeast(n) == {m \in Int : m >= n}

Init ==
    /\ phase = "trading"
    /\ curve = 0 /\ owed = 0 /\ held = 0 /\ supply = 0 /\ venue = 0

\* What is paid goes to the curve and the fees, all of it.
Buy ==
    /\ phase = "trading" /\ phase' \in {"trading", "graduated"}
    /\ curve' \in AtLeast(curve)
    /\ owed' \in AtLeast(owed)
    /\ held' = held + (curve' - curve) + (owed' - owed)
    /\ supply' \in AtLeast(supply)
    /\ venue' = venue

\* What leaves the curve is paid out or becomes a fee, if there is so much
\* beyond the fees: after the migration nothing backs the curve.
Sell ==
    LET gross == curve - curve'
        fee   == owed' - owed
    IN  /\ curve' \in 0..curve
        /\ gross <= held - owed
        /\ owed' \in owed..(owed + gross)
        /\ held' \in AtLeast(held - (gross - fee))
        /\ supply' \in 0..(supply - 1)
        /\ UNCHANGED <<phase, venue>>

\* The fees, all of them, and nothing else.
ClaimFees ==
    /\ owed > 0 /\ owed' = 0
    /\ held' \in AtLeast(held - owed)
    /\ UNCHANGED <<phase, curve, supply, venue>>

Receive ==
    /\ held' \in AtLeast(held + 1)
    /\ UNCHANGED <<phase, curve, owed, supply, venue>>

\* Everything but the fees goes to the venue, once.
Migrate ==
    /\ phase = "graduated" /\ phase' = "migrated"
    /\ held - owed > 0 /\ venue' = held - owed
    /\ held' \in AtLeast(held - venue')
    /\ supply' \in AtLeast(supply)
    /\ UNCHANGED <<curve, owed>>

Next == Buy \/ Sell \/ ClaimFees \/ Receive \/ Migrate

Spec == Init /\ [][Next]_launch

-----------------------------------------------------------------------------
\* Amounts do not go below zero.
TypeOK ==
    /\ phase \in {"trading", "graduated", "migrated"}
    /\ curve \in Nat /\ owed \in Nat /\ held \in Nat
    /\ supply \in Nat /\ venue \in Nat

\* What the hook keeps for the holders of tokens.
Principal == IF phase = "migrated" THEN 0 ELSE curve

(***************************************************************************)
(* What the hook holds covers the fees and the curve: whoever keeps the    *)
(* promises above, in any order, stays able to keep them.                  *)
(***************************************************************************)
Solvent == held - owed >= Principal

=============================================================================
