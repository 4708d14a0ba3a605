----------------------------- MODULE EulrToken -----------------------------
(***************************************************************************)
(* The ledger of one launched token (src/src/token/EulrToken.sol, an ERC20 *)
(* whose mint and burn only its hook may call).  A ledger is any record    *)
(* with fields totalSupply and balanceOf; each operator maps a ledger to   *)
(* the ledger after the call.  The caller checks the balance first: the    *)
(* code reverts on an insufficient one.                                    *)
(***************************************************************************)
EXTENDS Integers

mint(t, to, amount) ==
    [t EXCEPT !.totalSupply = @ + amount, !.balanceOf[to] = @ + amount]

burn(t, from, amount) ==
    [t EXCEPT !.totalSupply = @ - amount, !.balanceOf[from] = @ - amount]

transfer(t, from, to, amount) ==
    LET paid == [t.balanceOf EXCEPT ![from] = @ - amount]
    IN  [t EXCEPT !.balanceOf = [paid EXCEPT ![to] = @ + amount]]

=============================================================================
