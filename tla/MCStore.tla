------------------------------- MODULE MCStore -------------------------------
(* Instances of Store for TLC: cap is sold in limited stock, two of it to a *)
(* user at most, until its stock mode changes; tea is always unlimited.     *)
EXTENDS Store, TLC

CONSTANTS cap, tea

Shelf ==
  cap :> [published |-> TRUE, mode |-> "limited", limit |-> 2, price |-> 1]
    @@ tea :> [published |-> TRUE, mode |-> "unlimited", limit |-> 0, price |-> 1]

ModeChanges ==
  {[product |-> cap, change |-> [mode |-> m]] : m \in {"limited", "unlimited"}}

TwoOrSet == {cap :> 2, cap :> 1 @@ tea :> 1}
TwoOrMinusOne == {2, -1}

Symmetry ==
  UNION {Permutations(S) : S \in {Users, CheckoutKeys, StockKeys, Handlers}}
=============================================================================
