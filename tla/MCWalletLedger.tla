--------------------------- MODULE MCWalletLedger ---------------------------
(* Instances of WalletLedger for TLC.  Either adjustments run while one    *)
(* season closes, or funds are created and settings updated while two do.  *)
EXTENDS WalletLedger, TLC

CONSTANTS u1, u2, h1, h2, k1, k2, e1, j1, j2

Symmetry ==
  Permutations({u1, u2}) \cup Permutations({h1, h2}) \cup Permutations({k1, k2})
    \cup Permutations({j1, j2})

(* Settings, and the updates of them that requests may carry. *)
SmallSettings == [welcome |-> 2, leader |-> 1, limit |-> 2]
WelcomeOrLimit == {[welcome |-> 1], [limit |-> 3]}

(* Adjustments give and take. *)
GiveAndTake == {1, -2}

VARIABLE scenario

Adjusting == {"open", "adjust", "preview"}
Resetting == {"open", "fund", "preview", "patch"}

Within ==
  /\ UNCHANGED scenario
  /\ scenario = "adjustments" => season' <= 2
  /\ \A h \in Handlers :
       request'[h] = Idle \/ request'[h].task.op \in
         IF scenario = "adjustments" THEN Adjusting ELSE Resetting

ScenarioInit == Init /\ scenario \in {"adjustments", "resets"}
ScenarioSpec == ScenarioInit /\ [][Next /\ Within]_<<vars, scenario>>
=============================================================================
