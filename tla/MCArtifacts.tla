----------------------------- MODULE MCArtifacts -----------------------------
(* Instances of Artifacts for TLC: two files that may have one name or two; *)
(* or a file whose name a rename of the event may change between two        *)
(* verifications.                                                           *)
EXTENDS Artifacts, TLC

CONSTANTS a1, a2

OneNameOrTwo ==
  [a \in Artifacts |-> IF a = a1 THEN {<<"x", "x (2)">>} ELSE {<<"x", "x (2)">>, <<"y">>}]
Renamed == [a \in Artifacts |-> {<<"x", "x (2)">>, <<"y">>}]

Symmetry == Permutations(Workers) \cup Permutations(Handlers)

(* Two scenarios of removal: the life of one file, to its verdict; and two  *)
(* files that compete for one place, until one is completed.                *)
VARIABLE scenario

Within ==
  /\ UNCHANGED scenario
  /\ scenario = "life" => artifact'[a2] = NoArtifact
  /\ scenario = "place" => UNCHANGED outbox

ScenarioInit == Init /\ scenario \in {"life", "place"}
ScenarioNext == Next /\ Within
ScenarioSpec == ScenarioInit /\ [][ScenarioNext]_<<vars, scenario>> /\ Fairness

(* Two scenarios of verification: the names are alike, or not. *)
OneNaming ==
  /\ UNCHANGED scenario
  /\ \A w \in Workers :
       "names" \in DOMAIN worker'[w] /\ worker'[w].artifact # a1 =>
         (scenario = "alike") = (worker'[w].names # <<"y">>)

VerifyInit == Init /\ scenario \in {"alike", "apart"}
VerifySpec == VerifyInit /\ [][Next /\ OneNaming]_<<vars, scenario>>
=============================================================================
