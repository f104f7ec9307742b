------------------------------ MODULE MCLeaderId ------------------------------
(* Instances of LeaderId for TLC.  Either a user has one authorisation and *)
(* leases end while their holders go on; or he may bind another profile,   *)
(* the event may be mapped anew, and leases end with their holders.        *)
EXTENDS LeaderId, TLC

CONSTANTS e1, x1, x2

Mapping == [e \in Events |-> x1]
Replacement == {<<x1, x2>>}
Symmetry == Permutations(Handlers)

VARIABLE scenario

LeasesMayEnd ==
  /\ tab'[MaxTab].state = "unborn"
  /\ \A e \in Events : event'[e].external = Mapping[e] /\ event'[e].active

ProfilesMayChange ==
  /\ \A u \in Users : lease[u] # Nobody /\ lease'[u] = Nobody =>
       handler'[lease[u]] = Idle
  /\ \A e \in Events : event'[e].open

Within ==
  /\ UNCHANGED scenario
  /\ CASE scenario = "leases" -> LeasesMayEnd
       [] scenario = "profiles" -> ProfilesMayChange

ScenarioInit == Init /\ scenario \in {"leases", "profiles"}
ScenarioSpec == ScenarioInit /\ [][Next /\ Within]_<<vars, scenario>>

(* Both at once. *)
AnySpec == Init /\ scenario = "" /\ [][Next /\ UNCHANGED scenario]_<<vars, scenario>>
=============================================================================
