\* A user, two profiles, two authorisations, one event, two requests.
CONSTANTS
  e1 = e1  x1 = x1  x2 = x2
  Users = {u1}
  Profiles = {p1, p2}
  MaxTab = 2
  Events = {e1}
  Externals = {x1, x2}
  External0 <- Mapping
  Remaps <- Replacement
  Changes = {"active", "open"}
  Handlers = {h1, h2}
  MaxAttempts = 2
  Nobody = Nobody
SPECIFICATION ScenarioSpec
SYMMETRY Symmetry
INVARIANTS
  
  ClaimsAreOfTheBinding
  TokensAreOfTheProfile
PROPERTIES
  RewardIsEarned
