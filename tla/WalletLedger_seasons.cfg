\* Two users, two requests in flight; two adjustment keys and one reset, or
\* an event fund, two settings updates and two resets.
CONSTANTS
  u1 = u1  u2 = u2  h1 = h1  h2 = h2  k1 = k1  k2 = k2  e1 = e1  j1 = j1  j2 = j2
  Users = {u1, u2}
  Events = {e1}
  MaxSeason = 3
  Handlers = {h1, h2}
  AdjustKeys = {k1, k2}
  Amounts <- GiveAndTake
  Jobs = {j1, j2}
  Changes <- WelcomeOrLimit
  Settings0 <- SmallSettings
  Ops = {"open", "adjust", "fund", "preview", "patch"}
SPECIFICATION ScenarioSpec
SYMMETRY Symmetry
INVARIANTS
  NoOverdraft
  CachedBalanceIsEntrySum
  AckedIsPosted
  WelcomedOnce
PROPERTIES
  ClosedSeasonIsFrozen
  JournalSpec
