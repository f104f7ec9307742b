\* A participant and a member of staff, two QRs, two intents of the whole
\* balance, two sets of rules, one reset.
CONSTANTS
  u1 = u1  u2 = u2  k1 = k1
  Users = {u1, u2}
  Events = {}
  MaxSeason = 2
  QrIds = {1, 2}
  IntentIds = {1, 2}
  Keys = {k1}
  Amounts = {1}
  Staff = {u1}
  Rules <- TwoRules
  Welcome = 1
SPECIFICATION Spec
SYMMETRY Symmetry
INVARIANTS
  QrFollowsItsIntent
PROPERTIES
  PaymentSpec
