\* A pickup QR is created while points are reset.
CONSTANTS
  cap = cap  tea = tea
  Users = {u1}
  Events = {}
  MaxSeason = 2
  Products = {cap, tea}
  Product0 <- Shelf
  Patches <- ModeChanges
  Baskets <- TwoOrSet
  CheckoutKeys = {k1, k2}
  StockKeys = {s1, s2}
  Quantities <- TwoOrMinusOne
  MaxTotal = 2
  Handlers = {h1, h2}
  OrderIds = {1, 2}
  QrIds = {1}
  Welcome = 4
SPECIFICATION Spec
SYMMETRY Symmetry
INVARIANTS
  ClosedSeasonQrsAreDead
