\* Two devices at the desk, one of them for bookings and help; two pictures and
\* two covers; two versions of a form, one sheet, two files; a person who shows
\* two QRs and one of the staff who scans them; two keys and two texts.
CONSTANTS
  Keys = {k1, k2}
  Ids = {i1, i2}
  Texts = {t1, t2}
  Screens = {d1, d2}
  Devices = {d1}
  Versions = {i1, i2}
  Files = {t1, t2}
  Bodies = {b1, b2}
  Drafts = {g1, g2}
  Editors = {e1}
  People = {p1, s1}
  Staff = {s1}
  IntentIds = {n1}
  MaxItems = 1
  Nothing = Nothing
SPECIFICATION EverydaySpec
SYMMETRY Symmetry
INVARIANTS
  ShownIsStored
  OneBookingPerWish
  ShownPicturesHaveObjects
  SubmissionsFitTheirForm
  AcceptedIsStored
  PaidAsShown
CHECK_DEADLOCK FALSE
