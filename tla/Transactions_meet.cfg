\* Three transactions at a time, but not a reset and an artifact reward; or
\* three profiles, two Telegram accounts and one of MAX, two requests in flight.
CONSTANTS
  Backends = {b1, b2, b3}
  Tasks <- AnyTask
  IdOrder <- PayersFirst
  Telegrams = {t1, t2}
  Maxes = {m1}
  Phones = {p1}
  Handlers = {h1, h2}
  Nobody = Nobody
SPECIFICATION MeetSpec
SYMMETRY Symmetry
CHECK_DEADLOCK FALSE
INVARIANTS
  
  ResetIsAlone
  ActiveWalletsHaveAWayIn
  SessionsFollowTheirAccount
