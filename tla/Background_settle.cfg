\* One export with its file and person, two requests and two builds; one user
\* with two submissions, two policies and a reset; two tabs and two sessions.
CONSTANTS
  Exports = {x1}
  Kind <- AllZip
  Files = {f1}
  People = {p1}
  HeldAtFirst = {p1}
  Handlers = {h1, h2}
  Workers = {w1}
  MaxTries = 2
  Nothing = Nothing
  Users = {u1}
  Events = {e1}
  MaxSeason = 2
  Event = e1
  Submissions = {s1, s2}
  Author <- OneAuthor
  MaxTime = 2
  Welcome = 1
  Policies <- AnyAndLate
  Uploads = {a1}
  Batches = {b1}
  Nobody = Nobody
  Tabs = {t1, t2}
  Sessions = {c1, c2}
SPECIFICATION BackgroundSpec
INVARIANTS
  
  RewardedOnce
  PointsAreOfThisSeason
  
PROPERTIES
  EveryExportIsSettled
  AnnouncedRewardArrives
  EveryUploadIsSettled
  StartupEnds
CHECK_DEADLOCK FALSE
