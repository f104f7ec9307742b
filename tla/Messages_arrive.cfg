\* A user with a participation and a submission, and a CRM that fails; or a
\* post and a campaign, two recipients, two runs of a job at a time.
CONSTANTS
  Profile = user
  Participations = {e1}
  Materials = {s1}
  Relays = {r1}
  CrmWorkers = {w1}
  Nothing = Nothing
  Editors = {h1}
  Answers = {"done", "review", "rejected"}
  MaxTries = 1
  MaxEdits = 1
  MaxReadied = 2
  MaxOutages = 1
  MaxCrashes = 1
  MaxEvents = 2
  Posts = {c1}
  Campaigns = {k1}
  People = {p1, p2}
  Legacy = {p2}
  BotWorkers = {b1, b2}
  BotTries = 2
  MaxTime = 1
  MaxChanges = 1
  MaxBreaks = 1
SPECIFICATION MessagesSpec
INVARIANTS
  CompletedMeansTold
  ToldOnce
PROPERTIES
  EveryReadySubmissionIsSettled
CHECK_DEADLOCK FALSE
