\* The abort of an upload whose verification goes on.
CONSTANTS
  a1 = a1  a2 = a2
  Artifacts = {a1, a2}
  Submissions = {s1}
  Nobody = Nobody
  Multipart = {}
  Suspects = {a1}
  Destinations <- Renamed
  MinItems = 1
  MaxItems = 1
  Commands = {"abort"}
  PatchStatuses = {}
  Handlers = {h1}
  Workers = {w1}
  MaxTries = 1
  MaxStalls = 1
SPECIFICATION VerifySpec
PROPERTIES
  ReadyIsNotAborted
CHECK_DEADLOCK FALSE
