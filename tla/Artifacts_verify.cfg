\* Two files, of one name or two, verified at the same time, with stalls and crashes.
CONSTANTS
  a1 = a1  a2 = a2
  Artifacts = {a1, a2}
  Submissions = {s1}
  Nobody = Nobody
  Multipart = {}
  Suspects = {}
  Destinations <- OneNameOrTwo
  MinItems = 2
  MaxItems = 2
  Commands = {}
  PatchStatuses = {}
  Handlers = {h1}
  Workers = {w1, w2}
  MaxTries = 2
  MaxStalls = 1
SPECIFICATION VerifySpec
SYMMETRY Symmetry
INVARIANTS
  ReadyHasItsObject
  SubmissionIsReadyIffWhole
CHECK_DEADLOCK FALSE
