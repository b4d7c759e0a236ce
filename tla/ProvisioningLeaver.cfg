\* Offboarding between the re-read and the commit.
SPECIFICATION Spec
CONSTANTS
  Worker = {w1}
  NoWorker = NoWorker
  MaxEpoch = 2
  MaxEdits = 0
  Models = {a}
  NoModels = NoModels
  MaxToken = 6
  Mishaps = {}
  MaxMishaps = 0
INVARIANTS
  LeaversHaveNoToken
