\* Two loops, an account that is opened and moved on once; see MCProvisioning
\* for what either story uses of the edits and mishaps.
SPECIFICATION MCSpec
CONSTANTS
  Worker = {w1, w2}
  NoWorker = NoWorker
  MaxEpoch = 2
  MaxEdits = 2
  Models = {a, b}
  NoModels = NoModels
  MaxToken = 6
  Mishaps = {"loss", "late", "notfound", "seal"}
  MaxMishaps = 1
SYMMETRY MCSymmetry
INVARIANTS
  GrantMatchesAccount
  EditsConverge
