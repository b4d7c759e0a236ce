\* One fair loop, two epochs, up to two crashes, unanswered calls,
\* answers of 404, cancellations or sealing failures.
SPECIFICATION MishapSpec
CONSTANTS
  Worker = {w1}
  NoWorker = NoWorker
  MaxEpoch = 2
  MaxEdits = 0
  Models = {a}
  NoModels = NoModels
  MaxToken = 5
  Mishaps = {"crash", "error", "cancel", "seal", "notfound"}
  MaxMishaps = 2
INVARIANTS
  StoredTokenWorks
PROPERTIES
  RevokedKeysLeave
