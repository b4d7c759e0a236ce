\* One machine with the service and the command that set it up, one on which
\* commands are run; anything may happen, three times.  MaxToken is never reached:
\* a token takes a new machine, a window, or enrolments that overlap.
CONSTANTS
  m1 = m1
  m2 = m2
  s1 = s1
  c1 = c1
  c2 = c2
  Machine = {m1, m2}
  NoMachine = NoMachine
  Process = {s1, c1, c2}
  At <- MCAt
  Service = {s1}
  MaxToken = 5
  MaxEvents = 3
  Events = {"allow", "revoke", "forget", "bind", "bucket", "prune", "crash", "lost", "wipe", "clone"}
SPECIFICATION MCSpec
PROPERTIES TokensEndByConsent BackThroughAWindow AnOpenWindowLetsItIn ClonesBecomeThemselves
