CONSTANTS
  Nil = Nil
  r1 = r1  r2 = r2  r3 = r3  r4 = r4
  alice = alice  bob = bob
  google = google  github = github
  Reqs <- TwoRequests
  Emails <- TwoAccounts
  Registered <- OneAccount
  Passwords = {"p"}
  Identities = {google, github}
  Profiles <- SomeProfiles
  Ops = {"register", "login", "login2fa", "refresh", "logout", "verify", "forgot", "reset", "setup", "confirm", "disable", "oauth"}
  DeleteMissingFails = FALSE
  Faults = TRUE
SPECIFICATION JobFairSpec
PROPERTIES EveryRequestAnswered ExpiredSessionsCleaned
CHECK_DEADLOCK FALSE
