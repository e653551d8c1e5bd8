CONSTANTS
  Nil = Nil
  r1 = r1  r2 = r2  r3 = r3  r4 = r4
  alice = alice  bob = bob
  google = google  github = github
  Reqs <- TwoRequests
  Emails <- OneAccount
  Registered <- OneAccount
  Passwords = {"p"}
  Identities = {google, github}
  Profiles <- NoProfiles
  Ops = {"setup", "confirm"}
  DeleteMissingFails = FALSE
  Faults = FALSE
SPECIFICATION Spec
INVARIANTS EnabledSecretConfirmed
CHECK_DEADLOCK FALSE
