CONSTANTS
  Nil = Nil
  r1 = r1  r2 = r2  r3 = r3  r4 = r4
  alice = alice  bob = bob
  google = google  github = github
  Reqs <- ThreeRequests
  Emails <- OneAccount
  Registered <- NoAccount
  Passwords = {"p"}
  Identities = {google, github}
  Profiles <- NoProfiles
  Ops = {"register", "verify", "setup"}
  DeleteMissingFails = FALSE
  Faults = FALSE
SPECIFICATION Spec
INVARIANTS VerifiedStays
CHECK_DEADLOCK FALSE
