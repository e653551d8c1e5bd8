CONSTANTS
  Nil = Nil
  r1 = r1  r2 = r2  r3 = r3  r4 = r4
  alice = alice  bob = bob
  google = google  github = github
  Reqs <- FourRequests
  Emails <- OneAccount
  Registered <- OneAccount
  Passwords = {"p"}
  Identities = {google, github}
  Profiles <- NoProfiles
  Ops = {"login", "refresh", "logout", "forgot", "reset"}
  DeleteMissingFails = TRUE
  Faults = TRUE
SPECIFICATION SignInSpec
SYMMETRY Symmetry
INVARIANTS RotationSingleUse OneSessionPerSignIn ResetRevokesExisting
PROPERTIES SessionEndsForAReason ImplementsSessions
CHECK_DEADLOCK FALSE
