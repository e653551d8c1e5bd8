CONSTANTS
  Nil = Nil
  r1 = r1  r2 = r2  r3 = r3  r4 = r4
  alice = alice  bob = bob
  google = google  github = github
  Reqs <- FourRequests
  Emails <- OneAccount
  Registered <- OneAccount
  Passwords = {"p", "q"}
  Identities = {google, github}
  Profiles <- NoProfiles
  Ops = {"forgot", "reset", "login", "confirm", "disable", "refresh", "logout"}
  DeleteMissingFails = FALSE
  Faults = FALSE
SPECIFICATION MCOrderSpec
SYMMETRY Symmetry
INVARIANTS UsedLinkRefusedLater ResetTakesEffect TwoFATakesEffect EndedSessionRefused
CHECK_DEADLOCK FALSE
