CONSTANTS
  Nil = Nil
  h1 = h1  h2 = h2
  k1 = k1  k2 = k2
  b1 = b1  b2 = b2
  Handshakes <- TwoHandshakes
  Callbacks <- TwoCallbacks
  Browsers <- TwoBrowsers
  Reports <- SomeReports
SPECIFICATION Spec
SYMMETRY Symmetry
INVARIANTS TypeOK AcceptedWhereStarted OneSignInPerHandshake StateUsedUp RefusedForAReason VerifiedPrimaryWins
CHECK_DEADLOCK FALSE
