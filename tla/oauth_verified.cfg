CONSTANTS
  Nil = Nil
  h1 = h1  h2 = h2
  k1 = k1  k2 = k2
  b1 = b1  b2 = b2
  Handshakes <- OneHandshake
  Callbacks <- OneCallback
  Browsers <- OneBrowser
  Reports <- SomeReports
SPECIFICATION Spec
INVARIANTS ProviderVerifiedIt
CHECK_DEADLOCK FALSE
