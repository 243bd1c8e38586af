SPECIFICATION Spec
CONSTANTS
  Clients = {c1}
  Others = {other}
  Fds = {3}
  SeedMayFail = FALSE
INVARIANT GivenChainVerified
