SPECIFICATION ProgramSpec
CONSTANTS
  Clients = {c1, c2}
  TlsClients = {s1}
  Others = {s1, other}
  Fds = {3, 4}
  SeedMayFail = FALSE
INVARIANTS TypeOK OwnsWhatItUses TlsTypeOK ReadyIsTrue NothingHalfOpen ChainIsThere
PROPERTIES LeaseKept LeasesKept PlainAlone TlsAlone
