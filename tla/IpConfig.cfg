SPECIFICATION Spec
CONSTANTS
  Callers = {"t1", "t2", "t3"}
  Addresses = {"a", "b"}
  CanFail = TRUE
INVARIANTS TypeOK ServerComesBack ServerAsAsked
PROPERTY AddressWhileStopped
