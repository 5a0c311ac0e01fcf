SPECIFICATION HostSpec
CONSTANTS
  a = a  b = b
  Insts = {a, b}
  Host = Host
  Creators = {a, Host}
  NumberElem = FALSE
  Jspi = TRUE
  Careful = TRUE
  Deferred = FALSE
  None = None
  MaxLen = 2
  MaxSent = 4
INVARIANTS HostTypeOK NobodyHangs FutureKept HostClaims ElementsKept
PROPERTY EndsTold
CHECK_DEADLOCK FALSE
