SPECIFICATION HostSpec
CONSTANTS
  a = a  b = b
  Insts = {a, b}
  Host = Host
  Creators = {Host}
  NumberElem = FALSE
  Jspi = TRUE
  Careful = TRUE
  Deferred = TRUE
  None = None
  MaxLen = 2
  MaxSent = 4
INVARIANT ProducerKept
CHECK_DEADLOCK FALSE
