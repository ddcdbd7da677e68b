SPECIFICATION Spec
CONSTANTS
  log1 = log1
  log2 = log2
  log3 = log3
  host = host
  rundll32 = rundll32
  Calls = {log1, log2, log3}
  Processes = {host, rundll32}
  Home <- MCHome
  Writes = 3
  MaxTime = 2
  Faults = {"open", "write", "crash"}
INVARIANTS
  TypeOK
  NotMixed
  OwnTime
  InOrder
PROPERTIES
  BookKept
