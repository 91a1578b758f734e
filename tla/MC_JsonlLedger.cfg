SPECIFICATION Spec
CONSTANTS
  Writers = {"w1", "w2"}
  Executions = {"x1", "x2"}
  Locking = TRUE
  Faults = {"crash", "tear"}
  MaxLines = 4
  Nobody = "nobody"
INVARIANTS
  AckedOrRefused
  ReservedOnce
  ReservedForOne
PROPERTIES
  ImplementsLog
CHECK_DEADLOCK FALSE
