\* One node and one request show it: two would only make the trace longer.
SPECIFICATION Spec
CONSTANTS
  MaxNodes = 1
  Absent = Absent
  Servers = {"server 1"}
  LocalPorts = {0}
  Ports = {1}
  Device = 1
  Lengths = {0, 3}
  MaxAttributes = 1
  MaxRequests = 1
INVARIANTS
  OneReadsWhatItShould
CHECK_DEADLOCK FALSE
