\* A peer that floods, stops reading and goes away; pings, closes and data
\* from several senders; the connection ends.
CONSTANTS
  InCap = 1
  OutCap = 1
  CtrlCap = 1
  MaxFrames = 3
SPECIFICATION Spec
CHECK_DEADLOCK FALSE
INVARIANTS
  InOrder
  ControlNotStuck
PROPERTIES
  TeardownEnds
