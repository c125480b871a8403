SPECIFICATION Spec
CONSTANTS
  Procs <- TwoProcs
  Keys <- TwoKeys
  Conclusions = {blocked}
  NoConclusion = none
  Window = 1
  TTL = 1
  MaxFiles = 1
  Faults = {"open", "record", "reset", "touch"}
  MaxTime = 2
INVARIANT SingleFlight
INVARIANT FlightInv
INVARIANT NoOlderConclusion
PROPERTY SweepSparesFresh
CHECK_DEADLOCK FALSE
