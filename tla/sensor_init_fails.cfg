SPECIFICATION Spec
CONSTANTS
  Readers = {udp, monitor}
  Raws <- ColdAndWarm
  InitOutcomes <- AnyInit
  NoReading = NoReading
INVARIANTS
  FailedInitIsReported
