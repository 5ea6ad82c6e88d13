SPECIFICATION Spec
CONSTANTS
  Readers = {udp, monitor}
  Raws <- ColdAndWarm
  InitOutcomes <- AnyInit
  NoReading = NoReading
INVARIANTS
  TypeOK
PROPERTIES
  IsRegister
  ReadsReturn
