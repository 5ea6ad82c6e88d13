SPECIFICATION Spec
CONSTANTS
  Temperatures <- Boundary
  Threshold = 300
  Hysteresis = 5
  NoReading = NoReading
  MaxSwitches = 3
INVARIANTS
  TypeOK
  TrapsNeedCooling
  RelayTrapsMatchChanges
PROPERTIES
  ReceiverLearnsRelay
  AlarmFollowsTemperature
