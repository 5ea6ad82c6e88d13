SPECIFICATION Spec
CONSTANTS
  MaxVarbinds = 4
  MaxOctets = 128
  MaxCommunity = 31
  PacketLen = 260
  ReadCommunity <- Public
  WriteCommunity <- Private
  Messages <- MCMessages
  Answers <- MCAnswers
  Traps <- MCTraps
  Faults <- MCFaults
  Damaged <- MCDamaged
INVARIANTS
  TypeOK
  RequestsAreUnderstood
  ReplyIsCanonical
  EchoNeverGrows
  TrapIsWhatWasAsked
  OwnTrapsAreSent
