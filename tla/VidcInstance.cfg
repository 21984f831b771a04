\* The instance state machine under guarded client calls and firmware events.
SPECIFICATION Spec
CONSTANTS
  MaxPendingIpsc = 2
INVARIANTS
  TypeOK
  InputPortConsistent
  PortSettingsFrozenWhileStreaming
