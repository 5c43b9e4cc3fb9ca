SPECIFICATION Spec
CONSTANTS
  ByteSize = 4
  BPF_MEMWORDS = 1
  SKF_AD_VLAN_TAG = 240
  SKF_AD_VLAN_TAG_PRESENT = 244
  Address <- RxAddress
  Prefix = 1
  Port = 2
  Calls <- MCCalls
INVARIANTS
  TypeOK
  StaysInside
  ReadsInside
  RxFilterRight
PROPERTY ForwardTerminates
CHECK_DEADLOCK FALSE
