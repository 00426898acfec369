SPECIFICATION Spec
CONSTANTS
  WordBits = 15
  EnumBits = 8
  Nil = Nil
  Structs <- AllStructs
  MarshalToOf <- AllMarshalTo
  SizeOf <- AllSize
  CasesOf <- AllUnmarshal
  Proto3 <- EtcdProto3
  Guarded <- EtcdTypes
  Types <- AllTypes
INVARIANTS
  SizeIsExact
  RoundTrip
  CutNoticed
  UnmarshalEnds
