SPECIFICATION Spec
CONSTANTS
  N = 5
  MaxSeq = 9
  MaxHdrSeq = 5
INVARIANTS
  TypeOK
  HeadersSelectable
  EveryHeaderCopyRecovers
  CachedTailIsOnMedia
  CapacityIsExact
PROPERTY
  OnlyObsoleteRecordsErased
CHECK_DEADLOCK FALSE
