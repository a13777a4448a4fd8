CONSTANTS
  Word = 64
  PageSize = 2
  SectorSize = 4
  FlashStart = 8
  FlashEndRp2040 = 16
  FlashEndRp2350 = 20
  SramStart = 32
  SramEndRp2040 = 38
  SramEndRp2350 = 42
  ChunkSize = 2
  Images <- MCImages
  Places <- MCPlaces
  MaxRanges = 3
SPECIFICATION ErasesSpec
INVARIANTS
  PlanTypeOK
  PagesErased
  PagesHoldImage
  EraseIsTight
  MirrorStaysInSram
  DryRunPredictsLoad
  MergedIsApart
  MergedCoversTheSame
  SortDoesNotMatter
CHECK_DEADLOCK FALSE
