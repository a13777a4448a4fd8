CONSTANTS
  Word = 64
  PageSize = 2
  SectorSize = 4
  FlashStart = 8
  FlashEndRp2040 = 16
  FlashEndRp2350 = 20
  SramStart = 32
  SramEndRp2040 = 38
  SramEndRp2350 = 42
  ChunkSize = 2
  MaxFaults = 0
  Images <- SkippedImages
  Leftovers <- NoLeftovers
SPECIFICATION Spec
INVARIANT ExecutesLoadedImage
CHECK_DEADLOCK FALSE
