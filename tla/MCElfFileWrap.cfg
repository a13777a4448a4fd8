CONSTANTS
  Word = 64
  PageSize = 2
  SectorSize = 4
  FlashStart = 8
  FlashEndRp2040 = 16
  FlashEndRp2350 = 20
  SramStart = 32
  SramEndRp2040 = 38
  SramEndRp2350 = 42
  HeaderSize = 5
  IdentSize = 2
  EntrySize = 3
  HalfWord = 8
  Files <- MCFiles
SPECIFICATION ElfSpec
INVARIANT ContentIsInFile
CHECK_DEADLOCK FALSE
