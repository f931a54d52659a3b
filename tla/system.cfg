SPECIFICATION FairSpec
CONSTANTS
  FirstDigit <- MCFirstDigit
  OtherDigits <- MCOtherDigits
  ZEROS = 0
  NCards = 2
  InitCards <- MCInitCards
  Address = {a1}
  MaxSwipes = 2
  FrameLines = 2
  MaxEdits = 0
  MailMayFail = TRUE
  CameraMayFail = TRUE
INVARIANTS
  LocksCountSessions
  OneAccessPerSwipe
  CompressesOwnPhoto
  OpenDoorIsTimed
  MailMatchesAccess
  DoorOpensForSwipedCard
PROPERTIES
  IdStable
  BitmapStable
  KeepsReaderContract
  KeepsCameraContract
  AccessCompletes
  DoorCloses
  MailIsSent
  LocksReleased
CHECK_DEADLOCK FALSE
