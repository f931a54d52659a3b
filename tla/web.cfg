SPECIFICATION Spec
CONSTANTS
  FirstDigit <- MCFirstDigit
  OtherDigits <- MCOtherDigits
  ZEROS = 0
  NCards = 2
  InitCards <- MCInitCards
  Address = {a1, a2}
  MaxSwipes = 1
  FrameLines = 1
  MaxEdits = 2
  MailMayFail = TRUE
  CameraMayFail = TRUE
INVARIANTS
  ListExclusion
CHECK_DEADLOCK FALSE
