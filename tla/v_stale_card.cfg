SPECIFICATION Spec
CONSTANTS
  FirstDigit <- MCFirstDigit
  OtherDigits <- MCOtherDigits
  ZEROS = 0
  NCards = 2
  InitCards <- MCInitCards
  Address = {a1, a2}
  MaxSwipes = 2
  FrameLines = 1
  MaxEdits = 0
  MailMayFail = FALSE
  CameraMayFail = FALSE
INVARIANT GetDataOnlyWhenValid
