SPECIFICATION FairTwinSpec
CONSTANTS
  Images <- Guests
  MemorySize = 12
  isLetter <- SomeLetters
  Keys = {72}
  MaxCalls = 2
PROPERTIES SameAsC FlagsAgreeOnWords EveryGuestEnds
CHECK_DEADLOCK FALSE
