CONSTANTS
  Digits = {0, 1, 9, 10, 30, 59}
  MaxHours = 159
  Payloads <- UpToThree
  MaxFrames = 2
  MaxRounds = 3
  Versions = {1, 2, 3}
  ControlWords = {0, 1, 2, 71, 72, 255}
  MaxOdd = 2
  Texts <- ShortTexts
  Fields <- ShortFields
  Charsets <- SomeCharsets
  Unknown <- NotConverted
  Nothing = Nothing
SPECIFICATION ConversionSpec
INVARIANTS TimesKept TagKept MessageKept TextKept
CHECK_DEADLOCK FALSE
