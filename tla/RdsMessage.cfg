SPECIFICATION Spec
CONSTANTS
  Stations <- ShortMessages
  Names <- SentNames
  Texts <- SentTexts
  Messages <- SentMessages
  MaxGap = 0
  NameSegs = 2
  TextSegs = 3
  Nul = "NUL"
  CR = "CR"
INVARIANT MessageWhole
