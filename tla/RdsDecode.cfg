SPECIFICATION Spec
CONSTANTS
  Stations <- AllStations
  Names <- SentNames
  Texts <- SentTexts
  Messages <- SentMessages
  MaxGap = 3
  NameSegs = 2
  TextSegs = 3
  Nul = "NUL"
  CR = "CR"
INVARIANTS NameWasSent TextWasSent MessageUnmixed
